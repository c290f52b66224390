----------------------------- MODULE MCUdpTremu -----------------------------
(* An instance of UdpTremu for TLC: words of 4 values, ports of 16, and    *)
(* numbers read into types of 16 (int) and 32 (long) values.               *)
EXTENDS UdpTremu

MCServerLine == {<<"-S">>, <<"-S", "-b", "g", "-l", "2">>}

MCTick == {-1, 1}

\* Three packets; one, given as a negative number, at the end of the word; one
\* too many for the word; none; as many as are left of a number that is greater
\* than the word, to the wrong port; an option that --help names and the program
\* does not know; a number that is none; one greater than an int; a value that is
\* missing.
MCClientLine ==
  { <<"-r", "h", "-x", "0", "-c", "3">>,
    <<"-r", "h", "-x", "3", "-c", "-3">>, <<"-r", "h", "-x", "3", "-c", "2">>,
    <<"-vv", "-r", "h", "-c", "4">>, <<"-r", "h", "-c", "10", "-p", "2">>,
    <<"-r", "h", "-np", "3">>, <<"-r", "h", "-c", "x">>, <<"-r", "h", "-i", "10">>,
    <<"-c", "2", "-r">>, <<"-h">> }
=============================================================================
