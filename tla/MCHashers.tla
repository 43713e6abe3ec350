------------------------------ MODULE MCHashers ------------------------------
(* Hashers over strings of each class of lengths, some of which differ in    *)
(* one byte, and integers.                                                   *)
EXTENDS Hashers, SequencesExt

Byte(v) == {<< "bit", b >> : b \in {x \in 0 .. 7 : (v \div 2 ^ x) % 2 = 1}}
Slice(n, value(_)) == [len |-> n, byte |-> [i \in 0 .. n - 1 |-> Byte(value(i))]]

\* Byte 0 is 5, byte 1 is 1, all others are 0, but for byte `at', which is 2.
\* So the 3 bytes without such a byte are loaded as the same word as the 8.
MCString(n, at) ==
  Slice(n, LAMBDA i : IF i = at THEN 2 ELSE IF i = 0 THEN 5 ELSE IF i = 1 THEN 1 ELSE 0)
NoByte == -1

MCStrings == {MCString(0, NoByte), MCString(3, NoByte), MCString(8, NoByte),
              MCString(40, NoByte), MCString(40, 20), MCString(70, NoByte), MCString(70, 0)}
MCNumbers == {Slice(8, LAMBDA i : IF i = 0 THEN v ELSE 0) : v \in {0, 5}}

\* One and two words of the value 24, which is 8 xored with 16.
MCWords == {Slice(8 * words, LAMBDA i : IF i % 8 = 0 THEN 24 ELSE 0) : words \in {1, 2}}

\* The bytes that a thread has written, without their cuts.
Text(t) == FlattenSeq([i \in 1 .. Len(log[t]) |->
             [j \in 1 .. log[t][i].data.len |-> log[t][i].data.byte[j - 1]]])

\* "Same bytes, different write sequences, different hashes: every `write`
\* mixes its length" (tests/aes_hasher.rs).  It does not hold: the length is
\* xored to the second word of the data.
WriteSequencesDisambiguated ==
  \A t, u \in Threads :
    SameSeed(t, u) /\ Text(t) = Text(u) /\ log[t] # log[u] => hasher[t].acc # hasher[u].acc
=============================================================================
