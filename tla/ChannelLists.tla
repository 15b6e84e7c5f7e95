---------------------------- MODULE ChannelLists ----------------------------
(* The arrays of channels of the example programs: the channels, then NULL.  *)
(* The procedures are the same in HOSTMULT.C, MULTPASS.C and HOSTPASS.C.     *)
(* Places are counted from 1, and "size" is the places before the NULL that  *)
(* CreateChannels wrote.                                                     *)
EXTENDS Naturals, Sequences

CONSTANT Null   \* no channel

CreateChannels(cs) == [i \in 1..Len(cs) + 1 |-> IF i <= Len(cs) THEN cs[i] ELSE Null]


\* Count steps to the left, Count at most size.
RotateChannels(cs, size, n) ==
  [i \in 1..size + 1 |-> IF i > size THEN Null
                         ELSE IF i + n <= size THEN cs[i + n] ELSE cs[i + n - size]]

\* The channel at i goes behind the NULL.
DeleteChannel(cs, size, i) ==
  LET r == RotateChannels(cs, size, i)
  IN  [r EXCEPT ![size + 1] = r[size], ![size] = Null]

InsertTurned(cs, size, i) ==  \* mutant: (size - i) + 1 steps
  RotateChannels([cs EXCEPT ![size] = cs[size + 1], ![size + 1] = Null], size, size - i + 1)

\* And comes back.
InsertChannel(cs, size, i) ==
  RotateChannels([cs EXCEPT ![size] = cs[size + 1], ![size + 1] = Null], size, size - i)

\* The places that ProcAltList looks at: those before the first NULL.
Listed(cs) == {i \in DOMAIN cs : \A j \in 1..i : cs[j] # Null}

\* Those at which it may end its wait, when the channels in ready have an output
\* waiting: the first in the list, or any (inOrder FALSE).
AltEnds(cs, ready, inOrder) ==
  {i \in Listed(cs) : /\ cs[i] \in ready
                      /\ inOrder => \A j \in Listed(cs) : j < i => cs[j] \notin ready}
=============================================================================
