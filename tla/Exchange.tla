------------------------------- MODULE Exchange -------------------------------
(***************************************************************************)
(* What the connection of a client promises: requests and replies, one at  *)
(* a time.  The server carries out the requests of a client in order, none *)
(* twice and none that was not asked.  The client learns of each request   *)
(* one thing: the reply to it, or that it failed, in which case the server *)
(* may have carried it out, may still do so, or may never.                 *)
(*                                                                         *)
(* A reply above the maximum size breaks the pairing: what the client then *)
(* takes for a reply may be the reply to an earlier request.               *)
(***************************************************************************)
EXTENDS Integers, Sequences

CONSTANTS Clients, Failed, Oversize

VARIABLES
  asked,    \* asked[c]: how many requests c has made
  done,     \* done[c]: how many of them the server has carried out
  result    \* result[c]: for each that ended, the request whose reply c got

exVars == <<asked, done, result>>

Waiting(c) == Len(result[c]) < asked[c]
Lost(c) == \E i \in 1..Len(result[c]) : result[c][i] = Oversize

Init ==
  /\ asked = [c \in Clients |-> 0]
  /\ done = [c \in Clients |-> 0]
  /\ result = [c \in Clients |-> <<>>]

Ask(c) ==
  /\ ~Waiting(c)
  /\ asked' = [asked EXCEPT ![c] = @ + 1]
  /\ UNCHANGED <<done, result>>

CarryOut(c) ==
  /\ done[c] < asked[c]
  /\ done' = [done EXCEPT ![c] = @ + 1]
  /\ UNCHANGED <<asked, result>>

Ends(c, r) ==
  /\ Waiting(c)
  /\ result' = [result EXCEPT ![c] = Append(@, r)]
  /\ UNCHANGED <<asked, done>>

Answer(c) == done[c] = asked[c] /\ ~Lost(c) /\ Ends(c, asked[c])
Fail(c) == Ends(c, Failed)
Overflow(c) == done[c] = asked[c] /\ Ends(c, Oversize)
Stray(c) == Lost(c) /\ \E r \in 1..done[c] \cup {Oversize} : Ends(c, r)

Next ==
  \E c \in Clients :
    Ask(c) \/ CarryOut(c) \/ Answer(c) \/ Fail(c) \/ Overflow(c) \/ Stray(c)

Spec == Init /\ [][Next]_exVars
=============================================================================
