---------------------------- MODULE SearchService ----------------------------
(***************************************************************************)
(* What the BGE retriever promises to the code that calls it, whatever it  *)
(* does about batching: the calls in the line are served one at a time in  *)
(* the order in which they joined it, each exactly once, and each either   *)
(* with the documents of its own query at its own top_n or with an error.  *)
(* Calls do not join in the order in which they were made: they pass a     *)
(* door at which any of the Width oldest may be the next to join.          *)
(* BatchedRetriever.tla is shown to implement this specification.          *)
(***************************************************************************)
EXTENDS Sequences, ListOps

CONSTANTS Request,      \* the calls that can be made
          Width,        \* how many calls can be passing the door at a time
          Answer(_)     \* the documents a call deserves, a function of what it asks

VARIABLES ask,          \* ask[r]: what call r asks for, fixed when the system starts
          door,         \* the calls made and not yet in the line, oldest first
          line,         \* the calls that joined and are not yet served, in the order they joined
          outcome       \* outcome[r]: what call r has got so far

vars == <<ask, door, line, outcome>>

NotServed   == [kind |-> "none"]
Failed      == [kind |-> "raised"]
Served(docs) == [kind |-> "docs", docs |-> docs]

In(r, calls) == \E i \in DOMAIN calls : calls[i] = r

Init ==
    /\ door = <<>>
    /\ line = <<>>
    /\ outcome = [r \in Request |-> NotServed]

\* A caller comes to the door.
Call(r) ==
    /\ ~In(r, door)
    /\ ~In(r, line)
    /\ outcome[r] = NotServed
    /\ door' = Append(door, r)
    /\ UNCHANGED <<ask, line, outcome>>

\* One of the oldest calls at the door joins the end of the line.
Join(r) ==
    /\ \E i \in DOMAIN door : i <= Width /\ door[i] = r
    /\ door' = Without(door, r)
    /\ line' = Append(line, r)
    /\ UNCHANGED <<ask, outcome>>

\* The first call of the line gets its documents ...
Serve ==
    /\ line # <<>>
    /\ outcome' = [outcome EXCEPT ![Head(line)] = Served(Answer(ask[Head(line)]))]
    /\ line' = Tail(line)
    /\ UNCHANGED <<ask, door>>

\* ... or an error.
Fail ==
    /\ line # <<>>
    /\ outcome' = [outcome EXCEPT ![Head(line)] = Failed]
    /\ line' = Tail(line)
    /\ UNCHANGED <<ask, door>>

Next == (\E r \in Request : Call(r) \/ Join(r)) \/ Serve \/ Fail

\* The safe part of the promise: nothing is said of when a call is served.
SafeSpec == Init /\ [][Next]_vars

\* The whole promise: no call is kept at the door, and a line that is not empty is served.
Spec ==
    /\ SafeSpec
    /\ \A r \in Request : WF_vars(Join(r))
    /\ WF_vars(Serve \/ Fail)
==============================================================================
