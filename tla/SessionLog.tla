----------------------------- MODULE SessionLog -----------------------------
(***************************************************************************)
(* A stored session as its callers see it: requests take effect one at a   *)
(* time, each on the state that all earlier ones left, at some moment      *)
(* between the call and its answer.  The one liberty of the store is to    *)
(* give up on a call, and only while other calls keep getting through.     *)
(***************************************************************************)
EXTENDS SessionRequests

CONSTANTS
  Callers,
  Patience  \* how often a call may be overtaken before it is given up

VARIABLES
  log,  \* the requests that have taken effect, oldest first
  call  \* per caller: nothing, a pending call, or the answer to its last one

Quiet == [phase |-> "quiet"]

Pending(r, since) == [phase |-> "pending", request |-> r, since |-> since]

\* at is the length of the log that the answer is about.
Answered(r, status, at) ==
  [phase |-> "answered", request |-> r, status |-> status, at |-> at]

Init ==
  /\ log = <<>>
  /\ call = [c \in Callers |-> Quiet]

Invoke(c, r) ==
  /\ call[c].phase # "pending"
  /\ call' = [call EXCEPT ![c] = Pending(r, Len(log))]
  /\ UNCHANGED log

\* Also for a caller that has gone: its request may still take effect.
TakeEffect(r) ==
  /\ Decide(log, r) = "save"
  /\ log' = Append(log, r)
  /\ UNCHANGED call

\* An entry answers one call only.
AnswerSaved(c, at) ==
  /\ call[c].phase = "pending"
  /\ call[c].since < at
  /\ log[at] = call[c].request
  /\ \A d \in Callers : call[d] # Answered(call[c].request, "saved", at)
  /\ call' = [call EXCEPT ![c] = Answered(@.request, "saved", at)]
  /\ UNCHANGED log

AnswerUnsaved(c, at) ==
  /\ call[c].phase = "pending"
  /\ call[c].since <= at
  /\ LET status == Decide(SubSeq(log, 1, at), call[c].request)
     IN  /\ status # "save"
         /\ call' = [call EXCEPT ![c] = Answered(@.request, status, at)]
  /\ UNCHANGED log

\* A creation is tried once; it can only lose to another creation.
GiveUp(c, at) ==
  /\ call[c].phase = "pending"
  /\ call[c].request \notin Creates
  /\ at - call[c].since >= Patience
  /\ call' = [call EXCEPT ![c] = Answered(@.request, "conflict", at)]
  /\ UNCHANGED log

Leave(c) ==
  /\ call' = [call EXCEPT ![c] = Quiet]
  /\ UNCHANGED log

Next ==
  \/ \E c \in Callers, r \in Requests : Invoke(c, r)
  \/ \E r \in Requests : TakeEffect(r)
  \/ \E c \in Callers : \/ \E at \in 1 .. Len(log) : AnswerSaved(c, at)
                        \/ \E at \in 0 .. Len(log) : AnswerUnsaved(c, at)
                        \/ \E at \in 0 .. Len(log) : GiveUp(c, at)
                        \/ Leave(c)

Spec == Init /\ [][Next]_<<log, call>>

=============================================================================
