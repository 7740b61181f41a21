---------------------------- MODULE CryptoService ----------------------------
(***************************************************************************)
(* What the crypto hypercall promises the guests, without threads, locks,  *)
(* memory or wait queues: requests are served first come, first served, by *)
(* at most Servers servers at a time; every request is answered once, with *)
(* the result of the operation asked for on the caller's own input or with *)
(* a failure; and a failed request leaves the caller's buffer as it was.   *)
(***************************************************************************)
EXTENDS Integers, Sequences, FiniteSets

CONSTANTS
  Vcpus,
  Servers,            \* number of servers
  Requests,           \* operations that may be asked for
  Stale,              \* an output buffer nobody has written
  Result(_, _)        \* Result(v, op): operation op on the input of v

VARIABLES
  phase,      \* how far each vCPU's request is
  request,    \* the operation asked for; meaningless when idle
  queue,      \* vCPUs whose requests wait, oldest first
  answer      \* <<return value, output buffer>>, or Pending

svars == <<phase, request, queue, answer>>

Pending == <<15, Stale>>
Denied  == -1
Failed  == 1
Success == 0

Init ==
  /\ phase = [v \in Vcpus |-> "idle"]
  /\ request = [v \in Vcpus |-> "unknown"]
  /\ queue = <<>>
  /\ answer = [v \in Vcpus |-> Pending]

Ask(v, op) ==
  /\ phase[v] = "idle"
  /\ phase' = [phase EXCEPT ![v] = "asked"]
  /\ request' = [request EXCEPT ![v] = op]
  /\ answer' = [answer EXCEPT ![v] = Pending]
  /\ UNCHANGED queue

\* Not allowed to ask: the buffer keeps what an earlier request left there.
Deny(v) ==
  /\ phase[v] = "idle"
  /\ answer' = [answer EXCEPT ![v][1] = Denied]
  /\ UNCHANGED <<phase, request, queue>>

Refuse(v) ==
  /\ phase[v] = "asked"
  /\ phase' = [phase EXCEPT ![v] = "idle"]
  /\ answer' = [answer EXCEPT ![v] = <<Failed, Stale>>]
  /\ UNCHANGED <<request, queue>>

Enqueue(v) ==
  /\ phase[v] = "asked"
  /\ phase' = [phase EXCEPT ![v] = "queued"]
  /\ queue' = Append(queue, v)
  /\ UNCHANGED <<request, answer>>

Serve(v) ==
  /\ queue # <<>>
  /\ v = Head(queue)
  /\ Cardinality({w \in Vcpus : phase[w] = "serving"}) < Servers
  /\ phase' = [phase EXCEPT ![v] = "serving"]
  /\ queue' = Tail(queue)
  /\ UNCHANGED <<request, answer>>

Complete(v) ==
  /\ phase[v] = "serving"
  /\ phase' = [phase EXCEPT ![v] = "served"]
  /\ UNCHANGED <<request, queue, answer>>

Reply(v) ==
  /\ phase[v] = "served"
  /\ phase' = [phase EXCEPT ![v] = "idle"]
  /\ \E a \in {<<Success, Result(v, request[v])>>, <<Failed, Stale>>} :
       answer' = [answer EXCEPT ![v] = a]
  /\ UNCHANGED <<request, queue>>

Progress(v) ==
  Refuse(v) \/ Enqueue(v) \/ Serve(v) \/ Complete(v) \/ Reply(v)

Next ==
  \E v \in Vcpus :
    \/ \E op \in Requests : Ask(v, op)
    \/ Deny(v)
    \/ Progress(v)

\* Every request makes progress: the promise that it is answered at all.
Spec == Init /\ [][Next]_svars /\ \A v \in Vcpus : WF_svars(Progress(v))

=============================================================================
