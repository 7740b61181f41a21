------------------------ MODULE CryptoPoolRefinement ------------------------
(***************************************************************************)
(* The crypto pool of kvm_crypto.c implements CryptoService.  The list cq  *)
(* is the service's queue: its first cq.num jobs, each named by the vCPU   *)
(* that waits for it.                                                      *)
(***************************************************************************)
EXTENDS CryptoPool

\* The vCPU whose job j is.
Owner(j) == CHOOSE v \in Vcpus : jv[v] = j

\* A request is in the queue from cq.num++ on, being served while a kthread
\* holds its job, and served once nj->status is 1.
PhaseOf(v) ==
  CASE ppc[v] \in {"closed", "guest"} -> "idle"
    [] ppc[v] \in {"alloc", "number", "init", "lock", "count"} -> "asked"
    [] ppc[v] \in {"notify", "wait", "asleep"} ->
         IF job[jv[v]].status = 1 THEN "served"
         ELSE IF \E k \in Serving : nj[k] = jv[v] THEN "serving" ELSE "queued"
    [] ppc[v] = "copy" -> "served"
    [] ppc[v] = "out" -> IF jv[v] = NULL THEN "asked" ELSE "served"

AbsPhase  == [v \in Vcpus |-> PhaseOf(v)]
AbsQueue  == [i \in 1..cq.num |-> Owner(Cell[i - 1])]
AbsAnswer == [v \in Vcpus |-> IF ppc[v] \in {"closed", "guest"}
                                THEN <<rax[v], gout[v]>>
                                ELSE <<KVM_HC_CRYPTO, Stale>>]
AbsResult(v, op) == Crypt(op, Input(v), Zero)

Service == INSTANCE CryptoService WITH
  Servers <- PoolSize,
  Result  <- AbsResult,
  phase   <- AbsPhase,
  request <- req,
  queue   <- AbsQueue,
  answer  <- AbsAnswer

\* crypto_produce_job and crypto_consume_job together behave like the service:
\* first come first served, one answer per request, the caller's own result,
\* and an answer in the end.
ImplementsService == Service!Spec

\* The part of it that says what may happen, without what must.
ServiceSafety == Service!Init /\ [][Service!Next]_(Service!svars)

=============================================================================
