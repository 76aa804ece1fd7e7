--------------------------------- MODULE Rpc ---------------------------------
(***************************************************************************)
(* What the send_command() of a backend promises to the threads that share *)
(* it, whatever the transport does: an answer belongs to a request that    *)
(* was sent, and no answer is given twice.  A call that raises leaves its  *)
(* request unanswered, and the answer may then be given to another call.   *)
(***************************************************************************)
EXTENDS Integers

CONSTANTS
  Clients,    \* threads that call send_command()
  MaxCalls    \* bound on the number of requests

VARIABLES
  sent,       \* how many requests were sent; they are numbered from 1
  own,        \* the request of the call each client is in, 0 for none
  unanswered, \* requests whose answer may still be given
  answer,     \* the answer the last call of each client returned, 0 if it raised
  clean       \* no call has raised, and no two calls overlapped

vars == <<sent, own, unanswered, answer, clean>>

Init ==
  /\ sent = 0
  /\ own = [c \in Clients |-> 0]
  /\ unanswered = {}
  /\ answer = [c \in Clients |-> 0]
  /\ clean = TRUE

Call(c) ==
  /\ own[c] = 0 /\ sent < MaxCalls
  /\ sent' = sent + 1
  /\ own' = [own EXCEPT ![c] = sent + 1]
  /\ unanswered' = unanswered \cup {sent + 1}
  /\ answer' = [answer EXCEPT ![c] = 0]
  /\ clean' = (clean /\ \A d \in Clients : own[d] = 0)

Answer(c) ==
  /\ own[c] # 0
  /\ \E r \in unanswered :
       /\ answer' = [answer EXCEPT ![c] = r]
       /\ unanswered' = unanswered \ {r}
  /\ own' = [own EXCEPT ![c] = 0]
  /\ UNCHANGED <<sent, clean>>

\* The call raises; answers may be lost with it.
Fail(c) ==
  /\ own[c] # 0
  /\ unanswered' \in SUBSET unanswered
  /\ own' = [own EXCEPT ![c] = 0]
  /\ clean' = FALSE
  /\ UNCHANGED <<sent, answer>>

Next == \E c \in Clients : Call(c) \/ Answer(c) \/ Fail(c)

Spec == Init /\ [][Next]_vars

\* As long as no call raised and no two overlapped, every call gets its own answer.
CleanAnswersOwn ==
  [][\A c \in Clients : clean' /\ answer[c]' # 0 /\ own[c] # 0 /\ own[c]' = 0
       => answer[c]' = own[c]]_vars

\* Why: the only unanswered request is that of the call under way.
CleanInv ==
  clean => /\ unanswered = {own[c] : c \in Clients} \ {0}
           /\ \A c, d \in Clients : own[c] # 0 /\ own[d] # 0 => c = d
=============================================================================
