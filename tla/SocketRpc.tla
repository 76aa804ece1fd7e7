------------------------------ MODULE SocketRpc ------------------------------
(***************************************************************************)
(* UnixSocketBackend (ipc/unix_socket_backend.py): commands and answers    *)
(* over one stream socket, used by the caller's thread and, when the       *)
(* liveness strategy is ActivePingStrategy, by the heartbeat thread.       *)
(*                                                                         *)
(* The swarm answers the requests in the order of their arrival, one line  *)
(* each.  The line of request r comes in two pieces, 2r-1 and 2r, the      *)
(* second of which ends with the newline; recv() returns any number of     *)
(* pieces that have arrived.                                               *)
(***************************************************************************)
EXTENDS Integers

CONSTANTS
  Clients,    \* threads that call send_command()
  MaxCalls    \* bound on the number of requests

ASSUME CallsNatural == MaxCalls \in Nat

VARIABLES
  open,       \* self.sock is connected: close() was not called
  sent,       \* requests the swarm was sent
  arrived,    \* pieces of answers the socket has received
  taken,      \* pieces that recv() has returned
  own,        \* the request each client waits for in send_command(), 0 for none
  buffer,     \* response_data of each client, as the set of its pieces
  answer,     \* history: the answer the client's last call returned, 0 if it raised
  clean       \* history: no call has raised, and no two calls overlapped

vars == <<open, sent, arrived, taken, own, buffer, answer, clean>>

Requests == 1..MaxCalls
Pieces   == 1..(2 * MaxCalls)
Newline(b) == \E r \in Requests : 2 * r \in b

TypeOK ==
  /\ open \in BOOLEAN
  /\ sent \in 0..MaxCalls
  /\ arrived \in 0..(2 * sent)
  /\ taken \in 0..arrived
  /\ own \in [Clients -> 0..sent]
  /\ buffer \in [Clients -> SUBSET (1..taken)]
  /\ answer \in [Clients -> 0..sent]
  /\ clean \in BOOLEAN

Init ==
  /\ open = TRUE
  /\ sent = 0 /\ arrived = 0 /\ taken = 0
  /\ own = [c \in Clients |-> 0]
  /\ buffer = [c \in Clients |-> {}]
  /\ answer = [c \in Clients |-> 0]
  /\ clean = TRUE

-----------------------------------------------------------------------------
(* The swarm.                                                              *)

Arrive ==
  /\ arrived < 2 * sent
  /\ arrived' = arrived + 1
  /\ UNCHANGED <<open, sent, taken, own, buffer, answer, clean>>

\* close(), by any thread.  The end of the swarm is that nothing more arrives.
Close ==
  /\ open /\ open' = FALSE
  /\ UNCHANGED <<sent, arrived, taken, own, buffer, answer, clean>>

-----------------------------------------------------------------------------
(* send_command(), by client c.                                            *)

\* sendall() of the request, with a new, empty response_data.  A call on a closed
\* socket raises at once and changes nothing.
Send(c) ==
  /\ open /\ own[c] = 0 /\ sent < MaxCalls
  /\ sent' = sent + 1
  /\ own' = [own EXCEPT ![c] = sent + 1]
  /\ answer' = [answer EXCEPT ![c] = 0]
  /\ clean' = (clean /\ \A d \in Clients : own[d] = 0)
  /\ UNCHANGED <<open, arrived, taken, buffer>>

\* Mutant: data is taken to be there when the swarm has not sent it yet.
RecvBlind(c) ==
  /\ open /\ own[c] # 0 /\ ~Newline(buffer[c])
  /\ \E t \in (taken + 1)..(2 * sent) :
       /\ taken' = t
       /\ buffer' = [buffer EXCEPT ![c] = @ \cup (taken + 1)..t]
  /\ UNCHANGED <<open, sent, arrived, own, answer, clean>>

\* recv() while response_data has no newline.
Recv(c) ==
  /\ open /\ own[c] # 0 /\ ~Newline(buffer[c])
  /\ \E t \in (taken + 1)..arrived :
       /\ taken' = t
       /\ buffer' = [buffer EXCEPT ![c] = @ \cup (taken + 1)..t]
  /\ UNCHANGED <<open, sent, arrived, own, answer, clean>>

\* Mutant: response_data is kept for the next call.
ReturnKeeps(c) ==
  /\ own[c] # 0
  /\ \E r \in Requests :
       /\ buffer[c] = {2 * r - 1, 2 * r}
       /\ answer' = [answer EXCEPT ![c] = r]
  /\ own' = [own EXCEPT ![c] = 0]
  /\ UNCHANGED <<open, sent, arrived, taken, buffer, clean>>

\* response_data is one line: json.loads() returns the answer in it.
Return(c) ==
  /\ own[c] # 0
  /\ \E r \in Requests :
       /\ buffer[c] = {2 * r - 1, 2 * r}
       /\ answer' = [answer EXCEPT ![c] = r]
  /\ own' = [own EXCEPT ![c] = 0]
  /\ buffer' = [buffer EXCEPT ![c] = {}]
  /\ UNCHANGED <<open, sent, arrived, taken, clean>>

\* The call raises: response_data is dropped.
Raise(c) ==
  /\ own' = [own EXCEPT ![c] = 0]
  /\ buffer' = [buffer EXCEPT ![c] = {}]
  /\ clean' = FALSE
  /\ UNCHANGED <<open, sent, arrived, taken, answer>>

\* Half a line, or more than one: json.loads() raises.
Garbled(c) ==
  /\ own[c] # 0 /\ Newline(buffer[c])
  /\ \A r \in Requests : buffer[c] # {2 * r - 1, 2 * r}
  /\ Raise(c)

\* Mutant: a call that times out sends its request once more.
TimeOutResends(c) ==
  /\ own[c] # 0 /\ ~Newline(buffer[c])
  /\ open => taken = arrived
  /\ IF open /\ sent < MaxCalls
     THEN /\ sent' = sent + 1 /\ own' = [own EXCEPT ![c] = sent + 1]
          /\ UNCHANGED <<open, arrived, taken, buffer, answer, clean>>
     ELSE Raise(c)

\* Mutant: the socket has no timeout.
TimeOutNever(c) ==
  /\ own[c] # 0 /\ ~Newline(buffer[c])
  /\ ~open
  /\ Raise(c)

\* Nothing came within the timeout, or the socket was closed.
TimeOut(c) ==
  /\ own[c] # 0 /\ ~Newline(buffer[c])
  /\ open => taken = arrived
  /\ Raise(c)

Next ==
  \/ Arrive \/ Close
  \/ \E c \in Clients : Send(c) \/ Recv(c) \/ Return(c) \/ Garbled(c) \/ TimeOut(c)

Spec == Init /\ [][Next]_vars

\* A thread in send_command() runs on; the socket has a timeout.  The swarm may
\* never answer, and no thread need call.
Respond(c) == Recv(c) \/ Return(c) \/ Garbled(c) \/ TimeOut(c)

FairSpec == Spec /\ \A c \in Clients : WF_vars(Respond(c))

-----------------------------------------------------------------------------
(* Properties.                                                             *)

\* The requests whose newline is still to be read or is in a response_data.
Unanswered ==
  {r \in 1..sent : 2 * r > taken \/ \E c \in Clients : 2 * r \in buffer[c]}

R == INSTANCE Rpc WITH unanswered <- Unanswered

\* The backend keeps the promise of Rpc: whoever calls and whatever times out, an
\* answer that is returned belongs to a request that was sent and is returned once.
ImplementsRpc == R!Spec

\* As long as no call raised and no two overlapped, every call gets its own answer.
CleanAnswersOwn == R!CleanAnswersOwn

\* Every call returns or raises, also when the swarm answers nothing or another
\* thread has taken the answer.
CallsReturn == \A c \in Clients : (own[c] # 0) ~> (own[c] = 0)

\* Why ImplementsRpc: no two response_data have a piece in common.
BuffersApart == \A c, d \in Clients : c # d => buffer[c] \cap buffer[d] = {}
=============================================================================
