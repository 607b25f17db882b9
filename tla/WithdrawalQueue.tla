----------------------------- MODULE WithdrawalQueue -----------------------------
(***************************************************************************)
(* contracts/shared/src/queue.rs: withdrawals wait in a queue kept as two  *)
(* pointers and numbered records, and are filled first come, first served, *)
(* as far as liquidity goes.  No contract uses it yet.                     *)
(***************************************************************************)
EXTENDS Integers

CONSTANTS
  Investor,
  Amounts,       \* amounts asked for, and liquidity offered
  MaxQueueLen,   \* MAX_QUEUE_LEN
  MaxRequests    \* bound on identifiers

VARIABLES
  pointers,      \* QueuePointers: head, tail, next_id
  requests,      \* Request(id); NoRequest where absent
  filled         \* history: what was paid on each identifier

vars == <<pointers, requests, filled>>

Numbers   == 0 .. MaxRequests
NoRequest == [investor |-> "none", amount |-> 0, filledAmount |-> 0]

(* The first identifier is 1, the first place looked at is 0.              *)
Init ==
  /\ pointers = [head |-> 0, tail |-> 0, nextId |-> 1]
  /\ requests = [id \in Numbers |-> NoRequest]
  /\ filled = [id \in Numbers |-> 0]

RequestWithdrawal(i, amount) ==
  /\ amount > 0
  /\ pointers.tail - pointers.head < MaxQueueLen
  /\ pointers.nextId <= MaxRequests
  /\ requests' = [requests EXCEPT ![pointers.nextId] =
                    [investor |-> i, amount |-> amount, filledAmount |-> 0]]
  /\ pointers' = [pointers EXCEPT !.tail = @ + 1, !.nextId = @ + 1]
  /\ UNCHANGED filled

CancelRequest(i, id) ==
  /\ requests[id] # NoRequest /\ requests[id].investor = i
  /\ requests' = [requests EXCEPT ![id] = NoRequest]
  /\ UNCHANGED <<pointers, filled>>

-----------------------------------------------------------------------------
(* One turn of the loop: s is what the loop has so far, id the place at    *)
(* its head.  A payment refused ends the loop; a missing record is passed. *)

Fill(s, id, refused) ==
  LET r    == s.requests[id]
      owed == r.amount - r.filledAmount
      n    == IF owed <= s.left THEN owed ELSE s.left
  IN IF s.over \/ s.left <= 0 THEN s
     ELSE IF r = NoRequest THEN [s EXCEPT !.head = @ + 1]
     ELSE IF n <= 0 \/ r.investor \in refused THEN [s EXCEPT !.over = TRUE]
     ELSE   [s EXCEPT !.left = @ - n, !.paid[id] = @ + n,
                      !.head = IF n = owed THEN @ + 1 ELSE @,
                      !.requests[id] = IF n = owed THEN NoRequest
                                       ELSE [r EXCEPT !.filledAmount = r.filledAmount + n]]

Waiting == pointers.tail - pointers.head

ProcessQueue(liquidity, refused) ==
  LET start == [requests |-> requests, head |-> pointers.head, left |-> liquidity, paid |-> filled, over |-> FALSE]
      served[k \in 0 .. Waiting] ==
        IF k = 0 THEN start ELSE Fill(served[k - 1], pointers.head + k - 1, refused)
      done == served[Waiting]
  IN /\ requests' = done.requests
     /\ pointers' = [pointers EXCEPT !.head = done.head]
     /\ filled' = done.paid

Next ==
  \/ \E i \in Investor, n \in Amounts : RequestWithdrawal(i, n)
  \/ \E i \in Investor, id \in Numbers : CancelRequest(i, id)
  \/ \E n \in Amounts, refused \in SUBSET Investor : ProcessQueue(n, refused)

-----------------------------------------------------------------------------
(* First come, first served, through cancellations, partial fills and      *)
(* refused payments: nobody is paid beyond the request or while an earlier *)
(* one still waits, no waiting request is left behind the head, and at     *)
(* most the youngest lies beyond the places the loop looks at.             *)
ServedInOrder ==
  LET waiting == {id \in Numbers : requests[id] # NoRequest}
  IN /\ \A id \in waiting :
          /\ filled[id] = requests[id].filledAmount /\ filled[id] < requests[id].amount
          /\ pointers.head <= id /\ id <= pointers.tail
          /\ \A later \in id + 1 .. MaxRequests : filled[later] = 0
     /\ pointers.head <= pointers.tail
=============================================================================
