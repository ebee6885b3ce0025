--------------------------- MODULE BrokerDispatch ---------------------------
(***************************************************************************)
(* The broker dispatcher (v3/broker/dispatcher.py) driving one permitted   *)
(* entry over the durable raw inbox (raw_inbox.py): claim the send right,  *)
(* submit every claimed line under its immutable client id, append each    *)
(* authenticated answer, report BROKER_ACK or SUBMISSION_AMBIGUOUS; after  *)
(* a crash or an ambiguous report, resend the lines without a receipt.     *)
(*                                                                         *)
(* A pass of a worker is volatile: a crash at any point loses it, with the *)
(* envelope it may hold.  The seal's status and the inbox are durable.     *)
(* The broker is external: it answers as fake.py scripts it, and may also  *)
(* accept an order whose answer is lost.                                   *)
(***************************************************************************)
EXTENDS Naturals, FiniteSets

CONSTANTS
  Workers,     \* dispatcher processes
  NLines,      \* claimed lines of the permit, in the order they are sent
  Prior,       \* inbox rows of earlier entries (0 or 1)
  MaxCrash,    \* bound on crashes
  MaxUnauth    \* bound on answers that fail authentication

ASSUME DispatchAssumption ==
  /\ IsFiniteSet(Workers)
  /\ NLines \in Nat \ {0} /\ Prior \in 0..1
  /\ MaxCrash \in Nat /\ MaxUnauth \in Nat

VARIABLES
  status,      \* decision_seals.status of the entry
  inbox,       \* raw_inbox_revisions of this entry, source broker-submit
  last,        \* MAX(source_sequence) of the inbox, 0 when it is empty
  brokerSeq,   \* the broker's sequence number on that source
  accepted,    \* lines whose order the broker has accepted
  pass,        \* each worker's pass over the lines
  crashes, unauth

vars == <<status, inbox, last, brokerSeq, accepted, pass, crashes, unauth>>

Lines == 1..NLines
Kinds == {"order_ack", "order_reject"}
Receipt == [line: Lines, kind: Kinds, seq: Nat]
NoEnvelope == [line |-> 0, kind |-> "none", seq |-> 0]

(* Sequence numbers saturate here.  Before a number is skipped the last    *)
(* one issued is at most the rows appended plus the faults, so a number    *)
(* that has saturated always follows a skipped one.                        *)
MaxSeq == Prior + NLines * Cardinality(Workers) + MaxCrash + MaxUnauth + 2
NextSeq == IF brokerSeq < MaxSeq THEN brokerSeq + 1 ELSE MaxSeq

InFlight == {"SEND_CLAIMED", "SUBMISSION_AMBIGUOUS", "BROKER_ACK"}
Reported == {"SUBMISSION_AMBIGUOUS", "BROKER_ACK"}
Idle == [pc |-> "idle", todo |-> {}, held |-> NoEnvelope]
Sending(todo) == [pc |-> "sending", todo |-> todo, held |-> NoEnvelope]

TypeOK ==
  /\ status \in {"OUTBOX_DURABLE"} \cup InFlight
  /\ inbox \subseteq Receipt
  /\ last \in 0..MaxSeq /\ brokerSeq \in 0..MaxSeq
  /\ accepted \subseteq Lines
  /\ pass \in [Workers -> [pc: {"idle", "sending", "appending"},
                           todo: SUBSET Lines,
                           held: Receipt \cup {NoEnvelope}]]
  /\ crashes \in 0..MaxCrash /\ unauth \in 0..MaxUnauth

Init ==
  /\ status = "OUTBOX_DURABLE"
  /\ inbox = {} /\ last = Prior /\ brokerSeq = Prior
  /\ accepted = {}
  /\ pass = [w \in Workers |-> Idle]
  /\ crashes = 0 /\ unauth = 0

-----------------------------------------------------------------------------
(* _acked_client_ids: an ack and a reject both finish a line.              *)
Terminal == {r.line : r \in inbox}
Rejected == {r.line : r \in {x \in inbox : x.kind = "order_reject"}}

(* run_once: claim_send linearizes the send right before any submission.   *)
RunOnce(w) ==
  /\ pass[w] = Idle
  /\ status = "OUTBOX_DURABLE"
  /\ status' = "SEND_CLAIMED"
  /\ pass' = [pass EXCEPT ![w] = Sending(Lines)]
  /\ UNCHANGED <<inbox, last, brokerSeq, accepted, crashes, unauth>>

ResendFrom == {"SUBMISSION_AMBIGUOUS", "SEND_CLAIMED"}

ToResend_All == Lines
ToResend == Lines \ Terminal

(* resend: a call whose cutoff or idempotency guard refuses does nothing,  *)
(* and once one refuses it may refuse for good.                            *)
Resend(w) ==
  /\ pass[w] = Idle
  /\ status \in ResendFrom
  /\ pass' = [pass EXCEPT ![w] = Sending(ToResend)]
  /\ UNCHANGED <<status, inbox, last, brokerSeq, accepted, crashes, unauth>>

Sends(w, l) ==
  /\ pass[w].pc = "sending"
  /\ l \in pass[w].todo /\ \A m \in pass[w].todo : l <= m

(* submit raises BrokerTimeoutError: nothing arrived, or only the answer   *)
(* was lost.                                                               *)
Timeout(w, l, arrived) ==
  /\ Sends(w, l)
  /\ accepted' = IF arrived THEN accepted \cup {l} ELSE accepted
  /\ pass' = [pass EXCEPT ![w] = Sending(pass[w].todo \ {l})]
  /\ UNCHANGED <<status, inbox, last, brokerSeq, crashes, unauth>>

(* An unauthenticated answer counts as a timeout, but the broker has       *)
(* numbered it and nothing is appended under that number.                  *)
Unauthenticated(w, l) ==
  /\ Sends(w, l)
  /\ unauth < MaxUnauth
  /\ unauth' = unauth + 1
  /\ brokerSeq' = NextSeq
  /\ pass' = [pass EXCEPT ![w] = Sending(pass[w].todo \ {l})]
  /\ UNCHANGED <<status, inbox, last, accepted, crashes>>

Answer(w, l, kind) ==
  /\ Sends(w, l)
  /\ brokerSeq' = NextSeq
  /\ accepted' = IF kind = "order_ack" THEN accepted \cup {l} ELSE accepted
  /\ pass' = [pass EXCEPT
       ![w] = [pc |-> "appending", todo |-> pass[w].todo \ {l},
               held |-> [line |-> l, kind |-> kind, seq |-> NextSeq]]]
  /\ UNCHANGED <<status, inbox, last, crashes, unauth>>

(* BrokerRawInbox.append: the first row may have any number, every later   *)
(* one must be the successor of the last.                                  *)
Follows_AnyLater(seq) == last < seq
Follows(seq) == last = 0 \/ seq = last + 1

Append(w) ==
  LET r == pass[w].held IN
  /\ pass[w].pc = "appending"
  /\ IF Follows(r.seq)
     THEN /\ inbox' = inbox \cup {r}
          /\ last' = r.seq
          /\ pass' = [pass EXCEPT ![w] = Sending(pass[w].todo)]
     ELSE \* SEQUENCE_CONFLICT propagates out of the pass
          /\ pass' = [pass EXCEPT ![w] = Idle]
          /\ UNCHANGED <<inbox, last>>
  /\ UNCHANGED <<status, brokerSeq, accepted, crashes, unauth>>

(* _delivery_for; the receipts of this pass are already in the inbox.      *)
Delivery_LineStatus ==
  IF Lines \subseteq Terminal /\ Rejected = {} THEN "acked" ELSE "timeout"
Delivery_AnyReceipt ==
  IF Lines \subseteq Terminal THEN "BROKER_ACK" ELSE "SUBMISSION_AMBIGUOUS"
Delivery ==
  IF Lines \subseteq Terminal /\ Rejected = {}
  THEN "BROKER_ACK" ELSE "SUBMISSION_AMBIGUOUS"

(* record_delivery_outcome raises once the entry is acknowledged.          *)
Report(w) ==
  /\ pass[w].pc = "sending" /\ pass[w].todo = {}
  /\ status' = IF status \in {"SEND_CLAIMED", "SUBMISSION_AMBIGUOUS"}
               THEN Delivery ELSE status
  /\ pass' = [pass EXCEPT ![w] = Idle]
  /\ UNCHANGED <<inbox, last, brokerSeq, accepted, crashes, unauth>>

Crash(w) ==
  /\ pass[w] # Idle
  /\ crashes < MaxCrash
  /\ crashes' = crashes + 1
  /\ pass' = [pass EXCEPT ![w] = Idle]
  /\ UNCHANGED <<status, inbox, last, brokerSeq, accepted, unauth>>

Submit(w) ==
  \E l \in Lines :
    \/ \E arrived \in BOOLEAN : Timeout(w, l, arrived)
    \/ Unauthenticated(w, l)
    \/ \E kind \in Kinds : Answer(w, l, kind)

Progress(w) == Submit(w) \/ Append(w) \/ Report(w)

Next == \E w \in Workers : RunOnce(w) \/ Resend(w) \/ Progress(w) \/ Crash(w)

Spec == Init /\ [][Next]_vars

-----------------------------------------------------------------------------
(* BROKER_ACK means that the broker accepted every line, that each has a   *)
(* durable acceptance, and that none was ever refused, across crashes and  *)
(* resends (_delivery_for, test_resend_after_reject_never_promotes_to_ack).*)
AckIsBacked ==
  status = "BROKER_ACK" =>
    /\ Lines \subseteq accepted
    /\ \A l \in Lines : \E r \in inbox : r.line = l /\ r.kind = "order_ack"
    /\ Rejected = {}

(* This step hands line l to the broker.                                   *)
Submitted(w, l) ==
  Sends(w, l) /\ l \notin pass'[w].todo /\ pass'[w].pc # "idle"

(* A line with a durable receipt is never submitted again (resend).        *)
TerminalNeverResent ==
  [][\A w \in Workers, l \in Lines :
       Submitted(w, l) => l \notin Terminal]_vars

(* The broker has used a number that is not on file and that no process is *)
(* about to file next: it went with a crash or an unauthenticated answer.  *)
Gap ==
  /\ 0 < last /\ last < brokerSeq
  /\ \A w \in Workers :
       pass[w].pc = "appending" => pass[w].held.seq # last + 1

(* A gap is never skipped and never made good: whatever is resent and      *)
(* answered after it, nothing is filed any more (raw_inbox.append, gap     *)
(* check), so the entry cannot become BROKER_ACK on receipts that follow   *)
(* a lost one.                                                             *)
GapIsForGood == [][Gap => Gap' /\ UNCHANGED <<inbox, last>>]_vars

=============================================================================
