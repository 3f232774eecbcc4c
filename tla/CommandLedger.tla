---------------------------- MODULE CommandLedger ----------------------------
(***************************************************************************)
(* What the command engine promises its clients, without lanes, worker,    *)
(* timeouts or restarts: a command id is decided once, its events enter    *)
(* the log in one block when it is accepted, and an answer that reports a  *)
(* decision reports the decision that was made.  One promise is weaker     *)
(* than it could be, as in the code: a command with attachments that was   *)
(* accepted may be answered "previously rejected", to another principal    *)
(* always, and to its own once the attachments are no longer claimed.      *)
(***************************************************************************)
EXTENDS Integers, Sequences

CONSTANTS Calls,      \* calls of dispatch
          Commands,   \* command ids
          Requests,   \* command contents with the principal that sends them
          PrintOf,    \* what tells contents apart
          OwnerOf,    \* the principal of a request
          HolderOf,   \* the principal whose attachments a content names, or None
          MaxEvents,
          None

VARIABLES decision,   \* per command id: None, or the request decided and its outcome
          files,      \* per content: what has become of its attachments
          log,        \* per event: the call that appended it
          asked,      \* per call: the command id and the request, or None
          answer      \* per call: the answer, or None

ledgerVars == <<decision, files, log, asked, answer>>

Uninformative == {"timeout", "internal", "store", "overloaded", "stopped", "lost"}

LedgerInit == /\ decision = [c \in Commands |-> None]
              /\ files = [p \in {PrintOf[r] : r \in Requests} |-> "staged"]
              /\ log = <<>>
              /\ asked = [k \in Calls |-> None]
              /\ answer = [k \in Calls |-> None]

\* A call is submitted; it may be refused at once.
Submit(k, c, r) ==
  /\ asked[k] = None
  /\ asked' = [asked EXCEPT ![k] = [cmd |-> c, req |-> r]]
  /\ \/ answer' = answer
     \/ \E a \in {"overloaded", "stopped"} :
          answer' = [answer EXCEPT ![k] = [kind |-> a, seq |-> 0]]
  /\ UNCHANGED <<decision, files, log>>

Undecided(k) == asked[k] # None /\ decision[asked[k].cmd] = None

\* The sender may use the attachments it names: they are its own, or there are none.
Entitled(r) == HolderOf[PrintOf[r]] \in {None, OwnerOf[r]}

Attaching(r) == HolderOf[PrintOf[r]] # None

Accept(k, n) ==
  /\ Undecided(k)
  /\ Entitled(asked[k].req)
  /\ LET p == PrintOf[asked[k].req]
     IN  IF Attaching(asked[k].req)
           THEN files[p] # "deleting" /\ files' = [files EXCEPT ![p] = "claimed"]
           ELSE files' = files
  /\ log' = log \o [i \in 1 .. n |-> k]
  /\ decision' = [decision EXCEPT ![asked[k].cmd] =
        [status |-> "accepted", print |-> PrintOf[asked[k].req], seq |-> Len(log) + n]]
  /\ UNCHANGED <<asked, answer>>

Reject(k) ==
  /\ Undecided(k)
  /\ \E s \in 0 .. Len(log) :
       decision' = [decision EXCEPT ![asked[k].cmd] =
         [status |-> "rejected", print |-> PrintOf[asked[k].req], seq |-> s]]
  /\ UNCHANGED <<files, log, asked, answer>>

\* Claimed attachments are given up for good.
Release(p) ==
  /\ files[p] = "claimed"
  /\ files' = [files EXCEPT ![p] = "deleting"]
  /\ UNCHANGED <<decision, log, asked, answer>>

\* What an answer may say of the call it is given to.
Truthful(k, a) ==
  LET r == asked[k].req
      d == decision[asked[k].cmd]
      same == d.print = PrintOf[r]
      gone == Attaching(r) /\ (~Entitled(r) \/ files[PrintOf[r]] # "claimed")
  IN  \/ a.kind \in Uninformative
      \/ a.kind = "accepted" /\ d # None /\ same /\ d.status = "accepted" /\ a.seq = d.seq
            /\ Entitled(r)
      \/ a.kind = "collision" /\ d # None /\ ~same
      \/ a.kind = "previouslyRejected" /\ d # None /\ same
            /\ (d.status = "accepted" => gone)
      \/ a.kind = "rejected" /\ (d # None => d.status = "rejected")

Answers == [kind : Uninformative \cup {"accepted", "collision", "previouslyRejected", "rejected"},
            seq : 0 .. Len(log)]

Tell(k) ==
  /\ asked[k] # None
  /\ answer[k] = None
  /\ answer'[k] \in Answers
  /\ Truthful(k, answer'[k])
  /\ answer' = [answer EXCEPT ![k] = answer'[k]]
  /\ UNCHANGED <<decision, files, log, asked>>

\* A restart leaves every open call without an answer of the engine.
Lose ==
  /\ answer' = [k \in Calls |-> IF asked[k] # None /\ answer[k] = None
                                 THEN [kind |-> "lost", seq |-> 0] ELSE answer[k]]
  /\ UNCHANGED <<decision, files, log, asked>>

LedgerNext ==
  \/ \E k \in Calls, c \in Commands, r \in Requests : Submit(k, c, r)
  \/ \E k \in Calls : \/ \E n \in 1 .. MaxEvents : Accept(k, n)
                      \/ Reject(k)
                      \/ Tell(k)
  \/ \E p \in DOMAIN files : Release(p)
  \/ Lose

LedgerSpec == LedgerInit /\ [][LedgerNext]_ledgerVars

=============================================================================
