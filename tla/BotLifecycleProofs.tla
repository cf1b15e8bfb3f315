-------------------------- MODULE BotLifecycleProofs --------------------------
(***************************************************************************)
(* Theorems about BotLifecycle.                                            *)
(***************************************************************************)
EXTENDS BotLifecycle, TLAPS

USE DEF billing

Guards == {"row", "entitled", "flat"}
Labels == {"idle"} \cup InFlight \cup Ended

-----------------------------------------------------------------------------
(***************************************************************************)
(* The invariant: what a request has established, by where it stands.      *)
(***************************************************************************)
Checked(r) == Owns(r) /\ Preconditions(call[r].op) \subseteq seen[r]

\* Only activateBot and deleteBot have a second check; the row they have read
\* counts if it allows what they are for.
AtRead(r) ==
    pc[r] = "read" =>
        /\ call[r].op \in {"activate", "delete"}
        /\ Owns(r)
        /\ Listed(row[r])
        /\ RowAllows(call[r].op, row[r]) => "row" \in seen[r]

AtChecked(r) ==
    pc[r] = "checked" =>
        call[r].op \in {"activate", "pause", "delete"} /\ Checked(r) /\ Listed(row[r])

AtWritten(r) ==
    pc[r] = "written" => call[r].op \in {"create", "activate"} /\ Checked(r)

WhenOk(r) ==
    answer[r] = "ok" =>
        /\ Checked(r)
        /\ call[r].op \in {"create", "activate"} => ScanFor(r) \in scans

\* A request that has not ended has neither answered nor queued a scan.
Pending(r) ==
    pc[r] \notin Ended => answer[r] = "none" /\ ScanFor(r) \notin scans

WhenRefused(r) == answer[r] \notin {"ok", "none", "error"} => ScanFor(r) \notin scans

OwnCreation(r) == call[r].op = "create" => Owns(r)

RequestOK(r) ==
    /\ AtRead(r) /\ AtChecked(r) /\ AtWritten(r)
    /\ WhenOk(r) /\ Pending(r) /\ WhenRefused(r) /\ OwnCreation(r)

IInv == TypeOK /\ ScansJustified /\ \A r \in Requests : RequestOK(r)

-----------------------------------------------------------------------------
LEMMA InitIInv == Init => IInv
<1> SUFFICES ASSUME Init PROVE IInv
  OBVIOUS
<1>1. TypeOK
  BY DEF Init, TypeOK, Statuses, Answers
<1>2. ScansJustified
  BY DEF Init, ScansJustified
<1>3. ASSUME NEW r \in Requests PROVE RequestOK(r)
  <2>1. pc[r] = "idle" /\ answer[r] = "none" /\ scans = {}
    BY DEF Init
  <2>2. OwnCreation(r)
    BY DEF Init, OwnCreation, Owns
  <2> QED BY <2>1, <2>2 DEF RequestOK, AtRead, AtChecked, AtWritten, WhenOk, Pending,
             WhenRefused, Ended
<1> QED BY <1>1, <1>2, <1>3 DEF IInv

\* The history only grows, and has what holds after a step of a call under way.
LEMMA ObserveFacts ==
    ASSUME TypeOK, Observe, NEW r \in Requests
    PROVE  /\ seen[r] \subseteq seen'[r]
           /\ pc'[r] # "idle" /\ pc[r] \notin Ended =>
                 HoldsNow(r)' \cap Preconditions(call[r].op) \subseteq seen'[r]
BY DEF Observe, TypeOK

LEMMA SeenType ==
    ASSUME TypeOK, Observe
    PROVE  seen' \in [Requests -> SUBSET Guards]
<1>1. \A r \in Requests : HoldsNow(r)' \subseteq Guards
  BY DEF HoldsNow, Guards
<1> QED BY <1>1 DEF Observe, TypeOK, Guards

LEMMA LateType == ObserveLapses => late' \subseteq Bots
BY DEF ObserveLapses

\* A step that is not of the request r.
LEMMA OtherStep ==
    ASSUME TypeOK, Observe, NEW r \in Requests, RequestOK(r), call' = call,
           pc'[r] = pc[r], answer'[r] = answer[r], row'[r] = row[r],
           scans \subseteq scans', ScanFor(r) \in scans' => ScanFor(r) \in scans
    PROVE  RequestOK(r)'
<1>1. seen[r] \subseteq seen'[r]
  BY ObserveFacts
<1>2. Owns(r)' <=> Owns(r)
  BY DEF Owns
<1>3. ScanFor(r)' = ScanFor(r)
  BY DEF ScanFor
<1>4. Checked(r) => Checked(r)'
  BY <1>1, <1>2 DEF Checked
<1>5. AtRead(r)' /\ AtChecked(r)' /\ AtWritten(r)'
  BY <1>1, <1>2, <1>4 DEF RequestOK, AtRead, AtChecked, AtWritten
<1>6. WhenOk(r)' /\ Pending(r)' /\ WhenRefused(r)' /\ OwnCreation(r)'
  BY <1>2, <1>3, <1>4 DEF RequestOK, WhenOk, Pending, WhenRefused, OwnCreation
<1> QED BY <1>5, <1>6 DEF RequestOK

\* Scans that are kept stay justified.
LEMMA SameScans ==
    ASSUME IInv, Observe, ObserveLapses, call' = call, scans' = scans
    PROVE  ScansJustified'
<1> SUFFICES ASSUME NEW s \in scans
             PROVE  /\ s.user = Owner[s.bot]
                    /\ call[s.request].op \in {"create", "activate"}
                    /\ Preconditions(call[s.request].op) \subseteq seen'[s.request]
  BY DEF ScansJustified
<1>1. s.request \in Requests
  BY DEF IInv, TypeOK, Scans
<1>2. seen[s.request] \subseteq seen'[s.request]
  BY <1>1, ObserveFacts DEF IInv
<1> QED BY <1>2 DEF IInv, ScansJustified

\* A step of the tables alone.
LEMMA TablesStep ==
    ASSUME IInv, Observe, ObserveLapses, UNCHANGED requests, scans' = scans,
           status' \in [Bots -> Statuses], flat' \subseteq Bots, subscribed' \subseteq Users,
           entitled' \subseteq subscribed', stood' \subseteq Bots,
           lapsing' \subseteq subscribed', held' \subseteq Bots
    PROVE  IInv'
<1>1. pc' = pc /\ call' = call /\ answer' = answer /\ row' = row
  BY DEF requests
<1>2. TypeOK'
  BY <1>1, SeenType, LateType DEF IInv, TypeOK, Guards
<1>3. ScansJustified'
  BY <1>1, SameScans
<1>4. ASSUME NEW r \in Requests PROVE RequestOK(r)'
  BY <1>1, OtherStep DEF IInv
<1> QED BY <1>2, <1>3, <1>4 DEF IInv

\* A step of one request.
LEMMA RequestStep ==
    ASSUME IInv, Observe, ObserveLapses, NEW r \in Requests,
           NEW label \in Labels, pc' = [pc EXCEPT ![r] = label],
           NEW value \in Answers, answer' = [answer EXCEPT ![r] = value],
           call' = call,
           NEW s \in Statuses, row' = [row EXCEPT ![r] = s],
           status' \in [Bots -> Statuses], UNCHANGED <<flat, billing, stood>>,
           scans' = scans,
           RequestOK(r)'
    PROVE  IInv'
<1>1. TypeOK'
  BY SeenType, LateType DEF IInv, TypeOK, Guards, Labels
<1>2. ScansJustified'
  BY SameScans
<1>3. ASSUME NEW q \in Requests, q # r PROVE RequestOK(q)'
  <2>1. pc'[q] = pc[q] /\ answer'[q] = answer[q] /\ row'[q] = row[q]
    BY <1>3 DEF IInv, TypeOK
  <2> QED BY <2>1, OtherStep DEF IInv
<1> QED BY <1>1, <1>2, <1>3 DEF IInv

\* A request that has not ended is answered, but not with "ok".
LEMMA RefusalStep ==
    ASSUME IInv, Observe, ObserveLapses, NEW r \in Requests, pc[r] \notin Ended,
           NEW value \in Answers \ {"ok"}, Reply(r, value),
           call' = call, NEW s \in Statuses, row' = [row EXCEPT ![r] = s],
           status' \in [Bots -> Statuses], UNCHANGED <<flat, billing, stood>>, scans' = scans
    PROVE  IInv'
<1>1. pc' = [pc EXCEPT ![r] = "done"] /\ answer' = [answer EXCEPT ![r] = value]
  BY DEF Reply
<1>2. pc'[r] = "done" /\ answer'[r] = value /\ "done" \in Labels
  BY <1>1 DEF IInv, TypeOK, Labels, Ended
<1>3. ScanFor(r) \notin scans /\ OwnCreation(r)
  BY DEF IInv, RequestOK, Pending
<1>4. ScanFor(r)' \notin scans' /\ OwnCreation(r)'
  BY <1>3 DEF ScanFor, OwnCreation, Owns
<1>5. RequestOK(r)'
  BY <1>2, <1>4 DEF RequestOK, AtRead, AtChecked, AtWritten, WhenOk, Pending, WhenRefused,
     Ended
<1> QED BY <1>1, <1>2, <1>5, RequestStep

\* A request that has not ended goes on without an answer.
LEMMA GotoStep ==
    ASSUME IInv, Observe, ObserveLapses, NEW r \in Requests, pc[r] \notin Ended,
           NEW label \in Labels, Goto(r, label),
           call' = call, NEW s \in Statuses, row' = [row EXCEPT ![r] = s],
           status' \in [Bots -> Statuses], UNCHANGED <<flat, billing, stood>>, scans' = scans,
           AtRead(r)', AtChecked(r)', AtWritten(r)'
    PROVE  IInv'
<1>1. pc' = [pc EXCEPT ![r] = label] /\ answer' = answer
  BY DEF Goto
<1>2. answer[r] = "none" /\ ScanFor(r) \notin scans /\ OwnCreation(r)
  BY DEF IInv, RequestOK, Pending
<1>3. answer' = [answer EXCEPT ![r] = "none"] /\ "none" \in Answers /\ answer'[r] = "none"
  BY <1>1, <1>2 DEF IInv, TypeOK, Answers
<1>4. ScanFor(r)' \notin scans' /\ OwnCreation(r)'
  BY <1>2 DEF ScanFor, OwnCreation, Owns
<1>5. RequestOK(r)'
  BY <1>3, <1>4 DEF RequestOK, WhenOk, Pending, WhenRefused
<1> QED BY <1>1, <1>3, <1>5, RequestStep

\* What does not write the row or the tables.
LEMMA QuietFacts ==
    ASSUME IInv, NEW r \in Requests
    PROVE  /\ row = [row EXCEPT ![r] = row[r]] /\ row[r] \in Statuses
           /\ status \in [Bots -> Statuses] /\ call[r] \in Calls /\ call[r].bot \in Bots
           /\ call[r].op \in Ops
BY DEF IInv, TypeOK, Calls

LEMMA Answered == {"error", "not_found", "forbidden", "stood_down", "open_position"} \subseteq Answers \ {"ok"}
BY DEF Answers

LEMMA Labelled == {"admitted", "read", "checked", "written", "done", "dead"} \subseteq Labels
BY DEF Labels, InFlight, Ended

-----------------------------------------------------------------------------
(***************************************************************************)
(* The steps of a request.                                                 *)
(***************************************************************************)
LEMMA ReceiveStep ==
    ASSUME IInv, Observe, ObserveLapses, NEW r \in Requests, Receive(r)
    PROVE  IInv'
<1>1. pc[r] = "idle" /\ UNCHANGED tables /\ call' = call /\ row' = row /\ pc[r] \notin Ended
  BY DEF Receive, Ended
<1>2. /\ status' = status /\ scans' = scans /\ UNCHANGED <<flat, billing, stood>>
  BY <1>1 DEF tables
<1>3. CASE Reply(r, "error")
  BY <1>1, <1>2, <1>3, RefusalStep, QuietFacts, Answered
<1>4. CASE Goto(r, "admitted")
  <2>1. pc'[r] = "admitted"
    BY <1>4 DEF Goto, IInv, TypeOK
  <2>2. AtRead(r)' /\ AtChecked(r)' /\ AtWritten(r)'
    BY <2>1 DEF AtRead, AtChecked, AtWritten
  <2> QED BY <1>1, <1>2, <1>4, <2>2, GotoStep, QuietFacts, Labelled
<1> QED BY <1>3, <1>4 DEF Receive

LEMMA DbFailsStep ==
    ASSUME IInv, Observe, ObserveLapses, NEW r \in Requests, DbFails(r)
    PROVE  IInv'
<1>1. /\ pc[r] \notin Ended /\ Reply(r, "error") /\ call' = call /\ row' = row
      /\ status' = status /\ scans' = scans /\ UNCHANGED <<flat, billing, stood>>
  BY DEF DbFails, Ended, tables
<1> QED BY <1>1, RefusalStep, QuietFacts, Answered

LEMMA CrashStep ==
    ASSUME IInv, Observe, ObserveLapses, NEW r \in Requests, Crash(r)
    PROVE  IInv'
<1>1. /\ pc[r] \notin Ended /\ Goto(r, "dead") /\ call' = call /\ row' = row
      /\ status' = status /\ scans' = scans /\ UNCHANGED <<flat, billing, stood>>
  BY DEF Crash, InFlight, Ended, tables
<1>2. pc'[r] = "dead"
  BY <1>1 DEF Goto, IInv, TypeOK
<1>3. AtRead(r)' /\ AtChecked(r)' /\ AtWritten(r)'
  BY <1>2 DEF AtRead, AtChecked, AtWritten
<1> QED BY <1>1, <1>3, GotoStep, QuietFacts, Labelled

\* Observe sees what held when the row was read, or a check passed.
LEMMA ReadBotStep ==
    ASSUME IInv, Observe, ObserveLapses, NEW r \in Requests, ReadBot(r)
    PROVE  IInv'
<1> DEFINE s == status[call[r].bot]
           label == IF call[r].op = "pause" THEN "checked" ELSE "read"
<1>1. /\ pc[r] = "admitted" /\ pc[r] \notin Ended /\ call[r].op # "create" /\ call' = call
      /\ status' = status /\ scans' = scans /\ UNCHANGED <<flat, billing, stood>>
  BY DEF ReadBot, Ended, tables
<1>2. s \in Statuses /\ label \in Labels
  BY QuietFacts, Labelled
<1>3. CASE row' = row /\ (Reply(r, "not_found") \/ Reply(r, "forbidden"))
  BY <1>1, <1>3, RefusalStep, QuietFacts, Answered
<1>4. CASE Listed(s) /\ Owns(r) /\ Goto(r, label) /\ row' = [row EXCEPT ![r] = s]
  <2>1. pc'[r] = label /\ row'[r] = s /\ Owns(r)' /\ pc'[r] # "idle"
    BY <1>1, <1>4 DEF Goto, IInv, TypeOK, Owns
  <2>2. RowAllows(call[r].op, s) => "row" \in HoldsNow(r)'
    BY <1>1 DEF HoldsNow
  <2>3. call[r].op \in {"activate", "pause", "delete"}
    BY <1>1, QuietFacts DEF Ops
  <2>4. "row" \in Preconditions(call[r].op)
    BY <2>3 DEF Preconditions
  <2>5. RowAllows(call[r].op, s) => "row" \in seen'[r]
    BY <1>1, <2>1, <2>2, <2>4, ObserveFacts DEF IInv
  <2>6. AtRead(r)'
    BY <1>1, <1>4, <2>1, <2>3, <2>5 DEF AtRead
  <2>7. AtChecked(r)'
    <3> SUFFICES ASSUME call[r].op = "pause" PROVE AtChecked(r)'
      BY <2>1 DEF AtChecked
    <3>1. RowAllows("pause", s) /\ Preconditions("pause") = {"row"}
      BY <1>4 DEF RowAllows, Preconditions
    <3>2. Preconditions(call[r].op) \subseteq seen'[r]
      BY <3>1, <2>5
    <3> QED BY <1>1, <1>4, <2>1, <3>2 DEF AtChecked, Checked
  <2>8. AtWritten(r)'
    BY <2>1 DEF AtWritten
  <2> HIDE DEF s, label
  <2> QED BY <1>1, <1>2, <1>4, <2>6, <2>7, <2>8, GotoStep, QuietFacts
<1> QED BY <1>3, <1>4 DEF ReadBot

\* The second check of activateBot or deleteBot passes.
LEMMA CheckStep ==
    ASSUME IInv, Observe, ObserveLapses, NEW r \in Requests, pc[r] = "read", Goto(r, "checked"),
           call' = call, row' = row, status' = status, scans' = scans,
           UNCHANGED <<flat, billing, stood>>,
           Preconditions(call[r].op) \subseteq seen[r] \cup HoldsNow(r)'
    PROVE  IInv'
<1>1. pc'[r] = "checked" /\ pc[r] \notin Ended
  BY DEF Goto, IInv, TypeOK, Ended
<1>2. /\ call[r].op \in {"activate", "delete"} /\ Owns(r) /\ Listed(row[r])
  BY DEF IInv, RequestOK, AtRead
<1>3. Preconditions(call[r].op) \subseteq seen'[r]
  BY <1>1, ObserveFacts DEF IInv
<1>4. AtChecked(r)'
  BY <1>2, <1>3 DEF AtChecked, Checked, Owns
<1>5. AtRead(r)' /\ AtWritten(r)'
  BY <1>1 DEF AtRead, AtWritten
<1> QED BY <1>1, <1>4, <1>5, GotoStep, QuietFacts, Labelled

LEMMA CheckActivationStep ==
    ASSUME IInv, Observe, ObserveLapses, NEW r \in Requests, CheckActivation(r)
    PROVE  IInv'
<1>1. /\ pc[r] = "read" /\ pc[r] \notin Ended /\ call[r].op = "activate"
      /\ call' = call /\ row' = row
      /\ status' = status /\ scans' = scans /\ UNCHANGED <<flat, billing, stood>>
  BY DEF CheckActivation, Ended, tables
<1>2. CASE Reply(r, "forbidden") \/ Reply(r, "stood_down")
  BY <1>1, <1>2, RefusalStep, QuietFacts, Answered
<1>3. CASE call[r].user \in entitled /\ row[r] # "STOOD_DOWN" /\ Goto(r, "checked")
  <2>1. Listed(row[r]) /\ (RowAllows("activate", row[r]) => "row" \in seen[r])
    BY <1>1 DEF IInv, RequestOK, AtRead
  <2>2. "row" \in seen[r]
    BY <2>1, <1>3 DEF RowAllows
  <2>3. "entitled" \in HoldsNow(r)'
    BY <1>1, <1>3 DEF HoldsNow
  <2>4. Preconditions("activate") = {"row", "entitled"}
    BY DEF Preconditions
  <2> QED BY <1>1, <1>3, <2>2, <2>3, <2>4, CheckStep
<1> QED BY <1>2, <1>3 DEF CheckActivation

LEMMA CheckDeletionStep ==
    ASSUME IInv, Observe, ObserveLapses, NEW r \in Requests, CheckDeletion(r)
    PROVE  IInv'
<1>1. /\ pc[r] = "read" /\ pc[r] \notin Ended /\ call[r].op = "delete"
      /\ call' = call /\ row' = row
      /\ status' = status /\ scans' = scans /\ UNCHANGED <<flat, billing, stood>>
  BY DEF CheckDeletion, Ended, tables
<1>2. CASE Reply(r, "open_position")
  BY <1>1, <1>2, RefusalStep, QuietFacts, Answered
<1>3. CASE call[r].bot \in flat /\ Goto(r, "checked")
  <2>1. Listed(row[r]) /\ (RowAllows("delete", row[r]) => "row" \in seen[r])
    BY <1>1 DEF IInv, RequestOK, AtRead
  <2>2. "row" \in seen[r]
    BY <2>1 DEF RowAllows
  <2>3. "flat" \in HoldsNow(r)'
    BY <1>1, <1>3 DEF HoldsNow
  <2>4. Preconditions("delete") = {"row", "flat"}
    BY DEF Preconditions
  <2> QED BY <1>1, <1>3, <2>2, <2>3, <2>4, CheckStep
<1> QED BY <1>2, <1>3 DEF CheckDeletion

LEMMA WriteStatusStep ==
    ASSUME IInv, Observe, ObserveLapses, NEW r \in Requests, WriteStatus(r)
    PROVE  IInv'
<1>1. /\ pc[r] = "checked" /\ pc[r] \notin Ended /\ call' = call /\ row' = row
      /\ status' = [status EXCEPT ![call[r].bot] = Target(call[r].op)]
      /\ scans' = scans /\ UNCHANGED <<flat, billing, stood>>
  BY DEF WriteStatus, SetStatus, Ended
<1>2. status' \in [Bots -> Statuses]
  BY <1>1 DEF Target, Statuses, IInv, TypeOK
<1>3. /\ call[r].op \in {"activate", "pause", "delete"} /\ Checked(r)
      /\ answer[r] = "none" /\ ScanFor(r) \notin scans
  BY <1>1 DEF IInv, RequestOK, AtChecked, Pending
<1>4. Checked(r)'
  BY <1>1, <1>3, ObserveFacts DEF Checked, Owns, IInv
<1>5. CASE Reply(r, "error")
  BY <1>1, <1>2, <1>5, RefusalStep, QuietFacts, Answered
<1>6. CASE call[r].op = "activate" /\ Goto(r, "written")
  <2>1. pc'[r] = "written"
    BY <1>6 DEF Goto, IInv, TypeOK
  <2>2. AtRead(r)' /\ AtChecked(r)' /\ AtWritten(r)'
    BY <1>1, <1>4, <1>6, <2>1 DEF AtRead, AtChecked, AtWritten
  <2> QED BY <1>1, <1>2, <1>6, <2>2, GotoStep, QuietFacts, Labelled
<1>7. CASE call[r].op # "activate" /\ Reply(r, "ok")
  <2>1. /\ pc' = [pc EXCEPT ![r] = "done"] /\ answer' = [answer EXCEPT ![r] = "ok"]
        /\ pc'[r] = "done" /\ answer'[r] = "ok" /\ "ok" \in Answers
    BY <1>7 DEF Reply, IInv, TypeOK, Answers
  <2>2. call'[r].op \notin {"create", "activate"}
    BY <1>1, <1>3, <1>7
  <2>3. RequestOK(r)'
    BY <1>4, <2>1, <2>2 DEF RequestOK, AtRead, AtChecked, AtWritten, WhenOk, Pending,
       WhenRefused, OwnCreation, Ended
  <2> QED BY <1>1, <1>2, <2>1, <2>3, RequestStep, QuietFacts, Labelled
<1> QED BY <1>5, <1>6, <1>7 DEF WriteStatus

LEMMA CreateBotStep ==
    ASSUME IInv, Observe, ObserveLapses, NEW r \in Requests, CreateBot(r)
    PROVE  IInv'
<1>1. /\ pc[r] = "admitted" /\ pc[r] \notin Ended /\ call[r].op = "create" /\ call' = call
      /\ row' = row /\ scans' = scans /\ UNCHANGED <<flat, billing, stood>>
  BY DEF CreateBot, Ended
<1>2. status' \in [Bots -> Statuses]
  BY DEF CreateBot, SetStatus, Statuses, IInv, TypeOK
<1>3. CASE Reply(r, "error")
  BY <1>1, <1>2, <1>3, RefusalStep, QuietFacts, Answered
<1>4. CASE Goto(r, "written")
  <2>1. pc'[r] = "written"
    BY <1>4 DEF Goto, IInv, TypeOK
  <2>2. Owns(r)' /\ Preconditions(call[r].op) = {}
    BY <1>1 DEF IInv, RequestOK, OwnCreation, Owns, Preconditions
  <2>3. AtRead(r)' /\ AtChecked(r)' /\ AtWritten(r)'
    BY <1>1, <2>1, <2>2 DEF AtRead, AtChecked, AtWritten, Checked
  <2> QED BY <1>1, <1>2, <1>4, <2>3, GotoStep, QuietFacts, Labelled
<1> QED BY <1>3, <1>4 DEF CreateBot

LEMMA DispatchScanStep ==
    ASSUME IInv, Observe, ObserveLapses, NEW r \in Requests, DispatchScan(r)
    PROVE  IInv'
<1>1. /\ pc[r] = "written" /\ call' = call /\ row' = row /\ status' = status
      /\ UNCHANGED <<flat, billing, stood>>
      /\ scans' \in {scans, scans \cup {ScanFor(r)}}
      /\ \/ Reply(r, "ok") /\ ScanFor(r) \in scans'
         \/ Reply(r, "error")
  BY DEF DispatchScan
<1>2. PICK value \in {"ok", "error"} :
         /\ pc' = [pc EXCEPT ![r] = "done"] /\ answer' = [answer EXCEPT ![r] = value]
         /\ value = "ok" => ScanFor(r) \in scans'
  BY <1>1 DEF Reply
<1>3. call[r].op \in {"create", "activate"} /\ Checked(r)
  BY <1>1 DEF IInv, RequestOK, AtWritten
<1>4. /\ ScanFor(r) \in Scans /\ ScanFor(r).request = r
      /\ ScanFor(r).user = Owner[ScanFor(r).bot]
  BY <1>3 DEF ScanFor, Scans, Checked, Owns, IInv, TypeOK, Calls
<1>5. Checked(r)'
  BY <1>1, <1>3, ObserveFacts DEF Checked, Owns, IInv
<1>6. TypeOK'
  <2>1. scans' \subseteq Scans
    BY <1>1, <1>4 DEF IInv, TypeOK
  <2>2. pc' \in [Requests -> {"idle"} \cup InFlight \cup Ended] /\ answer' \in [Requests -> Answers]
    BY <1>2 DEF IInv, TypeOK, Ended, Answers
  <2> QED BY <1>1, <2>1, <2>2, SeenType, LateType DEF IInv, TypeOK, Guards
<1>7. ScansJustified'
  <2> SUFFICES ASSUME NEW s \in scans'
               PROVE  /\ s.user = Owner[s.bot]
                      /\ call[s.request].op \in {"create", "activate"}
                      /\ Preconditions(call[s.request].op) \subseteq seen'[s.request]
    BY <1>1 DEF ScansJustified
  <2>1. CASE s = ScanFor(r)
    BY <1>1, <1>3, <1>4, <1>5, <2>1 DEF Checked
  <2>2. CASE s \in scans
    <3>1. s.request \in Requests
      BY <2>2 DEF IInv, TypeOK, Scans
    <3>2. seen[s.request] \subseteq seen'[s.request]
      BY <3>1, ObserveFacts DEF IInv
    <3> QED BY <2>2, <3>2 DEF IInv, ScansJustified
  <2> QED BY <1>1, <2>1, <2>2
<1>8. ASSUME NEW q \in Requests PROVE RequestOK(q)'
  <2>1. CASE q = r
    <3>1. pc'[r] = "done" /\ answer'[r] = value
      BY <1>2 DEF IInv, TypeOK
    <3>2. ScanFor(r)' = ScanFor(r) /\ Owns(r)' /\ call'[r] = call[r]
      BY <1>1, <1>5 DEF ScanFor, Checked
    <3>3. RequestOK(r)'
      BY <1>2, <1>5, <3>1, <3>2 DEF RequestOK, AtRead, AtChecked, AtWritten, WhenOk, Pending,
         WhenRefused, OwnCreation, Ended
    <3> QED BY <2>1, <3>3
  <2>2. CASE q # r
    <3>1. pc'[q] = pc[q] /\ answer'[q] = answer[q] /\ row'[q] = row[q]
      BY <1>1, <1>2, <2>2 DEF IInv, TypeOK
    <3>2. ScanFor(q) # ScanFor(r)
      BY <2>2 DEF ScanFor
    <3> QED BY <1>1, <3>1, <3>2, OtherStep DEF IInv
  <2> QED BY <2>1, <2>2
<1> QED BY <1>6, <1>7, <1>8 DEF IInv

-----------------------------------------------------------------------------
(***************************************************************************)
(* The mutations, and the others.                                          *)
(***************************************************************************)
LEMMA MutationStep ==
    ASSUME IInv, Observe, ObserveLapses, NEW r \in Requests, Mutation(r)
    PROVE  IInv'
<1>1. \/ Receive(r) \/ ReadBot(r) \/ CheckActivation(r) \/ CheckDeletion(r)
      \/ WriteStatus(r) \/ CreateBot(r) \/ DispatchScan(r)
  BY DEF Mutation, ActivateBot, PauseBot, DeleteBot, Create
<1> QED BY <1>1, ReceiveStep, ReadBotStep, CheckActivationStep, CheckDeletionStep,
           WriteStatusStep, CreateBotStep, DispatchScanStep

\* A worker or a trade changes what is known of a bot.
LEMMA BotStep ==
    ASSUME IInv, Observe, ObserveLapses, NEW b \in Bots,
           StandDown(b) \/ NextTradingDay(b) \/ OpenPosition(b) \/ ClosePosition(b)
    PROVE  IInv'
<1>1. status' \in [Bots -> Statuses]
  BY DEF IInv, TypeOK, Statuses, StandDown, NextTradingDay, OpenPosition, ClosePosition, SetStatus
<1>2. UNCHANGED requests /\ scans' = scans
  BY DEF StandDown, NextTradingDay, OpenPosition, ClosePosition
<1>3. /\ flat' \subseteq Bots /\ subscribed' \subseteq Users
      /\ entitled' \subseteq subscribed' /\ stood' \subseteq Bots
      /\ lapsing' \subseteq subscribed' /\ held' \subseteq Bots
  BY DEF IInv, TypeOK, StandDown, NextTradingDay, OpenPosition, ClosePosition
<1> QED BY <1>1, <1>2, <1>3, TablesStep

LEMMA UserStep ==
    ASSUME IInv, Observe, ObserveLapses, NEW u \in Users, Subscribe(u) \/ PauseBots(u) \/ Lapse(u) \/ LapseFails(u)
    PROVE  IInv'
<1>1. status' \in [Bots -> Statuses]
  BY DEF IInv, TypeOK, Statuses, Subscribe, PauseBots, Lapse, LapseFails
<1>2. UNCHANGED requests /\ scans' = scans
  BY DEF Subscribe, PauseBots, Lapse, LapseFails, EndLapse
<1>3. /\ flat' \subseteq Bots /\ subscribed' \subseteq Users
      /\ entitled' \subseteq subscribed' /\ stood' \subseteq Bots
      /\ lapsing' \subseteq subscribed' /\ held' \subseteq Bots
  <2>1. CASE Subscribe(u)
    BY <2>1 DEF IInv, TypeOK, Subscribe
  <2>2. CASE PauseBots(u)
    BY <2>2 DEF IInv, TypeOK, PauseBots, BotsOf
  <2>3. CASE Lapse(u) \/ LapseFails(u)
    <3>1. EndLapse(u) /\ entitled' \subseteq entitled \cap subscribed
      BY <2>3 DEF Lapse, LapseFails, IInv, TypeOK
    <3> QED BY <3>1 DEF IInv, TypeOK, EndLapse, BotsOf
  <2> QED BY <2>1, <2>2, <2>3
<1> QED BY <1>1, <1>2, <1>3, TablesStep

LEMMA NextIInv == IInv /\ [Next]_vars => IInv'
<1> SUFFICES ASSUME IInv, [Next]_vars PROVE IInv'
  OBVIOUS
<1>1. CASE UNCHANGED vars
  <2>1. /\ status' = status /\ flat' = flat /\ scans' = scans
        /\ subscribed' = subscribed /\ entitled' = entitled
        /\ lapsing' = lapsing /\ held' = held /\ late' = late
        /\ pc' = pc /\ call' = call /\ answer' = answer /\ row' = row
        /\ seen' = seen /\ stood' = stood
    BY <1>1 DEF vars
  <2>2. TypeOK' /\ ScansJustified'
    BY <2>1 DEF IInv, TypeOK, ScansJustified
  <2>3. ASSUME NEW r \in Requests PROVE RequestOK(r)'
    <3>1. RequestOK(r)
      BY DEF IInv
    <3> QED BY <2>1, <3>1 DEF RequestOK, AtRead, AtChecked, AtWritten, WhenOk, Pending,
               WhenRefused, OwnCreation, Checked, Owns, ScanFor
  <2> QED BY <2>2, <2>3 DEF IInv
<1>2. CASE Next
  <2>1. Observe /\ ObserveLapses
    BY <1>2 DEF Next
  <2>2. ASSUME NEW r \in Requests, Mutation(r) \/ DbFails(r) \/ Crash(r) PROVE IInv'
    BY <2>1, <2>2, MutationStep, DbFailsStep, CrashStep
  <2>3. ASSUME NEW b \in Bots,
               StandDown(b) \/ NextTradingDay(b) \/ OpenPosition(b) \/ ClosePosition(b)
        PROVE  IInv'
    BY <2>1, <2>3, BotStep
  <2>4. ASSUME NEW u \in Users, Subscribe(u) \/ PauseBots(u) \/ Lapse(u) \/ LapseFails(u) PROVE IInv'
    BY <2>1, <2>4, UserStep
  <2> QED BY <1>2, <2>2, <2>3, <2>4 DEF Next, Step
<1> QED BY <1>1, <1>2

\* The invariant that the others follow from.
THEOREM LifecycleInvariant == Spec => []IInv
BY InitIInv, NextIInv, PTL DEF Spec

-----------------------------------------------------------------------------
(***************************************************************************)
(* What an open lapse knows of the bots: the ones it has locked are still  *)
(* ACTIVE, and the other ACTIVE ones became so under its eyes.             *)
(***************************************************************************)
Running(b) == status[b] = "ACTIVE" /\ Owner[b] \in lapsing

LapsesKnown ==
    /\ \A b \in Bots : Running(b) <=> b \in held \/ b \in late
    /\ held \cap late = {}

\* A step that opens and ends no lapse, and moves no bot that one has locked.
LEMMA BotsMove ==
    ASSUME IInv, LapsesKnown, ObserveLapses, UNCHANGED <<lapsing, held>>,
           \A b \in held : status'[b] = status[b]
    PROVE  LapsesKnown'
BY DEF IInv, TypeOK, LapsesKnown, Running, ObserveLapses

LEMMA LookKnows ==
    ASSUME IInv, LapsesKnown, ObserveLapses, NEW u \in Users, PauseBots(u)
    PROVE  LapsesKnown'
<1>1. \A b \in Bots : /\ status'[b] = status[b]
                      /\ b \in late' <=> b \in late
  BY DEF PauseBots, ObserveLapses, LapsesKnown, Running, IInv, TypeOK
<1>2. \A b \in Bots : Owner[b] = u => b \notin late /\ b \notin held
  BY DEF PauseBots, LapsesKnown, Running
<1>3. \A b \in Bots : b \in held' <=> b \in held \/ (Owner[b] = u /\ status[b] = "ACTIVE")
  BY DEF PauseBots, BotsOf
<1>4. lapsing' = lapsing \cup {u} /\ held' \subseteq Bots /\ late \subseteq Bots
  BY DEF PauseBots, BotsOf, IInv, TypeOK
<1> QED BY <1>1, <1>2, <1>3, <1>4, LateType DEF LapsesKnown, Running

LEMMA EndKnows ==
    ASSUME IInv, LapsesKnown, ObserveLapses, NEW u \in Users, Lapse(u) \/ LapseFails(u)
    PROVE  LapsesKnown'
<1>1. \A b \in Bots : Owner[b] # u => status'[b] = status[b]
  BY DEF Lapse, LapseFails, BotsOf, IInv, TypeOK
<1>2. /\ lapsing' = lapsing \ {u}
      /\ \A b \in Bots : b \in held' <=> b \in held /\ Owner[b] # u
      /\ held' \subseteq Bots
  BY DEF Lapse, LapseFails, EndLapse, BotsOf, IInv, TypeOK
<1>3. \A b \in Bots : b \in late' <=> b \in late /\ Owner[b] # u
  BY <1>1, <1>2 DEF ObserveLapses, LapsesKnown, Running
<1> QED BY <1>1, <1>2, <1>3, LateType DEF LapsesKnown, Running

LEMMA LapsesStep ==
    ASSUME IInv, LapsesKnown, [Next]_vars
    PROVE  LapsesKnown'
<1>1. CASE UNCHANGED vars
  BY <1>1 DEF vars, LapsesKnown, Running
<1>2. ASSUME ObserveLapses, NEW r \in Requests, Mutation(r) \/ DbFails(r) \/ Crash(r)
      PROVE  LapsesKnown'
  <2>1. UNCHANGED <<lapsing, held>>
    BY <1>2 DEF Mutation, ActivateBot, PauseBot, DeleteBot, Create, Receive, ReadBot,
       CheckActivation, CheckDeletion, WriteStatus, CreateBot, DispatchScan, DbFails, Crash, tables
  <2>2. CASE WriteStatus(r)
    BY <1>2, <2>1, <2>2, BotsMove DEF WriteStatus, SetStatus, IInv, TypeOK
  <2>3. CASE CreateBot(r)
    <3>1. \A b \in held : status[b] = "ACTIVE" /\ b \in Bots
      BY DEF LapsesKnown, Running, IInv, TypeOK
    <3>2. \A b \in held : status'[b] = status[b]
      BY <2>3, <3>1 DEF CreateBot, SetStatus, IInv, TypeOK
    <3> QED BY <1>2, <2>1, <3>2, BotsMove
  <2>4. CASE ~(WriteStatus(r) \/ CreateBot(r))
    <3>1. status' = status
      BY <1>2, <2>4 DEF Mutation, ActivateBot, PauseBot, DeleteBot, Create, Receive, ReadBot,
         CheckActivation, CheckDeletion, DispatchScan, DbFails, Crash, tables
    <3> QED BY <1>2, <2>1, <3>1, BotsMove
  <2> QED BY <2>2, <2>3, <2>4
<1>3. ASSUME ObserveLapses, NEW b \in Bots,
             StandDown(b) \/ NextTradingDay(b) \/ OpenPosition(b) \/ ClosePosition(b)
      PROVE  LapsesKnown'
  <2>1. UNCHANGED <<lapsing, held>> /\ \A c \in held : status'[c] = status[c]
    BY <1>3 DEF StandDown, NextTradingDay, OpenPosition, ClosePosition, SetStatus, IInv, TypeOK
  <2> QED BY <1>3, <2>1, BotsMove
<1>4. ASSUME ObserveLapses, NEW u \in Users,
             Subscribe(u) \/ PauseBots(u) \/ Lapse(u) \/ LapseFails(u)
      PROVE  LapsesKnown'
  <2>1. CASE Subscribe(u)
    BY <1>4, <2>1, BotsMove DEF Subscribe
  <2> QED BY <1>4, <2>1, LookKnows, EndKnows
<1> QED BY <1>1, <1>2, <1>3, <1>4 DEF Next, Step

\* While a lapse is between its UPDATEs and its COMMIT, the user's ACTIVE bots are
\* those that it has locked and will pause, and those that became ACTIVE since.
THEOREM LapsesAlwaysKnown == Spec => []LapsesKnown
<1>1. Init => LapsesKnown
  BY DEF Init, LapsesKnown, Running
<1> QED BY <1>1, LapsesStep, LifecycleInvariant, PTL DEF Spec

-----------------------------------------------------------------------------
\* Every variable keeps its type: the status of a bot is one of the enum's,
\* whoever writes it.
THEOREM LifecycleTypes == Spec => []TypeOK
<1>1. IInv => TypeOK
  BY DEF IInv
<1> QED BY <1>1, LifecycleInvariant, PTL

\* Ownership, the status that activateBot, pauseBot and deleteBot need, the
\* subscription and the absence of open positions each held at some instant of
\* a call that writes or succeeds, for any number of calls, workers and lapses.
THEOREM ChecksHold == Spec => []ChecksHeldDuringCall
<1>1. IInv => ChecksHeldDuringCall
  BY DEF IInv, RequestOK, AtChecked, AtWritten, WhenOk, Checked, ChecksHeldDuringCall
<1> QED BY <1>1, LifecycleInvariant, PTL

\* Every queued scan is that of a call that was entitled to it.
THEOREM ScansAlwaysJustified == Spec => []ScansJustified
<1>1. IInv => ScansJustified
  BY DEF IInv
<1> QED BY <1>1, LifecycleInvariant, PTL

\* createBot and activateBot answer "ok" only with their scan queued, and refuse
\* only without one.
THEOREM AnswersAlwaysTruthful == Spec => []AnswersTruthful
<1>1. IInv => AnswersTruthful
  BY DEF IInv, RequestOK, WhenOk, WhenRefused, AnswersTruthful
<1> QED BY <1>1, LifecycleInvariant, PTL

\* What makes an ARCHIVED bot another one.
LEMMA RevivalStep ==
    ASSUME IInv, LapsesKnown, [Next]_vars, NEW b \in Bots, status[b] = "ARCHIVED", status'[b] # "ARCHIVED"
    PROVE  \E r \in Requests : pc[r] = "checked" /\ call[r].bot = b /\ Listed(row[r])
<1>1. status' # status /\ Next
  BY DEF vars
<1>2. ASSUME NEW r \in Requests, Mutation(r)
      PROVE  pc[r] = "checked" /\ call[r].bot = b /\ Listed(row[r])
  <2>1. WriteStatus(r) \/ CreateBot(r)
    BY <1>1, <1>2 DEF Mutation, ActivateBot, PauseBot, DeleteBot, Create, Receive, ReadBot,
       CheckActivation, CheckDeletion, DispatchScan, tables
  <2>2. ~ CreateBot(r)
    BY <1>1 DEF CreateBot, SetStatus, IInv, TypeOK
  <2>3. pc[r] = "checked" /\ call[r].bot = b
    BY <2>1, <2>2 DEF WriteStatus, SetStatus, IInv, TypeOK
  <2> QED BY <2>3 DEF IInv, RequestOK, AtChecked
<1>3. ASSUME NEW r \in Requests, DbFails(r) \/ Crash(r) PROVE FALSE
  BY <1>1, <1>3 DEF DbFails, Crash, tables
<1>4. ASSUME NEW c \in Bots,
             StandDown(c) \/ NextTradingDay(c) \/ OpenPosition(c) \/ ClosePosition(c)
      PROVE  FALSE
  BY <1>1, <1>4 DEF StandDown, NextTradingDay, OpenPosition, ClosePosition, SetStatus, IInv, TypeOK
<1>5. ASSUME NEW u \in Users, Subscribe(u) \/ PauseBots(u) \/ Lapse(u) \/ LapseFails(u)
      PROVE  FALSE
  <2>1. status' = status \/ Lapse(u)
    BY <1>5 DEF Subscribe, PauseBots, LapseFails
  <2>2. b \notin held
    BY DEF LapsesKnown, Running
  <2>3. Lapse(u) => status'[b] = status[b]
    BY <2>2 DEF Lapse, IInv, TypeOK
  <2> QED BY <2>1, <2>3
<1> QED BY <1>1, <1>2, <1>3, <1>4, <1>5 DEF Next, Step

\* A deleted bot is brought back by a call that read it before it was deleted, and
\* by nothing else.
THEOREM OnlyStaleCallsRevive == Spec => RevivedOnlyByStaleCall
<1>1. IInv /\ LapsesKnown /\ [Next]_vars =>
        [\A b \in Bots :
          status[b] = "ARCHIVED" /\ status'[b] # "ARCHIVED" =>
              \E r \in Requests :
                  /\ pc[r] = "checked" /\ call[r].bot = b
                  /\ Listed(row[r])]_vars
  BY RevivalStep
<1> QED BY <1>1, LifecycleInvariant, LapsesAlwaysKnown, PTL DEF Spec, RevivedOnlyByStaleCall

\* What makes a bot run without a subscription.
LEMMA UnpaidStep ==
    ASSUME IInv, LapsesKnown, [Next]_vars, NEW b \in Unpaid' \ Unpaid
    PROVE  \/ b \in stood
           \/ b \in late
           \/ \E r \in Requests :
                 /\ call[r].bot = b
                 /\ \/ call[r].op = "create" /\ pc[r] = "admitted"
                    \/ call[r].op = "activate" /\ pc[r] = "checked" /\ "entitled" \in seen[r]
<1>0. /\ b \in Bots /\ status'[b] = "ACTIVE" /\ Owner[b] \notin entitled'
      /\ status[b] # "ACTIVE" \/ Owner[b] \in entitled
  BY DEF Unpaid
<1>1. Next
  BY <1>0 DEF vars
<1>2. ASSUME NEW r \in Requests, Mutation(r)
      PROVE  /\ call[r].bot = b
             /\ \/ call[r].op = "create" /\ pc[r] = "admitted"
                \/ call[r].op = "activate" /\ pc[r] = "checked" /\ "entitled" \in seen[r]
  <2>1. entitled' = entitled /\ status[b] # "ACTIVE"
    BY <1>0, <1>2 DEF Mutation, ActivateBot, PauseBot, DeleteBot, Create, Receive, ReadBot,
       CheckActivation, CheckDeletion, WriteStatus, CreateBot, DispatchScan, tables
  <2>2. WriteStatus(r) \/ CreateBot(r)
    BY <1>0, <1>2, <2>1 DEF Mutation, ActivateBot, PauseBot, DeleteBot, Create, Receive, ReadBot,
       CheckActivation, CheckDeletion, DispatchScan, tables
  <2>3. CASE WriteStatus(r)
    <3>1. pc[r] = "checked" /\ call[r].bot = b /\ Target(call[r].op) = "ACTIVE"
      BY <1>0, <2>1, <2>3 DEF WriteStatus, SetStatus, IInv, TypeOK
    <3>2. call[r].op \in {"activate", "pause", "delete"} /\ Checked(r)
      BY <3>1 DEF IInv, RequestOK, AtChecked
    <3>3. call[r].op = "activate"
      BY <3>1, <3>2 DEF Target
    <3> QED BY <3>1, <3>2, <3>3 DEF Checked, Preconditions
  <2>4. CASE CreateBot(r)
    BY <1>0, <2>1, <2>4 DEF CreateBot, SetStatus, IInv, TypeOK
  <2> QED BY <2>2, <2>3, <2>4
<1>3. ASSUME NEW r \in Requests, DbFails(r) \/ Crash(r) PROVE FALSE
  BY <1>0, <1>3 DEF DbFails, Crash, tables
<1>4. ASSUME NEW c \in Bots,
             StandDown(c) \/ NextTradingDay(c) \/ OpenPosition(c) \/ ClosePosition(c)
      PROVE  b \in stood
  BY <1>0, <1>4 DEF StandDown, NextTradingDay, OpenPosition, ClosePosition, SetStatus, IInv, TypeOK
<1>5. ASSUME NEW u \in Users, Subscribe(u) \/ PauseBots(u) \/ Lapse(u) \/ LapseFails(u)
      PROVE  b \in late
  <2>1. Lapse(u)
    BY <1>0, <1>5 DEF Subscribe, PauseBots, LapseFails, IInv, TypeOK
  <2>2. status[b] = "ACTIVE" /\ b \notin held \cap BotsOf(u) /\ Owner[b] \in entitled
    BY <1>0, <2>1 DEF Lapse, BotsOf, IInv, TypeOK
  <2>3. Owner[b] = u /\ u \in lapsing
    BY <1>0, <2>1, <2>2 DEF Lapse, EndLapse
  <2> QED BY <1>0, <2>2, <2>3 DEF LapsesKnown, Running, BotsOf
<1> QED BY <1>1, <1>2, <1>3, <1>4, <1>5 DEF Next, Step

\* Whatever billing, the workers and any number of calls do, a bot runs without a
\* subscription only by one of the four late writes.
THEOREM UnpaidOnlyLate == Spec => UnpaidOnlyByLateWrite
<1>1. IInv /\ LapsesKnown /\ [Next]_vars =>
        [\A b \in Unpaid' \ Unpaid :
          \/ b \in stood
          \/ b \in late
          \/ \E r \in Requests :
                /\ call[r].bot = b
                /\ \/ call[r].op = "create" /\ pc[r] = "admitted"
                   \/ call[r].op = "activate" /\ pc[r] = "checked" /\ "entitled" \in seen[r]]_vars
  BY UnpaidStep
<1> QED BY <1>1, LifecycleInvariant, LapsesAlwaysKnown, PTL DEF Spec, UnpaidOnlyByLateWrite

-----------------------------------------------------------------------------
(***************************************************************************)
(* The bots' side of Entitlement.                                          *)
(***************************************************************************)
Stands == [u \in Users |-> Standing(u)]
Late   == {Owner[b] : b \in late}

LEMMA TradesIf == \A u : u \in Trading <=> \E b \in Bots : status[b] = "ACTIVE" /\ Owner[b] = u
BY DEF Trading

LEMMA TradesNextIf ==
    \A u : u \in Trading' <=> \E b \in Bots : status'[b] = "ACTIVE" /\ Owner[b] = u
BY DEF Trading

\* A step that writes no subscription, and the status of one bot at most, starts or
\* stops the bots of its owner.
LEMMA OneBotWritten ==
    ASSUME IInv, LapsesKnown, ObserveLapses, UNCHANGED <<subscribed, entitled, lapsing, held>>,
           NEW b \in Bots, \A c \in Bots \ {b} : status'[c] = status[c],
           b \in held => status'[b] = status[b]
    PROVE  Ent!Next
<1> DEFINE u == Owner[b]
<1>1. Stands' = Stands /\ u \in Users
  BY OwnerAssumption DEF Stands, Standing
<1>2. /\ \A c \in Bots \ {b} : c \in late' <=> c \in late
      /\ late \subseteq Bots /\ late' \subseteq Bots
  BY LateType DEF ObserveLapses, LapsesKnown, Running, IInv, TypeOK
<1>3. CASE status'[b] = "ACTIVE" /\ status[b] # "ACTIVE"
  <2>1. Trading' = Trading \cup {u}
    BY <1>3, TradesIf, TradesNextIf
  <2>2. b \in late' <=> u \in lapsing
    BY <1>3 DEF ObserveLapses
  <2>3. b \notin late
    BY <1>3 DEF LapsesKnown, Running
  <2>4. Late' = IF u \in lapsing THEN Late \cup {u} ELSE Late
    BY <1>2, <2>2, <2>3 DEF Late
  <2>5. Ent!Start(u)
    BY <1>1, <2>1, <2>4 DEF Ent!Start, Stands, Late
  <2> QED BY <1>1, <2>5 DEF Ent!Next, Ent!RunBots
<1>4. CASE ~(status'[b] = "ACTIVE" /\ status[b] # "ACTIVE")
  <2>1. /\ \A v : v # u => (v \in Trading <=> v \in Trading')
        /\ Trading' \subseteq Trading
    BY <1>4, TradesIf, TradesNextIf
  <2>2. Trading' \in {Trading, Trading \ {u}}
    BY <2>1
  <2>3. late' \subseteq late
    BY <1>2, <1>4 DEF ObserveLapses
  <2>4. Late' \in {Late, Late \ {u}}
    BY <1>2, <2>3 DEF Late
  <2>5. Late' \subseteq Trading'
    BY <1>2, TradesNextIf DEF Late, ObserveLapses
  <2>6. Ent!Stop(u)
    BY <1>1, <2>2, <2>4, <2>5 DEF Ent!Stop, Stands, Late
  <2> QED BY <1>1, <2>6 DEF Ent!Next, Ent!RunBots
<1> QED BY <1>3, <1>4

\* A step that leaves the bots alone leaves the late ones late.
LEMMA StillLate ==
    ASSUME LapsesKnown, ObserveLapses, UNCHANGED status, lapsing \subseteq lapsing',
           late \subseteq Bots
    PROVE  late' = late /\ Late' = Late /\ Trading' = Trading
<1>1. late' = late
  BY DEF ObserveLapses, LapsesKnown, Running
<1> QED BY <1>1 DEF Late, Trading

LEMMA NothingWritten ==
    ASSUME UNCHANGED <<status, subscribed, entitled, lapsing, late>>
    PROVE  UNCHANGED Ent!vars
BY DEF Ent!vars, Standing, Trading

LEMMA SubscribeIsGrant ==
    ASSUME IInv, LapsesKnown, ObserveLapses, NEW u \in Users, Subscribe(u)
    PROVE  Ent!Next
<1>1. Trading' = Trading /\ Late' = Late
  BY StillLate DEF Subscribe, IInv, TypeOK
<1>2. /\ Standing(u)' = "entitled"
      /\ \A v \in Users \ {u} : Standing(v)' = Standing(v)
  BY DEF Subscribe, Standing
<1>3. Stands' = [Stands EXCEPT ![u] = "entitled"]
  BY <1>2 DEF Stands
<1>4. Ent!Grant(u)
  BY <1>1, <1>3 DEF Ent!Grant, Stands, Late, Subscribe
<1> QED BY <1>4 DEF Ent!Next, Ent!Bill

LEMMA PauseIsLook ==
    ASSUME IInv, LapsesKnown, ObserveLapses, NEW u \in Users, PauseBots(u)
    PROVE  Ent!Next
<1>1. Trading' = Trading /\ Late' = Late
  BY StillLate DEF PauseBots, IInv, TypeOK
<1>2. Stands' = Stands /\ Stands[u] # "none"
  BY DEF PauseBots, Stands, Standing
<1>3. Ent!Look(u)
  BY <1>1, <1>2 DEF Ent!Look, Stands, Late, PauseBots
<1> QED BY <1>3 DEF Ent!Next, Ent!Bill

\* The end of a lapse makes none of its user's bots late.
LEMMA EndIsClose ==
    ASSUME IInv, LapsesKnown, ObserveLapses, NEW u \in Users, Lapse(u) \/ LapseFails(u)
    PROVE  /\ \A b \in Bots : b \in late' <=> b \in late /\ Owner[b] # u
           /\ late \subseteq Bots /\ late' \subseteq Bots
           /\ Ent!Close(u)
<1>1. \A b \in Bots : Owner[b] # u => status'[b] = status[b]
  BY DEF Lapse, LapseFails, BotsOf, IInv, TypeOK
<1>2. u \in lapsing /\ lapsing' = lapsing \ {u}
  BY DEF Lapse, LapseFails, EndLapse
<1>3. \A b \in Bots : b \in late' <=> b \in late /\ Owner[b] # u
  BY <1>1, <1>2 DEF ObserveLapses, LapsesKnown, Running
<1>4. late \subseteq Bots /\ late' \subseteq Bots
  BY LateType DEF IInv, TypeOK
<1>5. Late' = Late \ {u}
  BY <1>3, <1>4 DEF Late
<1> QED BY <1>2, <1>3, <1>4, <1>5 DEF Ent!Close, Late

\* The bots that are paused are those of the user that the lapse has locked; what
\* goes on is late.
LEMMA LapseIsLapse ==
    ASSUME IInv, LapsesKnown, ObserveLapses, NEW u \in Users, Lapse(u)
    PROVE  Ent!Next
<1>1. u \in lapsing /\ u \in subscribed
  BY DEF Lapse, EndLapse, IInv, TypeOK
<1>2. \A b \in Bots : status'[b] = "ACTIVE" <=>
                      status[b] = "ACTIVE" /\ (Owner[b] # u \/ b \in late)
  <2> SUFFICES ASSUME NEW b \in Bots
               PROVE  status'[b] = "ACTIVE" <=>
                      status[b] = "ACTIVE" /\ (Owner[b] # u \/ b \in late)
    OBVIOUS
  <2>1. status'[b] = IF b \in held /\ Owner[b] = u THEN "PAUSED" ELSE status[b]
    BY DEF Lapse, BotsOf
  <2>2. status[b] = "ACTIVE" /\ Owner[b] = u => (b \in held \/ b \in late)
    BY <1>1 DEF LapsesKnown, Running
  <2>3. ~(b \in held /\ b \in late)
    BY DEF LapsesKnown
  <2> QED BY <2>1, <2>2, <2>3
<1>3. u \in Late <=> \E b \in Bots : status[b] = "ACTIVE" /\ Owner[b] = u /\ b \in late
  BY <1>1 DEF Late, LapsesKnown, Running, IInv, TypeOK
<1>4. Trading' = IF u \in Late THEN Trading ELSE Trading \ {u}
  BY <1>2, <1>3, TradesIf, TradesNextIf
<1>5. /\ Standing(u)' = "lapsed"
      /\ \A v \in Users \ {u} : Standing(v)' = Standing(v)
  BY <1>1 DEF Lapse, EndLapse, Standing
<1>6. Stands' = [Stands EXCEPT ![u] = "lapsed"]
  BY <1>5 DEF Stands
<1>7. Ent!Lapse(u)
  BY <1>4, <1>6, EndIsClose DEF Ent!Lapse, Stands, Late
<1> QED BY <1>7 DEF Ent!Next, Ent!Bill

LEMMA FailureIsGiveUp ==
    ASSUME IInv, LapsesKnown, ObserveLapses, NEW u \in Users, LapseFails(u)
    PROVE  Ent!Next
<1>1. Stands' = Stands /\ Trading' = Trading
  BY DEF LapseFails, EndLapse, Stands, Standing, Trading
<1>2. Ent!GiveUp(u)
  BY <1>1, EndIsClose DEF Ent!GiveUp, Stands
<1> QED BY <1>2 DEF Ent!Next, Ent!Bill

LEMMA StepsImplement ==
    ASSUME IInv, LapsesKnown, [Next]_vars
    PROVE  [Ent!Next]_(Ent!vars)
<1>1. ASSUME ObserveLapses, NEW r \in Requests, Mutation(r) \/ DbFails(r) \/ Crash(r)
      PROVE  [Ent!Next]_(Ent!vars)
  <2>1. CASE WriteStatus(r) \/ CreateBot(r)
    <3>1. /\ UNCHANGED <<subscribed, entitled, lapsing, held>>
          /\ \A c \in Bots \ {call[r].bot} : status'[c] = status[c]
      BY <2>1 DEF WriteStatus, CreateBot, SetStatus, IInv, TypeOK
    <3>2. call[r].bot \in held => status'[call[r].bot] = status[call[r].bot]
      <4>1. call[r].bot \in held => status[call[r].bot] = "ACTIVE"
        BY QuietFacts DEF LapsesKnown, Running
      <4> QED BY <2>1, <4>1 DEF WriteStatus, CreateBot, SetStatus, IInv, TypeOK
    <3> QED BY <1>1, <3>1, <3>2, OneBotWritten, QuietFacts
  <2>2. CASE ~(WriteStatus(r) \/ CreateBot(r))
    <3>1. UNCHANGED <<status, subscribed, entitled, lapsing>>
      BY <1>1, <2>2 DEF Mutation, ActivateBot, PauseBot, DeleteBot, Create, Receive, ReadBot,
         CheckActivation, CheckDeletion, DispatchScan, DbFails, Crash, tables
    <3>2. late' = late
      BY <1>1, <3>1, StillLate DEF IInv, TypeOK
    <3> QED BY <3>1, <3>2, NothingWritten
  <2> QED BY <2>1, <2>2
<1>2. ASSUME ObserveLapses, NEW b \in Bots,
             StandDown(b) \/ NextTradingDay(b) \/ OpenPosition(b) \/ ClosePosition(b)
      PROVE  [Ent!Next]_(Ent!vars)
  <2>1. /\ UNCHANGED <<subscribed, entitled, lapsing, held>>
        /\ \A c \in Bots \ {b} : status'[c] = status[c]
        /\ b \in held => status'[b] = status[b]
    BY <1>2 DEF StandDown, NextTradingDay, OpenPosition, ClosePosition, SetStatus, IInv, TypeOK
  <2> QED BY <1>2, <2>1, OneBotWritten
<1>3. ASSUME ObserveLapses, NEW u \in Users,
             Subscribe(u) \/ PauseBots(u) \/ Lapse(u) \/ LapseFails(u)
      PROVE  [Ent!Next]_(Ent!vars)
  BY <1>3, SubscribeIsGrant, PauseIsLook, LapseIsLapse, FailureIsGiveUp
<1>4. CASE UNCHANGED vars
  <2>1. UNCHANGED <<status, subscribed, entitled, lapsing, late>>
    BY <1>4 DEF vars
  <2> QED BY <2>1, NothingWritten
<1> QED BY <1>1, <1>2, <1>3, <1>4 DEF Next, Step

\* For any number of users, bots and calls, the mutations and the workers start and
\* stop bots of one user at a time and leave the subscriptions to billing; and when
\* a lapse becomes visible, the user's only ACTIVE bots are those that became ACTIVE
\* after it had looked.
THEOREM BotsImplementEntitlement == Spec => ImplementsEntitlement
<1>1. Init => Ent!Init
  <2> SUFFICES ASSUME Init PROVE Ent!Init
    OBVIOUS
  <2>1. Trading \subseteq Users
    BY OwnerAssumption DEF Trading
  <2>2. \A u \in Users : Standing(u) = "none"
    BY DEF Init, Standing
  <2>3. lapsing = {} /\ Late = {}
    BY DEF Init, Late
  <2> QED BY <2>1, <2>2, <2>3 DEF Ent!Init, Late
<1>2. IInv /\ LapsesKnown /\ [Next]_vars => [Ent!Next]_(Ent!vars)
  BY StepsImplement
<1> QED BY <1>1, <1>2, LifecycleInvariant, LapsesAlwaysKnown, PTL
        DEF Spec, ImplementsEntitlement, Ent!Spec
=============================================================================
