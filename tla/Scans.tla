------------------------------- MODULE Scans --------------------------------
(***************************************************************************)
(* Scans of a vendor's genuine codes, and what is made of them: the        *)
(* anonymous browser and its single-use nonces (scan-identity), the rules  *)
(* that judge a scan while it is answered (anomaly-detection), the pass    *)
(* over accumulated scans (anomaly-processing), and the fraud cases all of *)
(* them keep, which reviewers work on (governance).                        *)
(*                                                                         *)
(* verify locks the browser's session, then the code, until it commits;    *)
(* nobody locks a case.  A case that was read is saved whole, with the     *)
(* status it had, whatever happened to the row since.  setCodeStatus reads *)
(* a code without a lock and saves it whole, with the count it had.        *)
(*                                                                         *)
(* Left out: what else decides whether a code is genuine, and the counters *)
(* of the product, which verify saves too (module CodeLifecycle); here a   *)
(* product's share of suspicious scans may be anything.  Severities, hit    *)
(* counts and notes of a case decide nothing that follows.                 *)
(***************************************************************************)
EXTENDS Naturals, FiniteSets

CONSTANTS
    MarketCodes,  \* activated codes of one vendor
    Browsers,     \* signed cookies
    Requests,   \* verify, setCodeStatus, and updates of cases, in flight
    RepeatAt,   \* the verification from which a code counts as copied: 5
    VelocityAt, \* the scans of a code in a day that look automated: 40
    MaxScans,   \* bound: verifications of a code
    MaxNonces,  \* bound: nonces made for a scanner
    MaxCases,   \* bound: rows of fraud_cases
    Null

ASSUME ScansAssumption ==
    /\ {RepeatAt, VelocityAt, MaxScans, MaxNonces, MaxCases} \subseteq Nat \ {0}
    /\ RepeatAt > 1 /\ RepeatAt <= MaxScans
    /\ Null \notin MarketCodes \cup Browsers

Places == {"home", "abroad"}  \* named by NIGERIA_LOCATION, or not
Cases == 1..MaxCases
Nonces == 0..MaxNonces
Categories == {"Possible cloning", "Automated scanning", "Geographic anomaly",
               "Suspicious / fake product", "Customer complaint"}
\* Nobody tells open from investigating and contained, or resolved from dismissed.
Statuses == {"open", "resolved"}

\* live: the code is market-active, and not revoked.  count is verificationCount; recent
\* and places are the events of the code in the last ten minutes and the places named in
\* the last two hours.
SeenRow == [live: BOOLEAN, count: 0..MaxScans, recent: 0..MaxScans, places: SUBSET Places]
SessionRow == [nonce: Nonces, fresh: BOOLEAN]
CaseRow == [category: Categories, status: Statuses]
NoCase == [category |-> "Customer complaint", status |-> "resolved"]
Assessment == [suspicious: BOOLEAN, category: Categories]
NoAlarm == [suspicious |-> FALSE, category |-> "Customer complaint"]

VARIABLES
    codes,     \* codes[c]
    sessions,  \* sessions[s]; nonce 0 before the first
    issued,    \* issued[s]: nonces made for s
    cases,     \* cases[i], in the order of createdAt
    opened,    \* how many cases there are
    requests,  \* requests[q]
    pass,      \* the background pass of this process
    scans,     \* scans[c]: the events of c, one for every answered verification
    spent,     \* history, spent[s][n]: how often the nonce n of s was accepted
    rewound    \* history: codes whose count a save of setCodeStatus wrote back

scansVars == <<codes, sessions, issued, cases, opened, requests, pass, scans, spent, rewound>>

\* scanner, nonce, code, place and assessment of a scan; the copy of a case (i = 0: none);
\* the code, the count and the status of a switch, and the columns its save writes.
RequestRow == [kind: {"idle", "scan", "review", "switch", "save"},
               s: Browsers \cup {Null}, n: Nonces,
               c: MarketCodes \cup {Null}, place: Places \cup {Null}, result: Assessment,
               i: {0} \cup Cases, copy: CaseRow,
               of: MarketCodes \cup {Null}, count: 0..MaxScans, live: BOOLEAN,
               columns: SUBSET {"count", "live"}]
Idle == [kind |-> "idle", s |-> Null, n |-> 0, c |-> Null, place |-> Null,
         result |-> NoAlarm, i |-> 0, copy |-> NoCase,
         of |-> Null, count |-> 0, live |-> FALSE, columns |-> {}]
PassRow == [running: BOOLEAN, findings: SUBSET Categories, i: {0} \cup Cases, copy: CaseRow,
            holds: BOOLEAN]
NoPass == [running |-> FALSE, findings |-> {}, i |-> 0, copy |-> NoCase, holds |-> FALSE]

ScansInit ==
    /\ codes = [c \in MarketCodes |-> [live |-> TRUE, count |-> 0, recent |-> 0, places |-> {}]]
    /\ sessions = [s \in Browsers |-> [nonce |-> 0, fresh |-> FALSE]]
    /\ issued = [s \in Browsers |-> 0]
    /\ cases = [i \in Cases |-> NoCase]
    /\ opened = 0
    /\ requests = [q \in Requests |-> Idle]
    /\ pass = NoPass
    /\ scans = [c \in MarketCodes |-> 0]
    /\ spent = [s \in Browsers |-> [n \in Nonces |-> 0]]
    /\ rewound = {}

End(q) == requests' = [requests EXCEPT ![q] = Idle]

-----------------------------------------------------------------------------
(* The rules for one scan.                                                 *)

Min100(n) == IF n > 100 THEN 100 ELSE n
Points(condition, n) == IF condition THEN n ELSE 0

\* The reasons assessScan finds, from the row of the code before this scan.
Reasons(row, place, complaint, elevated) ==
    {reason \in {"high_frequency", "repeat_scan", "multi_region", "geographic_anomaly",
                 "customer_complaint", "suspicious_product_rate"} :
        CASE reason = "high_frequency" -> row.recent >= RepeatAt - 1
          [] reason = "repeat_scan" -> row.count >= RepeatAt - 1
          [] reason = "multi_region" ->
                Cardinality(row.places \cup ({place} \ {Null})) >= 2
          [] reason = "geographic_anomaly" -> place = "abroad"
          [] reason = "customer_complaint" -> complaint
          [] reason = "suspicious_product_rate" -> elevated}

\* ip_burst never adds to it: the events do not keep the address they came from.
Score(row, reasons) ==
    Min100(Points("high_frequency" \in reasons, 70)
         + Points("high_frequency" \notin reasons /\ row.recent >= RepeatAt - 2, 35)
         + Points("repeat_scan" \in reasons, 20)
         + Points("multi_region" \in reasons, 75)
         + Points("geographic_anomaly" \in reasons, 40)
         + Points("customer_complaint" \in reasons, 45)
         + Points("suspicious_product_rate" \in reasons, 30))

PrimaryCategory(reasons) ==
    IF reasons \cap {"multi_region", "repeat_scan"} # {} THEN "Possible cloning"
    ELSE IF "high_frequency" \in reasons THEN "Automated scanning"
    ELSE IF "geographic_anomaly" \in reasons THEN "Geographic anomaly"
    ELSE IF "suspicious_product_rate" \in reasons THEN "Suspicious / fake product"
    ELSE IF "customer_complaint" \in reasons THEN "Customer complaint"
    ELSE "Suspicious / fake product"

\* verify's own rule: this is the fifth verification, or a later one.
CountsAsCopy(count) == count + 1 >= RepeatAt

\* The outcome verify answers with; the category stays that of assessScan, which does
\* not know of verify's rules.  rapid: five codes of this scanner in ten minutes.
Assess(row, place, complaint, elevated, rapid) ==
    LET reasons == Reasons(row, place, complaint, elevated)
        score == Score(row, reasons)
        own == Points(CountsAsCopy(row.count), 70) + Points(rapid, 50)
        suspicious == \/ own >= 70 \/ score >= 70
                      \/ reasons \cap {"multi_region", "high_frequency"} # {}
    IN IF suspicious
       THEN [suspicious |-> TRUE, category |-> PrimaryCategory(reasons)]
       ELSE NoAlarm

-----------------------------------------------------------------------------
(* Fraud cases.                                                            *)

\* Mutant of LiveCases: a case that was closed is still the case to add to.
AnyCases(category) == {i \in 1..opened : cases[i].category = category}

\* The cases that a suspicion of this category is added to.
LiveCases(category) ==
    {i \in 1..opened : cases[i].category = category /\ cases[i].status = "open"}

\* The last one, or none.
LiveCase(category) ==
    IF LiveCases(category) = {} THEN 0
    ELSE CHOOSE i \in LiveCases(category) : \A j \in LiveCases(category) : j <= i
CopyOf(i) == IF i = 0 THEN NoCase ELSE cases[i]

\* The case i with this row, or a new case.
SaveCase(i, row) ==
    IF i # 0 THEN cases' = [cases EXCEPT ![i] = row] /\ UNCHANGED opened
    ELSE /\ opened < MaxCases
         /\ opened' = opened + 1
         /\ cases' = [cases EXCEPT ![opened + 1] = row]
OpenCase(category) == [category |-> category, status |-> "open"]

-----------------------------------------------------------------------------
(* Browser sessions and verify.                                            *)

\* Mutant of SessionFree: the session is read without a lock.
SessionUnlocked(s) == TRUE

SessionFree(s) == \A q \in Requests : requests[q].s # s

\* Mutant of CodeFree: the code is read without a lock.
CodeUnlocked(c) == TRUE

CodeFree(c) == \A q \in Requests : requests[q].c # c

Renewed(s) ==
    /\ issued[s] < MaxNonces
    /\ issued' = [issued EXCEPT ![s] = @ + 1]
    /\ sessions' = [sessions EXCEPT ![s] = [nonce |-> issued[s] + 1, fresh |-> TRUE]]

\* begin writes a new nonce over whatever there is.
BeginSession(s) ==
    /\ SessionFree(s)
    /\ Renewed(s)
    /\ UNCHANGED <<codes, cases, opened, requests, pass, scans, spent, rewound>>

\* The five minutes of a nonce end.
NonceExpires(s) ==
    /\ sessions[s].fresh
    /\ sessions' = [sessions EXCEPT ![s].fresh = FALSE]
    /\ UNCHANGED <<codes, issued, cases, opened, requests, pass, scans, spent, rewound>>

\* consume: the request may go on.  A scan without a cookie (s = Null) always may.
Admitted(s, n) ==
    IF s = Null THEN n = 0
    ELSE SessionFree(s) /\ sessions[s].fresh /\ sessions[s].nonce = n

\* What is committed for the session with the answer.
Consume(s, n) ==
    IF s = Null THEN UNCHANGED <<sessions, issued, spent>>
    ELSE Renewed(s) /\ spent' = [spent EXCEPT ![s][n] = @ + 1]

\* A scan of something that is no genuine code, or of one that is not on the market.
ScanOther(s, n) ==
    /\ Admitted(s, n)
    /\ Consume(s, n)
    /\ UNCHANGED <<codes, cases, opened, requests, pass, scans, rewound>>

\* verify up to the look for a case; from here the session and the code are locked.
Scan(q, s, n, c, place, complaint, elevated, rapid) ==
    LET result == Assess(codes[c], place, complaint, elevated, rapid)
        i == LiveCase(result.category)
    IN
    /\ requests[q] = Idle /\ codes[c].live /\ scans[c] < MaxScans
    /\ Admitted(s, n) /\ CodeFree(c)
    /\ requests' = [requests EXCEPT ![q] =
          [Idle EXCEPT !.kind = "scan", !.s = s, !.n = n, !.c = c, !.place = place,
                       !.result = result, !.i = IF result.suspicious THEN i ELSE 0,
                       !.copy = IF result.suspicious THEN CopyOf(i) ELSE NoCase]]
    /\ UNCHANGED <<codes, sessions, issued, cases, opened, pass, scans, spent, rewound>>

\* What openAdminAlert saves.
Alert(i, copy, category) == IF i = 0 THEN OpenCase(category) ELSE copy

\* The count, the event, the case and the next nonce are committed together.
Verified(q) ==
    LET call == requests[q]
        row == codes[call.c]
    IN
    /\ call.kind = "scan" /\ scans[call.c] < MaxScans
    /\ codes' = [codes EXCEPT ![call.c] =
          [row EXCEPT !.count = @ + 1, !.recent = @ + 1, !.places = @ \cup ({call.place} \ {Null})]]
    /\ scans' = [scans EXCEPT ![call.c] = @ + 1]
    /\ Consume(call.s, call.n)
    /\ IF call.result.suspicious THEN SaveCase(call.i, Alert(call.i, call.copy, call.result.category))
       ELSE UNCHANGED <<cases, opened>>
    /\ End(q)
    /\ UNCHANGED <<pass, rewound>>

\* The transaction is rolled back, or the reviewer's request ends.
Abort(q) ==
    /\ requests[q] # Idle
    /\ End(q)
    /\ UNCHANGED <<codes, sessions, issued, cases, opened, pass, scans, spent, rewound>>

\* Events leave the window of ten minutes one by one, and places that of two hours.
Forget(c) ==
    /\ CodeFree(c)
    /\ \/ codes[c].recent > 0 /\ codes' = [codes EXCEPT ![c].recent = @ - 1]
       \/ \E place \in codes[c].places : codes' = [codes EXCEPT ![c].places = @ \ {place}]
    /\ UNCHANGED <<sessions, issued, cases, opened, requests, pass, scans, spent, rewound>>

-----------------------------------------------------------------------------
(* The background pass and the reviewers.                                  *)

\* The rules of collectFindings.  Of the scans there were, some are of the last day:
\* what a rule needs may be there, or not any more.
VelocityRule == \E c \in MarketCodes : scans[c] >= VelocityAt
RegionsRule == \E c \in MarketCodes : scans[c] >= 3
\* One address that scans many codes: the events do not keep the address.
FanOutRule == FALSE
BorderRule == \E c \in MarketCodes : scans[c] >= 2
\* A product with many scans, of which many were suspicious.
ProductRule == \E c \in MarketCodes : scans[c] >= 1

Reported ==
    (IF VelocityRule \/ FanOutRule THEN {"Automated scanning"} ELSE {})
    \cup (IF RegionsRule THEN {"Possible cloning"} ELSE {})
    \cup (IF BorderRule THEN {"Geographic anomaly"} ELSE {})
    \cup (IF ProductRule THEN {"Suspicious / fake product"} ELSE {})

\* runOnce, unless a pass is running in this process; then upsertFraudCase finding by
\* finding.
StartPass(findings) ==
    /\ ~pass.running
    /\ pass' = [NoPass EXCEPT !.running = TRUE, !.findings = findings]
    /\ UNCHANGED <<codes, sessions, issued, cases, opened, requests, scans, spent, rewound>>

\* The last finding of a pass; those before it are passes of their own here.
FindCase ==
    /\ pass.running /\ ~pass.holds
    /\ \E category \in pass.findings :
          pass' = [pass EXCEPT !.findings = {category}, !.holds = TRUE,
                      !.i = LiveCase(category), !.copy = CopyOf(LiveCase(category))]
    /\ UNCHANGED <<codes, sessions, issued, cases, opened, requests, scans, spent, rewound>>

Upsert ==
    /\ pass.holds
    /\ \E category \in pass.findings : SaveCase(pass.i, Alert(pass.i, pass.copy, category))
    /\ pass' = NoPass
    /\ UNCHANGED <<codes, sessions, issued, requests, scans, spent, rewound>>

\* Nothing more to report, an error, which is logged, or the process stops.
EndPass ==
    /\ pass.running
    /\ pass' = NoPass
    /\ UNCHANGED <<codes, sessions, issued, cases, opened, requests, scans, spent, rewound>>

\* updateFraud and updateVendorFraud read a case ...
Review(q, i) ==
    /\ requests[q] = Idle /\ i <= opened
    /\ requests' = [requests EXCEPT ![q] =
          [Idle EXCEPT !.kind = "review", !.i = i, !.copy = cases[i]]]
    /\ UNCHANGED <<codes, sessions, issued, cases, opened, pass, scans, spent, rewound>>

\* ... and save it with a status, or with another severity or assignee and the status
\* it had.
Reviewed(q, status) ==
    /\ requests[q].kind = "review"
    /\ SaveCase(requests[q].i, [requests[q].copy EXCEPT !.status = status])
    /\ End(q)
    /\ UNCHANGED <<codes, sessions, issued, pass, scans, spent, rewound>>

-----------------------------------------------------------------------------
(* The status of a code.                                                   *)

\* setCodeStatus reads the code without a lock ...
SwitchCode(q, c) ==
    /\ requests[q] = Idle
    /\ requests' = [requests EXCEPT ![q] =
          [Idle EXCEPT !.kind = "switch", !.of = c, !.count = codes[c].count,
                       !.live = ~codes[c].live]]
    /\ UNCHANGED <<codes, sessions, issued, cases, opened, pass, scans, spent, rewound>>

\* ... the SELECT of save finds the columns that differ ...
CompareCode(q) ==
    LET call == requests[q]
        now == codes[call.of]
    IN
    /\ call.kind = "switch"
    /\ requests' = [requests EXCEPT ![q].kind = "save",
          ![q].columns = {column \in {"count", "live"} : call[column] # now[column]}]
    /\ UNCHANGED <<codes, sessions, issued, cases, opened, pass, scans, spent, rewound>>

\* ... and its UPDATE, which waits for a scan that has the code locked, writes them.
SaveCode(q) ==
    LET call == requests[q]
        row == codes[call.of]
        saved == [row EXCEPT !.count = IF "count" \in call.columns THEN call.count ELSE @,
                             !.live = IF "live" \in call.columns THEN call.live ELSE @]
    IN
    /\ call.kind = "save"
    /\ call.columns # {} => CodeFree(call.of)
    /\ codes' = [codes EXCEPT ![call.of] = saved]
    /\ rewound' = IF saved.count < row.count THEN rewound \cup {call.of} ELSE rewound
    /\ End(q)
    /\ UNCHANGED <<sessions, issued, cases, opened, pass, scans, spent>>

\* The switches and suspensions of whole batches, which write the status only.
SwitchBatch(c) ==
    /\ CodeFree(c)
    /\ codes' = [codes EXCEPT ![c].live = ~@]
    /\ UNCHANGED <<sessions, issued, cases, opened, requests, pass, scans, spent, rewound>>

-----------------------------------------------------------------------------
ScansNext ==
    \/ \E s \in Browsers : BeginSession(s) \/ NonceExpires(s)
    \/ \E s \in Browsers \cup {Null}, n \in Nonces :
          \/ ScanOther(s, n)
          \/ \E q \in Requests, c \in MarketCodes, place \in Places \cup {Null},
                complaint, elevated, rapid \in BOOLEAN :
                Scan(q, s, n, c, place, complaint, elevated, rapid)
    \/ \E q \in Requests :
          \/ Verified(q) \/ Abort(q) \/ CompareCode(q) \/ SaveCode(q)
          \/ \E i \in Cases : Review(q, i)
          \/ \E status \in Statuses : Reviewed(q, status)
          \/ \E c \in MarketCodes : SwitchCode(q, c)
    \/ \E c \in MarketCodes : Forget(c) \/ SwitchBatch(c)
    \/ \E findings \in SUBSET Reported : StartPass(findings)
    \/ FindCase \/ Upsert \/ EndPass

ScansSpec == ScansInit /\ [][ScansNext]_scansVars

-----------------------------------------------------------------------------
\* Every variable keeps its type, and a code has no more recent events than events.
ScansTypeOK ==
    /\ codes \in [MarketCodes -> SeenRow]
    /\ \A c \in MarketCodes : codes[c].recent <= scans[c]
    /\ sessions \in [Browsers -> SessionRow]
    /\ issued \in [Browsers -> Nonces]
    /\ cases \in [Cases -> CaseRow] /\ opened \in 0..MaxCases
    /\ requests \in [Requests -> RequestRow]
    /\ pass \in PassRow
    /\ scans \in [MarketCodes -> Nat]
    /\ spent \in [Browsers -> [Nonces -> Nat]]
    /\ rewound \subseteq MarketCodes

\* The request q commits its scan in this step.
Answers(q) ==
    requests[q].kind = "scan" /\ requests'[q] = Idle /\ scans' # scans

\* A code that was copied on many packs is not called safe again and again: however
\* the scans of the copies overlap, and however often the code is revoked and put back
\* on the market, from the fifth on each is answered as suspicious (verify counts under
\* the lock of the code), unless setCodeStatus saved an older count over it.
CopiesAreSuspected ==
    [][\A q \in Requests :
          Answers(q) /\ ~requests[q].result.suspicious =>
             scans'[requests[q].c] < RepeatAt \/ requests[q].c \in rewound]_scansVars

\* A captured verification cannot be sent again: of the requests that carry one nonce
\* one is accepted at most, whatever begin does to the session in between.
NoncesAreSpentOnce == \A s \in Browsers, n \in Nonces : spent[s][n] <= 1

\* A suspicious scan is not lost on the reviewers: when it is answered there is a case
\* of its category that somebody still has to close, even if the case it was added
\* to was closed or changed since it was read.
SuspicionsAreFiled ==
    [][\A q \in Requests :
          Answers(q) /\ requests[q].result.suspicious =>
             \E i \in 1..opened' :
                /\ cases'[i].category = requests[q].result.category
                /\ cases'[i].status = "open"]_scansVars
=============================================================================
