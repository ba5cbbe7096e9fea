--------------------------- MODULE WallJobsProofs ---------------------------
(***************************************************************************)
(* The master's job table and the slots beside it, for any number of       *)
(* boards, places, jobs and changes of the rows table: a job and a restart *)
(* reach the board they were asked for, and every job that runs is in      *)
(* somebody's hands.                                                       *)
(***************************************************************************)
EXTENDS WallJobs, FiniteSetTheorems, SequenceTheorems, TLAPS

-----------------------------------------------------------------------------
(* The shapes of the state *)

Tables == {t \in Seq(Boards) : IsInjective(t)}
Places == Boards \cup {NoBoard}
States == [st : {"unborn", "running", "evicted"} \cup Ends, row : RowNos \cup {NoRow, OwnRow}]
Requests == [id : Ids, kind : {"pair", "release"}, board : Boards, table : Tables]
            \cup [id : Ids, kind : {"arrange"}, board : {NoBoard}, table : Tables]
LinkStates == [at : {"top", "read", "take", "tick", "restarts", "publish"}, row : Nat,
               table : Tables, gen : Nat, hand : Ids \cup {0}]
Contacts == [up : BOOLEAN, known : BOOLEAN, job : Ids \cup {0}, sent : BOOLEAN]

WebShape ==
  \/ web = Idle
  \/ web \in [at : {"table", "connected", "free"},
              kind : {"job", "restart", "release", "arrange"},
              row : RowNos, table : Tables, gen : Nat]
  \/ web \in [at : {"begun"}, row : RowNos, gen : Nat, id : Ids]
  \/ web \in [at : {"refused", "ownBegun", "ownQueued"}, id : Ids]
  \/ web \in [at : {"request"}, id : Ids, request : Requests]
WorkerShape ==
  \/ worker = Idle
  \/ worker \in [at : {"read", "set", "stored"}, request : Requests]
  \/ worker = [at |-> "done"]
  \/ worker \in [at : {"own", "ownEnded"}, id : Ids]
WallShape ==
  /\ op \in [Ids -> States] /\ nextId \in 1..(MaxIds + 1)
  /\ table \in Tables /\ generation \in 0..MaxTables
  /\ up \in [RowNos -> BOOLEAN] /\ staged \in [RowNos -> Ids \cup {0}]
  /\ restarts \subseteq RowNos /\ own \in Ids \cup {0}
  /\ request \in Requests \cup {NoRequest}
LinkShape == link \in LinkStates /\ core \in [RowNos -> Contacts]
HistoryShape ==
  /\ meant \in [Ids -> Places] /\ written \in [Ids -> Places] /\ asked \in [RowNos -> Places]
Shapes == WallShape /\ WebShape /\ WorkerShape /\ LinkShape /\ HistoryShape

-----------------------------------------------------------------------------
(* What keeps the tasks in step *)

\* Whoever holds a job holds one that was begun, and nothing is known of the next ones.
HeldAreBegun ==
  /\ web.at \in {"begun", "refused", "ownBegun", "ownQueued", "request"} => web.id < nextId
  /\ \A r \in RowNos : staged[r] < nextId /\ core[r].job < nextId
  /\ link.hand < nextId /\ own < nextId /\ request.id < nextId
  /\ worker.at \in {"read", "set", "stored"} => worker.request.id < nextId
  /\ worker.at \in {"own", "ownEnded"} => worker.id < nextId
NextAreUnborn ==
  \A j \in Ids : j >= nextId =>
    op[j].st = "unborn" /\ meant[j] = NoBoard /\ written[j] = NoBoard

\* The row number of a request is one of the table it was read with, and while that table is
\* in force the job it began is meant for the board of that number.
WebKnowsItsRow ==
  /\ web.at \in {"table", "connected", "free"} =>
       /\ nextId <= MaxIds /\ web.row \in DOMAIN web.table /\ web.gen <= generation
       /\ web.gen = generation => web.table = table
  /\ web.at = "begun" =>
       /\ op[web.id].row = web.row /\ web.gen <= generation
       /\ web.gen = generation => web.row \in DOMAIN table /\ meant[web.id] = table[web.row]
  /\ web.at = "request" => web.request.id = web.id
  /\ web.at \in {"ownBegun", "ownQueued"} =>
       \A j \in Ids : Running(j) /\ op[j].row = OwnRow => j = web.id

\* The slots by row number are about the table in force.
SlotsAreOfTable ==
  /\ \A r \in RowNos : staged[r] # 0 => r \in DOMAIN table /\ meant[staged[r]] = table[r]
  /\ \A r \in restarts : r \in DOMAIN table /\ asked[r] = table[r]

\* What the link task holds is about the table it runs on.
LinkIsOfItsTable ==
  /\ link.gen <= generation
  /\ link.gen = generation => link.table = table
  /\ link.hand # 0 => link.at = "take"
  /\ \A r \in RowNos :
       /\ core[r].job # 0 => r \in DOMAIN link.table /\ meant[core[r].job] = link.table[r]
       /\ core[r].sent => core[r].job # 0

\* A pass that takes jobs or restarts while the table is replaced finds none: no row is
\* published as connected before the next pass, so nothing can be asked for one.
LatePassFindsNothing ==
  link.at \in {"take", "restarts"} /\ link.gen # generation =>
    /\ restarts = {}
    /\ \A r \in RowNos : ~up[r] /\ staged[r] = 0
    /\ web.at \in {"connected", "free", "begun"} => web.gen # generation

\* The job on the master's own units that the worker watches is one, and is not let go of
\* before it has ended.
OwnIsOwn ==
  /\ own # 0 => op[own].row = OwnRow
  /\ web.at \in {"ownBegun", "ownQueued"} => op[web.id].row = OwnRow
OwnEndIsEnd == worker.at = "ownEnded" => ~Running(worker.id)

PlacesAreKept == Cardinality({j \in Ids : InTable(j)}) <= Kept

JobsInv ==
  /\ HeldAreBegun /\ NextAreUnborn /\ WebKnowsItsRow /\ SlotsAreOfTable /\ LinkIsOfItsTable
  /\ LatePassFindsNothing /\ OwnIsOwn /\ OwnEndIsEnd /\ PlacesAreKept /\ NoJobIsForgotten
  /\ ReachTheirBoard

-----------------------------------------------------------------------------
(* The tables *)

\* A table has no more rows than there are boards.
LEMMA TableRows ==
  ASSUME NEW t \in Tables
  PROVE  DOMAIN t \subseteq RowNos /\ \A r \in DOMAIN t : t[r] \in Boards
<1>1. t \in Seq(Boards) /\ IsInjective(t) /\ Len(t) \in Nat /\ DOMAIN t = 1..Len(t)
  BY DEF Tables
<1>2. \A r \in DOMAIN t : t[r] \in Boards
  BY <1>1
<1>3. t \in [1..Len(t) -> Boards]
  BY <1>1
<1>4. \A a, b \in 1..Len(t) : t[a] = t[b] => a = b
  BY <1>1 DEF IsInjective
<1>5. t \in Injection(1..Len(t), Boards)
  BY <1>1, <1>3 DEF Injection
<1>6. Cardinality(1..Len(t)) <= Cardinality(Boards)
  BY <1>5, FS_Injection, TableHasBoardsOnce
<1>7. Cardinality(1..Len(t)) = Len(t)
  BY <1>1, FS_Interval
<1>8. Cardinality(Boards) \in Nat
  BY FS_CardinalityType, TableHasBoardsOnce
<1> QED BY <1>1, <1>2, <1>6, <1>7, <1>8 DEF RowNos

LEMMA EmptyTable == <<>> \in Tables
BY DEF Tables, IsInjective

\* A board that is not in the table comes behind the others.
LEMMA PairedTable ==
  ASSUME NEW t \in Tables, NEW b \in Boards, b \notin ToSet(t)
  PROVE  Append(t, b) \in Tables
<1>1. t \in Seq(Boards) /\ IsInjective(t) /\ Len(t) \in Nat /\ DOMAIN t = 1..Len(t)
  BY DEF Tables
<1>2. /\ Append(t, b) \in Seq(Boards) /\ DOMAIN Append(t, b) = 1..(Len(t) + 1)
      /\ \A i \in 1..Len(t) : Append(t, b)[i] = t[i]
      /\ Append(t, b)[Len(t) + 1] = b
  BY <1>1, AppendProperties
<1>3. \A i \in 1..Len(t) : t[i] # b
  BY <1>1 DEF ToSet
<1>4. ASSUME NEW i \in 1..(Len(t) + 1), NEW k \in 1..(Len(t) + 1),
             Append(t, b)[i] = Append(t, b)[k]
      PROVE  i = k
  <2>1. CASE i \in 1..Len(t) /\ k \in 1..Len(t)
    BY <1>1, <1>2, <1>4, <2>1 DEF IsInjective
  <2>2. CASE i = Len(t) + 1 \/ k = Len(t) + 1
    BY <1>1, <1>2, <1>3, <1>4, <2>2
  <2> QED BY <1>1, <2>1, <2>2
<1> QED BY <1>2, <1>4 DEF Tables, IsInjective

\* The rows behind a row that goes close up.
LEMMA ReleasedTable ==
  ASSUME NEW t \in Tables, NEW i \in DOMAIN t
  PROVE  RemoveAt(t, i) \in Tables
<1>1. t \in Seq(Boards) /\ IsInjective(t) /\ Len(t) \in Nat /\ DOMAIN t = 1..Len(t)
  BY DEF Tables
<1> DEFINE l == SubSeq(t, 1, i - 1)
           r == SubSeq(t, i + 1, Len(t))
<1>2. /\ i \in 1..Len(t) /\ i - 1 \in Int /\ i + 1 \in Int
  BY <1>1
<1>3. /\ l \in Seq(Boards) /\ Len(l) = i - 1
      /\ \A k \in 1..(i - 1) : l[k] = t[k]
  BY <1>1, <1>2, SubSeqProperties
<1>4. /\ r \in Seq(Boards) /\ Len(r) = Len(t) - i
      /\ \A k \in 1..(Len(t) - i) : r[k] = t[k + i]
  BY <1>1, <1>2, SubSeqProperties, SMTT(30)
<1>5. RemoveAt(t, i) = l \o r
  BY DEF RemoveAt
<1> HIDE DEF l, r
<1>6. /\ l \o r \in Seq(Boards) /\ DOMAIN (l \o r) = 1..(Len(t) - 1)
      /\ \A k \in 1..(Len(t) - 1) : (l \o r)[k] = IF k < i THEN t[k] ELSE t[k + 1]
  <2>1. /\ l \o r \in Seq(Boards) /\ Len(l \o r) = Len(l) + Len(r)
        /\ \A k \in 1..(Len(l) + Len(r)) :
             (l \o r)[k] = IF k <= Len(l) THEN l[k] ELSE r[k - Len(l)]
    BY <1>3, <1>4, ConcatProperties
  <2>2. Len(l) + Len(r) = Len(t) - 1
    BY <1>1, <1>2, <1>3, <1>4
  <2>3. DOMAIN (l \o r) = 1..(Len(t) - 1)
    BY <2>1, <2>2
  <2>4. ASSUME NEW k \in 1..(Len(t) - 1)
        PROVE  (l \o r)[k] = IF k < i THEN t[k] ELSE t[k + 1]
    <3>1. CASE k < i
      BY <1>1, <1>2, <1>3, <2>1, <2>2, <3>1
    <3>2. CASE ~(k < i)
      <4>1. k - (i - 1) \in 1..(Len(t) - i) /\ (k - (i - 1)) + i = k + 1
        BY <1>1, <1>2, <3>2
      <4>2. (l \o r)[k] = r[k - (i - 1)]
        BY <1>1, <1>2, <1>3, <2>1, <2>2, <3>2, SMTT(30)
      <4> QED BY <1>4, <3>2, <4>1, <4>2
    <3> QED BY <3>1, <3>2
  <2> QED BY <2>1, <2>3, <2>4
<1>7. ASSUME NEW a \in 1..(Len(t) - 1), NEW b \in 1..(Len(t) - 1), (l \o r)[a] = (l \o r)[b]
      PROVE  a = b
  <2>1. /\ a \in Int /\ b \in Int /\ a \in 1..Len(t) /\ a + 1 \in 1..Len(t)
        /\ b \in 1..Len(t) /\ b + 1 \in 1..Len(t)
    BY <1>1
  <2>2. \A c, d \in 1..Len(t) : t[c] = t[d] => c = d
    BY <1>1 DEF IsInjective
  <2>3. CASE a < i /\ b < i
    BY <1>6, <1>7, <2>1, <2>2, <2>3
  <2>4. CASE a < i /\ ~(b < i)
    <3>1. t[a] = t[b + 1]
      BY <1>6, <1>7, <2>4
    <3>2. a = b + 1
      BY <2>1, <2>2, <3>1
    <3> QED BY <1>2, <2>1, <2>4, <3>2
  <2>5. CASE ~(a < i) /\ b < i
    <3>1. t[a + 1] = t[b]
      BY <1>6, <1>7, <2>5
    <3>2. a + 1 = b
      BY <2>1, <2>2, <3>1
    <3> QED BY <1>2, <2>1, <2>5, <3>2
  <2>6. CASE ~(a < i) /\ ~(b < i)
    <3>1. t[a + 1] = t[b + 1]
      BY <1>6, <1>7, <2>6
    <3>2. a + 1 = b + 1
      BY <2>1, <2>2, <3>1
    <3> QED BY <2>1, <3>2
  <2> QED BY <2>3, <2>4, <2>5, <2>6
<1> QED BY <1>5, <1>6, <1>7 DEF Tables, IsInjective

-----------------------------------------------------------------------------
(* What a step does to the jobs *)

LEMMA RowsAreNumbers ==
  /\ RowNos \subseteq Nat /\ 0 \notin RowNos /\ NoRow \notin RowNos /\ OwnRow \notin RowNos
  /\ NoRow # OwnRow
<1>1. Cardinality(Boards) \in Nat
  BY FS_CardinalityType, TableHasBoardsOnce
<1> QED BY <1>1 DEF RowNos, NoRow, OwnRow

\* Jobs that run end, and nothing else happens to any.
JobsOnlyEnd ==
  \A j \in Ids : \/ op'[j] = op[j]
                 \/ Running(j) /\ op'[j].st \in Ends /\ op'[j].row = op[j].row
\* The next job is begun on `row`, in a free place or in that of a job that has ended.
Joins(row) ==
  /\ nextId \in Ids /\ nextId' = nextId + 1
  /\ op'[nextId] = [st |-> "running", row |-> row]
  /\ \A j \in Ids \ {nextId} :
       \/ op'[j] = op[j]
       \/ op[j].st \in Ends /\ op'[j].st = "evicted" /\ op'[j].row = op[j].row

LEMMA FinishEnds ==
  ASSUME op \in [Ids -> States], NEW j, NEW how \in Ends, Finish(j, how)
  PROVE  /\ op' \in [Ids -> States] /\ JobsOnlyEnd
         /\ \A k \in Ids : k # j => op'[k] = op[k]
         /\ j \in Ids => op'[j].st # "running"
<1>1. \A k \in Ids : op[k].st \in {"unborn", "running", "evicted"} \cup Ends
  BY DEF States
<1>2. op' = [op EXCEPT ![j].st = IF op[j].st = "running" THEN how ELSE op[j].st]
  BY DEF Finish
<1>3. "running" \notin Ends
  BY DEF Ends
<1>4. op' \in [Ids -> States]
  BY <1>1, <1>2 DEF States
<1>5. \A k \in Ids : k # j => op'[k] = op[k]
  BY <1>2
<1>6. j \in Ids => op'[j] = [op[j] EXCEPT !.st = IF op[j].st = "running" THEN how ELSE op[j].st]
  BY <1>2
<1>7. j \in Ids => op'[j].st # "running"
  BY <1>3, <1>6 DEF States
<1>8. JobsOnlyEnd
  <2> SUFFICES ASSUME NEW k \in Ids
               PROVE  \/ op'[k] = op[k]
                      \/ Running(k) /\ op'[k].st \in Ends /\ op'[k].row = op[k].row
    BY DEF JobsOnlyEnd
  <2>1. CASE k # j
    BY <1>5, <2>1
  <2>2. CASE k = j /\ op[j].st = "running"
    BY <1>6, <2>2 DEF Running, States
  <2>3. CASE k = j /\ op[j].st # "running"
    BY <1>6, <2>3 DEF States
  <2> QED BY <2>1, <2>2, <2>3
<1> QED BY <1>4, <1>5, <1>7, <1>8

LEMMA FailJobsEnds ==
  ASSUME op \in [Ids -> States], NEW rows, NEW how \in Ends, FailJobs(rows, how)
  PROVE  /\ op' \in [Ids -> States] /\ JobsOnlyEnd
         /\ \A j \in Ids : op[j].row \in rows => op'[j].st # "running"
<1>1. op' = [j \in Ids |-> IF op[j].st = "running" /\ op[j].row \in rows
                           THEN [op[j] EXCEPT !.st = how] ELSE op[j]]
  BY DEF FailJobs, Running
<1>2. "running" \notin Ends
  BY DEF Ends
<1>3. \A j \in Ids : op'[j] = IF op[j].st = "running" /\ op[j].row \in rows
                              THEN [op[j] EXCEPT !.st = how] ELSE op[j]
  BY <1>1
<1>4. op' \in [Ids -> States]
  BY <1>1 DEF States
<1>5. JobsOnlyEnd
  BY <1>3 DEF JobsOnlyEnd, Running, States
<1>6. \A j \in Ids : op[j].row \in rows => op'[j].st # "running"
  BY <1>2, <1>3 DEF States
<1> QED BY <1>4, <1>5, <1>6

LEMMA BeginJoins ==
  ASSUME op \in [Ids -> States], nextId \in Ids, op[nextId].st = "unborn",
         nextId' = nextId + 1, NEW row \in RowNos \cup {NoRow, OwnRow}, Begin(row, op')
  PROVE  op' \in [Ids -> States] /\ Joins(row)
<1> DEFINE new   == [st |-> "running", row |-> row]
           ended == {j \in Ids : InTable(j) /\ ~Running(j)}
<1>1. new \in States
  BY DEF States
<1>2. CASE op' = [op EXCEPT ![nextId] = new]
  BY <1>1, <1>2 DEF Joins
<1>3. CASE \E old \in ended : op' = [op EXCEPT ![old].st = "evicted", ![nextId] = new]
  <2>1. PICK old \in ended : op' = [op EXCEPT ![old].st = "evicted", ![nextId] = new]
    BY <1>3
  <2>2. old \in Ids /\ op[old].st \in Ends /\ old # nextId
    BY DEF InTable, Running, States
  <2>3. [op[old] EXCEPT !.st = "evicted"] \in States
    BY <2>2 DEF States
  <2>4. op' = [[op EXCEPT ![old] = [op[old] EXCEPT !.st = "evicted"]] EXCEPT ![nextId] = new]
    BY <2>1, <2>2
  <2>5. /\ op' \in [Ids -> States] /\ op'[nextId] = new
        /\ op'[old] = [op[old] EXCEPT !.st = "evicted"]
        /\ \A j \in Ids : j # nextId /\ j # old => op'[j] = op[j]
    BY <1>1, <2>2, <2>3, <2>4
  <2>6. op'[old].st = "evicted" /\ op'[old].row = op[old].row
    BY <2>2, <2>5 DEF States
  <2> QED BY <2>2, <2>5, <2>6 DEF Joins
<1>4. \/ op' = [op EXCEPT ![nextId] = new]
      \/ \E old \in ended : op' = [op EXCEPT ![old].st = "evicted", ![nextId] = new]
  BY Zenon DEF Begin
<1> QED BY <1>2, <1>3, <1>4

-----------------------------------------------------------------------------
(* Whose steps leave what alone *)

WebActs    == WebStarts \/ WebBeginsOwnJob \/ WebBeginsRequest \/ WebStep
WorkerActs == WorkerTakesRequest \/ WorkerSeesOwnEnd \/ WorkerStep
LinkActs   == LinkPass \/ \E r \in RowNos : LinkEvent(r) \/ LinkGivesUp(r)

LEMMA WhoSteps == Next => WebActs \/ WorkerActs \/ LinkActs
BY DEF Next, WebActs, WorkerActs, LinkActs

LEMMA WebLeaves ==
  WebActs => UNCHANGED <<worker, link, core, dirty, table, generation, up, requestRunning,
                         written, told>>
<1>1. WebStarts => UNCHANGED <<worker, link, core, dirty, table, generation, up,
                               requestRunning, written, told>>
  BY DEF WebStarts, WebReadsTable, wallVars, webRest, ghosts
<1>2. WebBeginsOwnJob => UNCHANGED <<worker, link, core, dirty, table, generation, up,
                                     requestRunning, written, told>>
  BY DEF WebBeginsOwnJob, JobBegins, wallVars, webRest, ghosts
<1>3. WebBeginsRequest => UNCHANGED <<worker, link, core, dirty, table, generation, up,
                                      requestRunning, written, told>>
  BY DEF WebBeginsRequest, wallVars, webRest, ghosts
<1>4. WebStep => UNCHANGED <<worker, link, core, dirty, table, generation, up,
                             requestRunning, written, told>>
  BY DEF WebStep, WebFindsConnected, WebBeginsJob, WebStages, WebGivesUp, WebQueuesOwnJob,
         WebSetsOwnJob, WebChecksNoJob, WebAsksRestart, WebFindsNoPlace, WebStagesRequest,
         JobBegins, wallVars, webRest, ghosts
<1> QED BY <1>1, <1>2, <1>3, <1>4 DEF WebActs

LEMMA WorkerLeaves ==
  WorkerActs => UNCHANGED <<web, link, core, dirty, nextId, ghosts>>
BY DEF WorkerActs, WorkerTakesRequest, WorkerSeesOwnEnd, WorkerStep, WorkerReadsTable,
       WorkerFails, WorkerSetsRows, WorkerFinishes, WorkerIsDone, WorkerFinishesOwn,
       WorkerForgetsOwn, workerRest, wallVars, ghosts

LEMMA LinkLeaves ==
  LinkActs => UNCHANGED <<web, worker, nextId, table, generation, own, request,
                          requestRunning, meant>>
<1>1. LinkPass => UNCHANGED <<web, worker, nextId, table, generation, own, request,
                              requestRunning, meant>>
  BY DEF LinkPass, LinkBeginsPass, LinkGoesToJobs, LinkTakesJob, LinkGivesBack, LinkGoesToTick,
         LinkGoesToRestarts, LinkTellsRestarts, LinkPublishes, LinkEndsPass, linkRest,
         wallVars, ghosts
<1>2. (\E r \in RowNos : LinkEvent(r) \/ LinkGivesUp(r)) =>
        UNCHANGED <<web, worker, nextId, table, generation, own, request,
                    requestRunning, meant>>
  BY DEF LinkEvent, LinkReadsHello, LinkLosesRow, LinkReadsEnd, LinkWritesJob, LinkGivesUp,
         linkRest, wallVars, ghosts
<1> QED BY <1>1, <1>2 DEF LinkActs

-----------------------------------------------------------------------------
(* Every step ends some jobs or begins the next one *)

SomeEnd == op' \in [Ids -> States] /\ JobsOnlyEnd /\ nextId' = nextId
OneJoins == op' \in [Ids -> States] /\ \E row \in RowNos \cup {NoRow, OwnRow} : Joins(row)

LEMMA SameJobs == Shapes /\ UNCHANGED <<op, nextId>> => SomeEnd
BY DEF SomeEnd, JobsOnlyEnd, Shapes, WallShape

LEMMA NextIsUnborn ==
  ASSUME Shapes, NextAreUnborn, nextId <= MaxIds
  PROVE  nextId \in Ids /\ op[nextId].st = "unborn" /\ op \in [Ids -> States]
BY BoundsAreNaturals DEF Shapes, WallShape, NextAreUnborn, Ids

LEMMA EndIsAnEnd == {"answered", "givenUp", "restarted", "wallChanged"} \subseteq Ends
BY DEF Ends

LEMMA WebJobs ==
  ASSUME Shapes, NextAreUnborn, WebKnowsItsRow, WebActs
  PROVE  SomeEnd \/ OneJoins
<1>1. CASE WebStarts
  BY <1>1, SameJobs DEF WebStarts, WebReadsTable, wallVars
<1>2. CASE WebBeginsOwnJob
  <2>1. CASE UNCHANGED wallVars
    BY <2>1, SameJobs DEF wallVars
  <2>2. CASE Begin(OwnRow, op') /\ nextId' = nextId + 1
    <3>1. nextId <= MaxIds
      BY <1>2 DEF WebBeginsOwnJob
    <3> QED BY <2>2, <3>1, NextIsUnborn, BeginJoins DEF OneJoins
  <2> QED BY <1>2, <2>1, <2>2 DEF WebBeginsOwnJob, JobBegins
<1>3. CASE WebBeginsRequest
  <2>1. nextId <= MaxIds
    BY <1>3 DEF WebBeginsRequest, WebKnowsItsRow
  <2>2. Begin(NoRow, op') /\ nextId' = nextId + 1
    BY <1>3 DEF WebBeginsRequest
  <2> QED BY <2>1, <2>2, NextIsUnborn, BeginJoins DEF OneJoins
<1>4. CASE WebFindsConnected \/ WebStages \/ WebQueuesOwnJob \/ WebSetsOwnJob \/ WebChecksNoJob
           \/ WebAsksRestart \/ WebFindsNoPlace \/ WebStagesRequest
  BY <1>4, SameJobs DEF WebFindsConnected, WebStages, WebQueuesOwnJob, WebSetsOwnJob,
     WebChecksNoJob, WebAsksRestart, WebFindsNoPlace, WebStagesRequest, wallVars
<1>5. CASE WebBeginsJob
  <2>1. CASE UNCHANGED wallVars
    BY <2>1, SameJobs DEF wallVars
  <2>2. CASE Begin(web.row, op') /\ nextId' = nextId + 1
    <3>1. nextId <= MaxIds /\ web.row \in RowNos
      BY <1>5 DEF WebBeginsJob, WebKnowsItsRow, Shapes, WebShape, Idle
    <3> QED BY <2>2, <3>1, NextIsUnborn, BeginJoins DEF OneJoins
  <2> QED BY <1>5, <2>1, <2>2 DEF WebBeginsJob, JobBegins
<1>6. CASE WebGivesUp
  BY <1>6, FinishEnds, EndIsAnEnd DEF WebGivesUp, SomeEnd, Shapes, WallShape
<1> QED BY <1>1, <1>2, <1>3, <1>4, <1>5, <1>6, WebActs DEF WebActs, WebStep

LEMMA WorkerJobs ==
  ASSUME Shapes, WorkerActs
  PROVE  SomeEnd
<1>1. nextId' = nextId /\ op \in [Ids -> States]
  BY WorkerLeaves DEF Shapes, WallShape
<1>2. CASE WorkerTakesRequest \/ WorkerSeesOwnEnd \/ WorkerReadsTable \/ WorkerIsDone
           \/ WorkerForgetsOwn
  BY <1>2, SameJobs, <1>1 DEF WorkerTakesRequest, WorkerSeesOwnEnd, WorkerReadsTable,
     WorkerIsDone, WorkerForgetsOwn, wallVars
<1>3. CASE WorkerFails \/ WorkerFinishes \/ WorkerFinishesOwn
  BY <1>1, <1>3, FinishEnds, EndIsAnEnd DEF WorkerFails, WorkerFinishes, WorkerFinishesOwn, SomeEnd
<1>4. CASE WorkerSetsRows
  BY <1>1, <1>4, FailJobsEnds, EndIsAnEnd DEF WorkerSetsRows, NewTable, SomeEnd
<1> QED BY <1>2, <1>3, <1>4, WorkerActs DEF WorkerActs, WorkerStep

LEMMA LinkJobs ==
  ASSUME Shapes, LinkActs
  PROVE  SomeEnd
<1>1. nextId' = nextId /\ op \in [Ids -> States]
  BY LinkLeaves DEF Shapes, WallShape
<1>2. CASE \/ LinkBeginsPass \/ LinkGoesToJobs \/ LinkTakesJob \/ LinkGoesToTick
           \/ LinkGoesToRestarts \/ LinkTellsRestarts \/ LinkPublishes \/ LinkEndsPass
           \/ \E r \in RowNos : LinkLosesRow(r) \/ LinkWritesJob(r)
  BY <1>1, <1>2, SameJobs DEF LinkBeginsPass, LinkGoesToJobs, LinkTakesJob, LinkGoesToTick,
     LinkGoesToRestarts, LinkTellsRestarts, LinkPublishes, LinkEndsPass, LinkLosesRow,
     LinkWritesJob, wallVars
<1>3. CASE LinkGivesBack \/ \E r \in RowNos : LinkReadsEnd(r) \/ LinkGivesUp(r)
  BY <1>1, <1>3, FinishEnds, EndIsAnEnd DEF LinkGivesBack, LinkReadsEnd, LinkGivesUp, SomeEnd
<1>4. CASE \E r \in RowNos : LinkReadsHello(r)
  <2>1. PICK r \in RowNos : LinkReadsHello(r)
    BY <1>4
  <2>2. UNCHANGED op \/ FailJobs({r}, "restarted")
    BY <2>1 DEF LinkReadsHello
  <2>3. CASE UNCHANGED op
    BY <1>1, <2>3, SameJobs
  <2>4. CASE FailJobs({r}, "restarted")
    BY <1>1, <2>4, FailJobsEnds, EndIsAnEnd DEF SomeEnd
  <2> QED BY <2>2, <2>3, <2>4
<1> QED BY <1>2, <1>3, <1>4, LinkActs DEF LinkActs, LinkPass, LinkEvent

LEMMA StepOfJobs ==
  ASSUME Shapes, NextAreUnborn, WebKnowsItsRow, Next
  PROVE  SomeEnd \/ OneJoins
BY WhoSteps, WebJobs, WorkerJobs, LinkJobs

-----------------------------------------------------------------------------
(* The shapes are kept *)

LEMMA JobShapes ==
  ASSUME nextId \in 1..(MaxIds + 1), SomeEnd \/ OneJoins
  PROVE  op' \in [Ids -> States] /\ nextId' \in 1..(MaxIds + 1)
<1>1. CASE SomeEnd
  BY <1>1 DEF SomeEnd
<1>2. CASE OneJoins
  <2>1. nextId \in 1..MaxIds /\ nextId' = nextId + 1
    BY <1>2 DEF OneJoins, Joins, Ids
  <2> QED BY <1>2, <2>1, BoundsAreNaturals DEF OneJoins
<1> QED BY <1>1, <1>2

LEMMA InitShapes == Init => Shapes
<1> SUFFICES ASSUME Init PROVE Shapes
  OBVIOUS
<1>1. FirstTable \in Tables /\ <<>> \in Tables
  BY TableHasBoardsOnce, EmptyTable DEF Tables
<1>2. WallShape
  BY <1>1, BoundsAreNaturals DEF Init, WallShape, States, NoRow
<1>3. LinkShape
  BY <1>1 DEF Init, LinkShape, LinkStates, Contacts, NoContact
<1>4. WebShape /\ WorkerShape /\ HistoryShape
  BY DEF Init, WebShape, WorkerShape, HistoryShape, Places
<1> QED BY <1>2, <1>3, <1>4 DEF Shapes

LEMMA WebShapes ==
  ASSUME Shapes, NextAreUnborn, WebKnowsItsRow, WebActs
  PROVE  Shapes'
<1>1. op' \in [Ids -> States] /\ nextId' \in 1..(MaxIds + 1)
  BY WebJobs, JobShapes DEF Shapes, WallShape
<1>2. UNCHANGED <<worker, link, core, table, generation, up, written>>
  BY WebLeaves
<1>3. WorkerShape' /\ LinkShape'
  BY <1>2 DEF Shapes, WorkerShape, LinkShape
<1>4. WebShape /\ table \in Tables /\ DOMAIN table \subseteq RowNos
  BY TableRows DEF Shapes, WallShape
<1>5. /\ staged' \in [RowNos -> Ids \cup {0}] /\ restarts' \subseteq RowNos
      /\ own' \in Ids \cup {0} /\ request' \in Requests \cup {NoRequest}
      /\ meant' \in [Ids -> Places] /\ asked' \in [RowNos -> Places]
      /\ WebShape'
  <2>1. /\ staged \in [RowNos -> Ids \cup {0}] /\ restarts \subseteq RowNos
        /\ own \in Ids \cup {0} /\ request \in Requests \cup {NoRequest}
        /\ meant \in [Ids -> Places] /\ asked \in [RowNos -> Places]
    BY DEF Shapes, WallShape, HistoryShape
  <2>2. generation \in Nat
    BY BoundsAreNaturals DEF Shapes, WallShape
  <2>3. CASE WebStarts
    <3>1. PICK kind \in Asks \ {"own", "pair"} : WebReadsTable(kind)
      BY <2>3 DEF WebStarts
    <3>2. kind \in {"job", "restart", "release", "arrange"}
      BY BoundsAreNaturals
    <3>3. WebShape'
      BY <1>4, <2>2, <3>1, <3>2 DEF WebReadsTable, WebShape
    <3> QED BY <2>1, <3>1, <3>3 DEF WebReadsTable, wallVars, ghosts
  <2>4. CASE WebBeginsOwnJob
    <3>1. nextId \in Ids
      BY <2>4, NextIsUnborn DEF WebBeginsOwnJob
    <3>2. CASE web' = Idle /\ UNCHANGED <<wallVars, webRest, ghosts>>
      BY <2>1, <3>2 DEF WebShape, wallVars, ghosts
    <3>3. CASE /\ meant' = [meant EXCEPT ![nextId] = NoBoard]
               /\ web' = [at |-> "ownBegun", id |-> nextId]
               /\ UNCHANGED <<staged, restarts, own, request, asked>>
      BY <2>1, <3>1, <3>3 DEF WebShape, Places
    <3> QED BY <2>4, <3>2, <3>3 DEF WebBeginsOwnJob, JobBegins
  <2>5. CASE WebBeginsRequest
    <3>1. nextId \in Ids
      BY <2>5, NextIsUnborn DEF WebBeginsRequest, WebKnowsItsRow
    <3>2. UNCHANGED <<staged, restarts, own, request, meant, asked>>
      BY <2>5 DEF WebBeginsRequest, ghosts
    <3>3. \E q \in Requests : web' = [at |-> "request", id |-> nextId, request |-> q]
      <4>1. CASE \E b \in Boards \ ToSet(table) :
                   web' = [at |-> "request", id |-> nextId,
                           request |-> [id |-> nextId, kind |-> "pair", board |-> b,
                                        table |-> <<>>]]
        BY <3>1, <4>1, EmptyTable DEF Requests, Places
      <4>2. ASSUME web.at = "table"
            PROVE  web.table \in Tables /\ web.row \in DOMAIN web.table
        BY <1>4, <4>2 DEF WebShape, Idle, WebKnowsItsRow
      <4>3. CASE /\ web.at = "table"
                 /\ web' = [at |-> "request", id |-> nextId,
                            request |-> [id |-> nextId, kind |-> "release",
                                         board |-> web.table[web.row], table |-> <<>>]]
        <5>1. web.table[web.row] \in Boards
          BY <4>2, <4>3, TableRows
        <5> QED BY <3>1, <4>3, <5>1, EmptyTable DEF Requests, Places
      <4>4. CASE /\ web.at = "table"
                 /\ web' = [at |-> "request", id |-> nextId,
                            request |-> [id |-> nextId, kind |-> "arrange",
                                         board |-> NoBoard, table |-> web.table]]
        BY <3>1, <4>2, <4>4 DEF Requests, Places
      <4> QED BY <2>5, <4>1, <4>3, <4>4 DEF WebBeginsRequest
    <3>4. WebShape'
      BY <3>1, <3>3 DEF WebShape
    <3> QED BY <2>1, <3>2, <3>4
  <2>6. CASE WebFindsConnected
    BY <1>4, <2>1, <2>6 DEF WebFindsConnected, WebShape, Idle, wallVars, ghosts
  <2>7. CASE WebBeginsJob
    <3>1. /\ web.at = "connected" /\ web.row \in RowNos /\ web.gen \in Nat
          /\ web.table \in Tables /\ web.row \in DOMAIN web.table
      BY <1>4, <2>7 DEF WebBeginsJob, WebShape, Idle, WebKnowsItsRow
    <3>2. nextId \in Ids
      BY <2>7, NextIsUnborn DEF WebBeginsJob, WebKnowsItsRow
    <3>3. web.table[web.row] \in Places
      BY <3>1, TableRows DEF Places
    <3>4. CASE web' = Idle /\ UNCHANGED <<wallVars, webRest, ghosts>>
      BY <2>1, <3>4 DEF WebShape, wallVars, ghosts
    <3>5. CASE /\ meant' = [meant EXCEPT ![nextId] = web.table[web.row]]
               /\ web' = [at |-> "begun", row |-> web.row, gen |-> web.gen, id |-> nextId]
               /\ UNCHANGED <<staged, restarts, own, request, asked>>
      BY <2>1, <3>1, <3>2, <3>3, <3>5 DEF WebShape
    <3> QED BY <2>7, <3>4, <3>5 DEF WebBeginsJob, JobBegins
  <2>8. CASE WebStages
    <3>1. web.row \in RowNos /\ web.id \in Ids
      BY <1>4, <2>8 DEF WebStages, WebShape, Idle
    <3> QED BY <2>1, <2>8, <3>1 DEF WebStages, WebShape, ghosts
  <2>9. CASE WebGivesUp
    BY <2>1, <2>9 DEF WebGivesUp, WebShape, ghosts
  <2>10. CASE WebQueuesOwnJob
    <3>1. web \in [at : {"refused", "ownBegun", "ownQueued"}, id : Ids]
      BY <1>4, <2>10 DEF WebQueuesOwnJob, WebShape, Idle
    <3>2. WebShape'
      BY <2>10, <3>1 DEF WebQueuesOwnJob, WebShape
    <3> QED BY <2>1, <2>10, <3>2 DEF WebQueuesOwnJob, wallVars, ghosts
  <2>11. CASE WebSetsOwnJob
    <3>1. web.id \in Ids
      BY <1>4, <2>11 DEF WebSetsOwnJob, WebShape, Idle
    <3> QED BY <2>1, <2>11, <3>1 DEF WebSetsOwnJob, WebShape, ghosts
  <2>12. CASE WebChecksNoJob
    BY <1>4, <2>1, <2>12 DEF WebChecksNoJob, WebShape, Idle, wallVars, ghosts
  <2>13. CASE WebAsksRestart
    <3>1. /\ web.row \in RowNos /\ web.table \in Tables /\ web.row \in DOMAIN web.table
      BY <1>4, <2>13 DEF WebAsksRestart, WebShape, Idle, WebKnowsItsRow
    <3>2. web.table[web.row] \in Places
      BY <3>1, TableRows DEF Places
    <3> QED BY <2>1, <2>13, <3>1, <3>2 DEF WebAsksRestart, WebShape
  <2>14. CASE WebFindsNoPlace
    BY <2>1, <2>14 DEF WebFindsNoPlace, WebShape, wallVars, ghosts
  <2>15. CASE WebStagesRequest
    <3>1. web.id \in Ids /\ web.request \in Requests
      BY <1>4, <2>15 DEF WebStagesRequest, WebShape, Idle
    <3> QED BY <2>1, <2>15, <3>1 DEF WebStagesRequest, WebShape, ghosts
  <2> QED BY <2>3, <2>4, <2>5, <2>6, <2>7, <2>8, <2>9, <2>10, <2>11, <2>12, <2>13, <2>14, <2>15
          DEF WebActs, WebStep
<1>6. WallShape' /\ HistoryShape'
  BY <1>1, <1>2, <1>5 DEF Shapes, WallShape, HistoryShape
<1> QED BY <1>3, <1>5, <1>6 DEF Shapes

\* The tables the worker may come to are tables.
LEMMA NextTablesAreTables ==
  ASSUME NEW q \in Requests, table \in Tables, NEW next \in NextTables(q)
  PROVE  next \in Tables
<1>1. CASE q.kind = "arrange"
  BY <1>1 DEF NextTables, Requests
<1>2. CASE q.kind = "pair"
  <2>1. next = IF q.board \in ToSet(table) THEN table ELSE Append(table, q.board)
    BY <1>2 DEF NextTables
  <2>2. q.board \in Boards
    BY <1>2 DEF Requests
  <2> QED BY <2>1, <2>2, PairedTable
<1>3. CASE q.kind = "release"
  <2>1. \E i \in DOMAIN table : next = RemoveAt(table, i)
    BY <1>3 DEF NextTables
  <2> QED BY <2>1, ReleasedTable
<1> QED BY <1>1, <1>2, <1>3 DEF Requests

LEMMA WorkerShapes ==
  ASSUME Shapes, WorkerActs
  PROVE  Shapes'
<1>1. op' \in [Ids -> States] /\ nextId' \in 1..(MaxIds + 1)
  BY WorkerJobs, JobShapes DEF Shapes, WallShape
<1>2. UNCHANGED <<web, link, core, ghosts>>
  BY WorkerLeaves
<1>3. WebShape' /\ LinkShape' /\ HistoryShape'
  BY <1>2 DEF Shapes, WebShape, LinkShape, HistoryShape, ghosts
<1>4. WorkerShape /\ table \in Tables
  BY DEF Shapes, WallShape
<1>5. /\ table' \in Tables /\ generation' \in 0..MaxTables
      /\ up' \in [RowNos -> BOOLEAN] /\ staged' \in [RowNos -> Ids \cup {0}]
      /\ restarts' \subseteq RowNos /\ own' \in Ids \cup {0}
      /\ request' \in Requests \cup {NoRequest} /\ WorkerShape'
  <2>1. /\ table \in Tables /\ generation \in 0..MaxTables
        /\ up \in [RowNos -> BOOLEAN] /\ staged \in [RowNos -> Ids \cup {0}]
        /\ restarts \subseteq RowNos /\ own \in Ids \cup {0}
        /\ request \in Requests \cup {NoRequest}
    BY DEF Shapes, WallShape
  <2>2. CASE WorkerTakesRequest
    <3>1. request \in Requests
      BY <2>1, <2>2 DEF WorkerTakesRequest
    <3> QED BY <2>1, <2>2, <3>1 DEF WorkerTakesRequest, WorkerShape
  <2>3. CASE WorkerSeesOwnEnd
    <3>1. own \in Ids
      BY <2>1, <2>3 DEF WorkerSeesOwnEnd
    <3> QED BY <2>1, <2>3, <3>1 DEF WorkerSeesOwnEnd, WorkerShape, wallVars
  <2>4. CASE WorkerReadsTable
    <3>1. worker.request \in Requests
      BY <1>4, <2>4 DEF WorkerReadsTable, WorkerShape, Idle
    <3>2. PICK next \in NextTables(worker.request) :
            worker' = [at |-> "set", request |-> [worker.request EXCEPT !.table = next]]
      BY <2>4 DEF WorkerReadsTable
    <3>3. next \in Tables
      BY <1>4, <3>1, <3>2, NextTablesAreTables
    <3>4. [worker.request EXCEPT !.table = next] \in Requests
      BY <3>1, <3>3 DEF Requests
    <3>5. WorkerShape'
      BY <3>2, <3>4 DEF WorkerShape
    <3> QED BY <2>1, <2>4, <3>5 DEF WorkerReadsTable, wallVars
  <2>5. CASE WorkerFails \/ WorkerFinishes
    BY <2>1, <2>5 DEF WorkerFails, WorkerFinishes, WorkerShape
  <2>6. CASE WorkerSetsRows
    <3>1. worker.request \in Requests
      BY <1>4, <2>6 DEF WorkerSetsRows, WorkerShape, Idle
    <3>2. worker.request.table \in Tables
      BY <3>1 DEF Requests
    <3>3. generation + 1 \in 0..MaxTables
      BY <2>1, <2>6, BoundsAreNaturals DEF WorkerSetsRows
    <3> QED BY <2>1, <2>6, <3>1, <3>2, <3>3 DEF WorkerSetsRows, NewTable, WorkerShape
  <2>7. CASE WorkerIsDone
    BY <2>1, <2>7 DEF WorkerIsDone, WorkerShape
  <2>8. CASE WorkerFinishesOwn
    <3>1. worker.id \in Ids /\ worker' = [at |-> "ownEnded", id |-> worker.id]
      BY <1>4, <2>8 DEF WorkerFinishesOwn, WorkerShape, Idle
    <3> QED BY <2>1, <2>8, <3>1 DEF WorkerFinishesOwn, WorkerShape
  <2>9. CASE WorkerForgetsOwn
    BY <2>1, <2>9 DEF WorkerForgetsOwn, WorkerShape
  <2> QED BY <2>2, <2>3, <2>4, <2>5, <2>6, <2>7, <2>8, <2>9, WorkerActs DEF WorkerActs, WorkerStep
<1> QED BY <1>1, <1>3, <1>5 DEF Shapes, WallShape

LEMMA LinkShapes ==
  ASSUME Shapes, LinkIsOfItsTable, LinkActs
  PROVE  Shapes'
<1>1. op' \in [Ids -> States] /\ nextId' \in 1..(MaxIds + 1)
  BY LinkJobs, JobShapes DEF Shapes, WallShape
<1>2. UNCHANGED <<web, worker, table, generation, own, request, meant>>
  BY LinkLeaves
<1>3. WebShape' /\ WorkerShape'
  BY <1>2 DEF Shapes, WebShape, WorkerShape
<1>4. /\ up \in [RowNos -> BOOLEAN] /\ staged \in [RowNos -> Ids \cup {0}]
      /\ restarts \subseteq RowNos
      /\ link \in LinkStates /\ core \in [RowNos -> Contacts]
      /\ table \in Tables /\ generation \in Nat /\ written \in [Ids -> Places]
      /\ asked \in [RowNos -> Places]
  BY BoundsAreNaturals DEF Shapes, WallShape, LinkShape, HistoryShape
<1>5. DOMAIN link.table \subseteq RowNos /\ \A r \in DOMAIN link.table : link.table[r] \in Places
  BY <1>4, TableRows DEF Places, LinkStates
<1>6. /\ up' \in [RowNos -> BOOLEAN] /\ staged' \in [RowNos -> Ids \cup {0}]
      /\ restarts' \subseteq RowNos /\ LinkShape' /\ written' \in [Ids -> Places]
      /\ asked' \in [RowNos -> Places]
  <2>0. ASSUME NEW at \in {"top", "read", "take", "tick", "restarts", "publish"}, Goes(at)
        PROVE  link' \in LinkStates
    BY <1>4, <2>0 DEF LinkStates, Goes
  <2>1. CASE LinkBeginsPass
    <3>1. link' \in LinkStates
      <4>1. CASE Goes("read")
        BY <2>0, <4>1
      <4>2. CASE link' = [at |-> "read", row |-> 1, table |-> table, gen |-> generation,
                          hand |-> 0]
        BY <1>4, <4>2 DEF LinkStates
      <4> QED BY <2>1, <4>1, <4>2 DEF LinkBeginsPass
    <3>2. core' \in [RowNos -> Contacts]
      <4>1. NoContact \in Contacts
        BY DEF NoContact, Contacts
      <4> QED BY <1>4, <2>1, <4>1 DEF LinkBeginsPass
    <3> QED BY <1>4, <2>1, <3>1, <3>2 DEF LinkBeginsPass, LinkShape, wallVars, ghosts
  <2>2. CASE LinkGoesToJobs \/ LinkGoesToTick \/ LinkGoesToRestarts \/ LinkEndsPass
    <3>1. link' \in LinkStates
      BY <2>0, <2>2 DEF LinkGoesToJobs, LinkGoesToTick, LinkGoesToRestarts, LinkEndsPass
    <3> QED BY <1>4, <2>2, <3>1 DEF LinkGoesToJobs, LinkGoesToTick, LinkGoesToRestarts,
          LinkEndsPass, LinkShape, wallVars, ghosts
  <2>3. CASE LinkTakesJob
    <3>1. link.row \in RowNos
      BY <1>5, <2>3 DEF LinkTakesJob
    <3> DEFINE r == link.row
    <3>2. /\ staged' = [staged EXCEPT ![r] = 0]
          /\ UNCHANGED core \/ core' = [core EXCEPT ![r] = [core[r] EXCEPT !.job = staged[r]]]
          /\ \E hand \in {0, staged[r]} : link' = [link EXCEPT !.row = link.row + 1, !.hand = hand]
          /\ UNCHANGED <<up, restarts, written, asked>>
      BY <2>3 DEF LinkTakesJob, ghosts
    <3> HIDE DEF r
    <3>3. r \in RowNos /\ link.row + 1 \in Nat
      BY <1>4, <3>1 DEF r, LinkStates
    <3>4. staged[r] \in Ids \cup {0} /\ staged' \in [RowNos -> Ids \cup {0}]
      BY <1>4, <3>2, <3>3
    <3>5. core' \in [RowNos -> Contacts]
      BY <1>4, <3>2, <3>3, <3>4 DEF Contacts
    <3>6. link' \in LinkStates
      BY <1>4, <3>2, <3>3, <3>4 DEF LinkStates
    <3> QED BY <1>4, <3>2, <3>4, <3>5, <3>6 DEF LinkShape
  <2>4. CASE LinkGivesBack
    BY <1>4, <2>4 DEF LinkGivesBack, LinkShape, LinkStates, ghosts
  <2>5. CASE LinkTellsRestarts
    <3>1. link' \in LinkStates
      BY <2>0, <2>5 DEF LinkTellsRestarts
    <3> QED BY <1>4, <2>5, <3>1 DEF LinkTellsRestarts, LinkShape, Places
  <2>6. CASE LinkPublishes
    <3>1. link' = [link EXCEPT !.row = link.row + 1] /\ link.row \in RowNos
          /\ \E b \in BOOLEAN : up' = [up EXCEPT ![link.row] = b] \/ up' = up
      BY <1>4, <2>6 DEF LinkPublishes, Contacts
    <3>2. link' \in LinkStates
      BY <1>4, <3>1 DEF LinkStates
    <3> QED BY <1>4, <2>6, <3>1, <3>2 DEF LinkPublishes, LinkShape, ghosts
  <2>7. ASSUME NEW r \in RowNos, LinkReadsHello(r) \/ LinkLosesRow(r) \/ LinkReadsEnd(r)
                                 \/ LinkGivesUp(r)
        PROVE  /\ up' \in [RowNos -> BOOLEAN] /\ staged' \in [RowNos -> Ids \cup {0}]
               /\ restarts' \subseteq RowNos /\ LinkShape' /\ written' \in [Ids -> Places]
               /\ asked' \in [RowNos -> Places]
    <3>1. \E c \in Contacts : core' = [core EXCEPT ![r] = c]
      <4>1. CASE LinkReadsHello(r)
        <5>1. \/ core' = [core EXCEPT ![r] = [core[r] EXCEPT !.up = TRUE, !.known = TRUE]]
              \/ core' = [core EXCEPT ![r] = [NoContact EXCEPT !.up = TRUE, !.known = TRUE]]
          BY <4>1, <1>4 DEF LinkReadsHello
        <5>2. /\ [core[r] EXCEPT !.up = TRUE, !.known = TRUE] \in Contacts
              /\ [NoContact EXCEPT !.up = TRUE, !.known = TRUE] \in Contacts
          BY <1>4 DEF NoContact, Contacts
        <5> QED BY <5>1, <5>2
      <4>2. CASE LinkLosesRow(r)
        <5>1. core' = [core EXCEPT ![r] = [core[r] EXCEPT !.up = FALSE]]
          BY <4>2 DEF LinkLosesRow
        <5> QED BY <1>4, <5>1 DEF Contacts
      <4>3. CASE LinkReadsEnd(r) \/ LinkGivesUp(r)
        <5>1. core' = [core EXCEPT ![r] = [core[r] EXCEPT !.job = 0, !.sent = FALSE]]
          BY <1>4, <4>3 DEF LinkReadsEnd, LinkGivesUp
        <5> QED BY <1>4, <5>1 DEF Contacts
      <4> QED BY <2>7, <4>1, <4>2, <4>3
    <3>2. UNCHANGED <<up, staged, restarts, link, written, asked>>
      BY <2>7 DEF LinkReadsHello, LinkLosesRow, LinkReadsEnd, LinkGivesUp, wallVars, ghosts
    <3> QED BY <1>4, <3>1, <3>2 DEF LinkShape
  <2>8. ASSUME NEW r \in RowNos, LinkWritesJob(r)
        PROVE  /\ up' \in [RowNos -> BOOLEAN] /\ staged' \in [RowNos -> Ids \cup {0}]
               /\ restarts' \subseteq RowNos /\ LinkShape' /\ written' \in [Ids -> Places]
               /\ asked' \in [RowNos -> Places]
    <3>1. core[r].job \in Ids
      BY <1>4, <2>8 DEF LinkWritesJob, Contacts
    <3>2. core' = [core EXCEPT ![r] = [core[r] EXCEPT !.sent = TRUE]]
      BY <2>8 DEF LinkWritesJob
    <3>3. written' = [written EXCEPT ![core[r].job] = link.table[r]]
      BY <2>8 DEF LinkWritesJob
    <3>4. core' \in [RowNos -> Contacts]
      BY <1>4, <3>2 DEF Contacts
    <3>5. link.table[r] \in Places
      BY <1>5, <2>8 DEF LinkWritesJob, LinkIsOfItsTable
    <3> QED BY <1>4, <2>8, <3>1, <3>3, <3>4, <3>5 DEF LinkWritesJob, LinkShape, wallVars
  <2> QED BY <2>1, <2>2, <2>3, <2>4, <2>5, <2>6, <2>7, <2>8, LinkActs DEF LinkActs, LinkPass, LinkEvent
<1> QED BY <1>1, <1>2, <1>3, <1>6 DEF Shapes, WallShape, HistoryShape

LEMMA ShapesStep ==
  ASSUME Shapes, NextAreUnborn, WebKnowsItsRow, LinkIsOfItsTable, Next
  PROVE  Shapes'
BY WhoSteps, WebShapes, WorkerShapes, LinkShapes

-----------------------------------------------------------------------------
(* Whoever holds a job holds one that was begun *)

LEMMA JobsMove ==
  ASSUME Shapes, SomeEnd \/ OneJoins
  PROVE  /\ nextId \in Nat /\ nextId' \in Nat /\ nextId <= nextId'
         /\ \A j \in Ids : j # nextId => /\ op'[j].row = op[j].row
                                         /\ Running(j)' => Running(j)
<1>1. nextId \in Nat
  BY BoundsAreNaturals DEF Shapes, WallShape
<1>2. CASE SomeEnd
  <2>1. \A j \in Ids : \/ op'[j] = op[j]
                       \/ op'[j].st \in Ends /\ op'[j].row = op[j].row
    BY <1>2 DEF SomeEnd, JobsOnlyEnd
  <2> QED BY <1>1, <1>2, <2>1 DEF SomeEnd, Running, Ends
<1>3. CASE OneJoins
  <2>1. /\ nextId' = nextId + 1
        /\ \A j \in Ids \ {nextId} : \/ op'[j] = op[j]
                                     \/ op'[j].st = "evicted" /\ op'[j].row = op[j].row
    BY <1>3 DEF OneJoins, Joins
  <2> QED BY <1>1, <2>1 DEF Running
<1> QED BY <1>2, <1>3

LEMMA UnbornStep ==
  ASSUME Shapes, NextAreUnborn, HeldAreBegun, WebKnowsItsRow, Next
  PROVE  NextAreUnborn'
<1>1. SomeEnd \/ OneJoins
  BY StepOfJobs
<1>2. nextId \in Nat /\ nextId' \in Nat /\ nextId <= nextId'
  BY <1>1, JobsMove
<1>3. ASSUME NEW j \in Ids, j >= nextId'
      PROVE  op'[j].st = "unborn"
  <2>1. j >= nextId /\ op[j].st = "unborn"
    BY <1>2, <1>3 DEF NextAreUnborn, Ids
  <2>2. CASE SomeEnd
    BY <2>1, <2>2 DEF SomeEnd, JobsOnlyEnd, Running
  <2>3. CASE OneJoins
    <3>1. j # nextId
      BY <1>2, <1>3, <2>3 DEF OneJoins, Joins, Ids
    <3> QED BY <2>1, <2>3, <3>1 DEF OneJoins, Joins, Ends
  <2> QED BY <1>1, <2>2, <2>3
<1>4. ASSUME NEW j \in Ids, j >= nextId'
      PROVE  meant'[j] = NoBoard /\ written'[j] = NoBoard
  <2>1. j >= nextId /\ meant[j] = NoBoard /\ written[j] = NoBoard
    BY <1>2, <1>3, <1>4 DEF NextAreUnborn, Ids
  <2>2. meant \in [Ids -> Places] /\ written \in [Ids -> Places]
    BY DEF Shapes, HistoryShape
  <2>3. CASE WebActs
    <3>1. \/ meant' = meant
          \/ nextId' = nextId + 1 /\ \E b : meant' = [meant EXCEPT ![nextId] = b]
      BY <2>3 DEF WebActs, WebStarts, WebReadsTable, WebBeginsOwnJob, WebBeginsRequest, WebStep,
         WebFindsConnected, WebBeginsJob, WebStages, WebGivesUp, WebQueuesOwnJob, WebSetsOwnJob,
         WebChecksNoJob, WebAsksRestart, WebFindsNoPlace, WebStagesRequest, JobBegins, ghosts
    <3>2. nextId' = nextId + 1 => j # nextId
      BY <1>2, <1>4 DEF Ids
    <3>3. written' = written
      BY <2>3, WebLeaves
    <3> QED BY <2>1, <2>2, <3>1, <3>2, <3>3
  <2>4. CASE WorkerActs
    BY <2>1, <2>4, WorkerLeaves DEF ghosts
  <2>5. CASE LinkActs
    <3>1. meant' = meant
      BY <2>5, LinkLeaves
    <3>2. \/ written' = written
          \/ \E r \in RowNos : written' = [written EXCEPT ![core[r].job] = link.table[r]]
      BY <2>5 DEF LinkActs, LinkPass, LinkEvent, LinkBeginsPass, LinkGoesToJobs, LinkTakesJob,
         LinkGivesBack, LinkGoesToTick, LinkGoesToRestarts, LinkTellsRestarts, LinkPublishes,
         LinkEndsPass, LinkReadsHello, LinkLosesRow, LinkReadsEnd, LinkWritesJob, LinkGivesUp,
         ghosts
    <3>3. \A r \in RowNos : core[r].job \in Nat /\ core[r].job < nextId
      BY DEF HeldAreBegun, Shapes, LinkShape, Contacts, Ids
    <3>4. \A r \in RowNos : core[r].job # j
      BY <1>2, <2>1, <3>3 DEF Ids
    <3> QED BY <2>1, <2>2, <3>1, <3>2, <3>4
  <2> QED BY <2>3, <2>4, <2>5, WhoSteps
<1> QED BY <1>3, <1>4 DEF NextAreUnborn

LEMMA GoesTo ==
  ASSUME Shapes, NEW at, Goes(at)
  PROVE  /\ link'.at = at /\ link'.row = 1 /\ link'.table = link.table
         /\ link'.gen = link.gen /\ link'.hand = link.hand
BY DEF Shapes, LinkShape, LinkStates, Goes

\* The link task keeps a row's job until it has ended it, and says no job was written that is
\* not there.
LEMMA ContactsMove ==
  ASSUME Shapes, LinkIsOfItsTable, NEW r \in RowNos, LinkEvent(r) \/ LinkGivesUp(r)
  PROVE  /\ UNCHANGED <<staged, link, restarts, up, asked>>
         /\ \A k \in RowNos : k # r => core'[k] = core[k]
         /\ core'[r].job \in {core[r].job, 0}
         /\ core'[r].sent => core'[r].job # 0
         /\ \/ core'[r].job = core[r].job
            \/ FailJobs({r}, "restarted")
            \/ \E how \in Ends : Finish(core[r].job, how)
<1>1. core \in [RowNos -> Contacts] /\ core[r].sent => core[r].job # 0
  BY DEF Shapes, LinkShape, LinkIsOfItsTable
<1>2. core[r] \in Contacts
  BY <1>1 DEF Shapes, LinkShape
<1>3. UNCHANGED <<staged, link, restarts, up, asked>>
  BY DEF LinkEvent, LinkReadsHello, LinkLosesRow, LinkReadsEnd, LinkWritesJob, LinkGivesUp,
     wallVars, ghosts
<1>4. CASE LinkReadsHello(r)
  <2>1. CASE core' = [core EXCEPT ![r].up = TRUE, ![r].known = TRUE]
    <3>1. core' = [core EXCEPT ![r] = [core[r] EXCEPT !.up = TRUE, !.known = TRUE]]
      BY <1>1, <2>1
    <3>2. /\ [core[r] EXCEPT !.up = TRUE, !.known = TRUE].job = core[r].job
          /\ [core[r] EXCEPT !.up = TRUE, !.known = TRUE].sent = core[r].sent
      BY <1>2 DEF Contacts
    <3> QED BY <1>1, <1>3, <3>1, <3>2 DEF Shapes, LinkShape, LinkIsOfItsTable
  <2>2. CASE /\ core' = [core EXCEPT ![r] = [NoContact EXCEPT !.up = TRUE, !.known = TRUE]]
             /\ FailJobs({r}, "restarted")
    <3>1. /\ [NoContact EXCEPT !.up = TRUE, !.known = TRUE].job = 0
          /\ [NoContact EXCEPT !.up = TRUE, !.known = TRUE].sent = FALSE
      BY DEF NoContact
    <3> QED BY <1>3, <2>2, <3>1 DEF Shapes, LinkShape
  <2> QED BY <1>4, <2>1, <2>2 DEF LinkReadsHello
<1>5. CASE LinkLosesRow(r)
  <2>1. core' = [core EXCEPT ![r] = [core[r] EXCEPT !.up = FALSE]]
    BY <1>5 DEF LinkLosesRow
  <2>2. /\ [core[r] EXCEPT !.up = FALSE].job = core[r].job
        /\ [core[r] EXCEPT !.up = FALSE].sent = core[r].sent
    BY <1>2 DEF Contacts
  <2> QED BY <1>3, <2>1, <2>2 DEF Shapes, LinkShape, LinkIsOfItsTable
<1>6. CASE LinkReadsEnd(r) \/ LinkGivesUp(r)
  <2>1. core' = [core EXCEPT ![r].job = 0, ![r].sent = FALSE]
    BY <1>6 DEF LinkReadsEnd, LinkGivesUp
  <2>2. core' = [core EXCEPT ![r] = [core[r] EXCEPT !.job = 0, !.sent = FALSE]]
    BY <2>1 DEF Shapes, LinkShape
  <2>3. /\ [core[r] EXCEPT !.job = 0, !.sent = FALSE].job = 0
        /\ [core[r] EXCEPT !.job = 0, !.sent = FALSE].sent = FALSE
    BY <1>2 DEF Contacts
  <2>4. \E how \in Ends : Finish(core[r].job, how)
    BY <1>6, EndIsAnEnd DEF LinkReadsEnd, LinkGivesUp
  <2> QED BY <1>3, <2>2, <2>3, <2>4 DEF Shapes, LinkShape
<1>7. CASE LinkWritesJob(r)
  <2>1. core' = [core EXCEPT ![r] = [core[r] EXCEPT !.sent = TRUE]] /\ core[r].job # 0
    BY <1>7 DEF LinkWritesJob
  <2>2. [core[r] EXCEPT !.sent = TRUE].job = core[r].job
    BY <1>2 DEF Contacts
  <2> QED BY <1>3, <2>1, <2>2 DEF Shapes, LinkShape
<1> QED BY <1>4, <1>5, <1>6, <1>7 DEF LinkEvent

LEMMA HeldStep ==
  ASSUME Shapes, NextAreUnborn, HeldAreBegun, WebKnowsItsRow, LinkIsOfItsTable, Next
  PROVE  HeldAreBegun'
<1>1. nextId \in Nat /\ nextId' \in Nat /\ nextId <= nextId'
  BY StepOfJobs, JobsMove
<1>2. /\ web.at \in {"begun", "refused", "ownBegun", "ownQueued", "request"} =>
           web.id \in Nat /\ web.id < nextId
      /\ \A r \in RowNos : /\ staged[r] \in Nat /\ core[r].job \in Nat
                           /\ staged[r] < nextId /\ core[r].job < nextId
      /\ link.hand \in Nat /\ link.hand < nextId /\ own \in Nat /\ own < nextId
      /\ request.id \in Nat /\ request.id < nextId
      /\ worker.at \in {"read", "set", "stored"} =>
           worker.request.id \in Nat /\ worker.request.id < nextId
      /\ worker.at \in {"own", "ownEnded"} => worker.id \in Nat /\ worker.id < nextId
  <2>1. /\ WebShape /\ WorkerShape /\ own \in Nat /\ staged \in [RowNos -> Nat]
        /\ request.id \in Nat /\ link.hand \in Nat /\ \A r \in RowNos : core[r].job \in Nat
    BY DEF Shapes, WallShape, LinkShape, LinkStates, Contacts, Ids, Requests, NoRequest
  <2>2. web.at \in {"begun", "refused", "ownBegun", "ownQueued", "request"} => web.id \in Nat
    BY <2>1 DEF WebShape, Idle, Ids
  <2>3. worker.at \in {"read", "set", "stored"} => worker.request.id \in Nat
    BY <2>1 DEF WorkerShape, Idle, Ids, Requests
  <2>4. worker.at \in {"own", "ownEnded"} => worker.id \in Nat
    BY <2>1 DEF WorkerShape, Idle, Ids
  <2> QED BY <2>1, <2>2, <2>3, <2>4 DEF HeldAreBegun
<1>3. 0 < nextId'
  BY <1>1, <1>2
<1>4. CASE WebActs
  <2>1. UNCHANGED <<worker, link, core>>
    BY <1>4, WebLeaves
  <2>2. web'.at \in {"begun", "refused", "ownBegun", "ownQueued", "request"} =>
          web'.id < nextId'
    <3>1. CASE WebStarts \/ WebFindsConnected \/ WebChecksNoJob
      BY <3>1, <1>1, <1>2 DEF WebStarts, WebReadsTable, WebFindsConnected, WebChecksNoJob, Idle,
         Shapes, WebShape
    <3>2. CASE WebBeginsOwnJob \/ WebBeginsJob \/ WebBeginsRequest
      BY <3>2, <1>1 DEF WebBeginsOwnJob, WebBeginsJob, WebBeginsRequest, JobBegins, Idle
    <3>3. CASE WebGivesUp \/ WebSetsOwnJob \/ WebAsksRestart \/ WebFindsNoPlace
      BY <3>3 DEF WebGivesUp, WebSetsOwnJob, WebAsksRestart, WebFindsNoPlace, Idle
    <3>4. CASE WebStages \/ WebStagesRequest
      BY <1>1, <1>2, <3>4 DEF WebStages, WebStagesRequest, Idle
    <3>5. CASE WebQueuesOwnJob
      <4>1. web'.id = web.id
        BY <3>5 DEF WebQueuesOwnJob, Shapes, WebShape, Idle
      <4> QED BY <1>1, <1>2, <3>5, <4>1 DEF WebQueuesOwnJob, wallVars
    <3> QED BY <1>4, <3>1, <3>2, <3>3, <3>4, <3>5 DEF WebActs, WebStep
  <2>3. \A r \in RowNos : staged'[r] < nextId'
    <3>1. CASE WebStages
      <4>1. staged \in [RowNos -> Ids \cup {0}]
        BY DEF Shapes, WallShape
      <4> QED BY <1>1, <1>2, <3>1, <4>1 DEF WebStages
    <3>2. CASE staged' = staged
      BY <1>1, <1>2, <3>2
    <3> QED BY <1>4, <3>1, <3>2 DEF WebActs, WebStep, WebStarts, WebReadsTable, WebBeginsOwnJob,
          WebBeginsRequest, WebFindsConnected, WebBeginsJob, WebGivesUp, WebQueuesOwnJob,
          WebSetsOwnJob, WebChecksNoJob, WebAsksRestart, WebFindsNoPlace, WebStagesRequest,
          JobBegins, wallVars
  <2>4. own' < nextId' /\ request'.id < nextId'
    <3>1. own' \in {own} \/ WebSetsOwnJob
      BY <1>4 DEF WebActs, WebStep, WebStarts, WebReadsTable, WebBeginsOwnJob,
          WebBeginsRequest, WebFindsConnected, WebBeginsJob, WebGivesUp, WebQueuesOwnJob,
          WebStages, WebChecksNoJob, WebAsksRestart, WebFindsNoPlace, WebStagesRequest,
          JobBegins, wallVars
    <3>2. request' = request \/ WebStagesRequest
      BY <1>4 DEF WebActs, WebStep, WebStarts, WebReadsTable, WebBeginsOwnJob,
          WebBeginsRequest, WebFindsConnected, WebBeginsJob, WebGivesUp, WebQueuesOwnJob,
          WebStages, WebChecksNoJob, WebAsksRestart, WebFindsNoPlace, WebSetsOwnJob,
          JobBegins, wallVars
    <3>3. WebSetsOwnJob => own' < nextId'
      BY <1>1, <1>2 DEF WebSetsOwnJob
    <3>4. WebStagesRequest => request'.id < nextId'
      BY <1>1, <1>2 DEF WebStagesRequest, WebKnowsItsRow
    <3> QED BY <1>1, <1>2, <3>1, <3>2, <3>3, <3>4
  <2> QED BY <1>1, <1>2, <2>1, <2>2, <2>3, <2>4 DEF HeldAreBegun
<1>5. CASE WorkerActs
  <2>1. UNCHANGED <<web, link, core, nextId>>
    BY <1>5, WorkerLeaves
  <2>2. \A r \in RowNos : staged'[r] < nextId'
    <3>1. staged' = staged \/ staged' = [r \in RowNos |-> 0]
      BY <1>5 DEF WorkerActs, WorkerTakesRequest, WorkerSeesOwnEnd, WorkerStep, WorkerReadsTable,
         WorkerFails, WorkerSetsRows, WorkerFinishes, WorkerIsDone, WorkerFinishesOwn,
         WorkerForgetsOwn, NewTable, wallVars
    <3> QED BY <1>2, <1>3, <2>1, <3>1
  <2>3. own' < nextId' /\ request'.id < nextId'
    <3>1. own' \in {own, 0} /\ request' \in {request, NoRequest}
      BY <1>5 DEF WorkerActs, WorkerTakesRequest, WorkerSeesOwnEnd, WorkerStep, WorkerReadsTable,
         WorkerFails, WorkerSetsRows, WorkerFinishes, WorkerIsDone, WorkerFinishesOwn,
         WorkerForgetsOwn, wallVars
    <3> QED BY <1>2, <1>3, <2>1, <3>1 DEF NoRequest
  <2>4. worker'.at \in {"read", "set", "stored"} => worker'.request.id < nextId'
    <3>1. CASE WorkerTakesRequest
      BY <1>2, <2>1, <3>1 DEF WorkerTakesRequest
    <3>2. CASE WorkerReadsTable
      <4>1. worker'.request.id = worker.request.id
        BY <3>2 DEF WorkerReadsTable, Shapes, WorkerShape, Idle, Requests
      <4> QED BY <1>2, <2>1, <3>2, <4>1 DEF WorkerReadsTable
    <3>3. CASE WorkerSetsRows
      BY <1>2, <2>1, <3>3 DEF WorkerSetsRows
    <3>4. CASE worker'.at \notin {"read", "set", "stored"}
      BY <3>4
    <3>5. WorkerFinishesOwn => worker'.at = "ownEnded"
      BY DEF WorkerFinishesOwn, Shapes, WorkerShape, Idle
    <3> QED BY <1>5, <3>1, <3>2, <3>3, <3>4, <3>5 DEF WorkerActs, WorkerSeesOwnEnd, WorkerStep,
          WorkerFails, WorkerFinishes, WorkerIsDone, WorkerForgetsOwn, Idle
  <2>5. worker'.at \in {"own", "ownEnded"} => worker'.id < nextId'
    <3>1. CASE WorkerSeesOwnEnd
      BY <1>2, <2>1, <3>1 DEF WorkerSeesOwnEnd
    <3>2. CASE WorkerFinishesOwn
      <4>1. worker'.id = worker.id
        BY <3>2 DEF WorkerFinishesOwn, Shapes, WorkerShape, Idle
      <4> QED BY <1>2, <2>1, <3>2, <4>1 DEF WorkerFinishesOwn
    <3>3. CASE worker'.at \notin {"own", "ownEnded"}
      BY <3>3
    <3> QED BY <1>5, <3>1, <3>2, <3>3 DEF WorkerActs, WorkerTakesRequest, WorkerStep,
          WorkerReadsTable, WorkerFails, WorkerSetsRows, WorkerFinishes, WorkerIsDone,
          WorkerForgetsOwn, Idle
  <2> QED BY <1>2, <2>1, <2>2, <2>3, <2>4, <2>5 DEF HeldAreBegun
<1>6. CASE LinkActs
  <2>1. UNCHANGED <<web, worker, nextId, own, request>>
    BY <1>6, LinkLeaves
  <2>2. staged \in [RowNos -> Ids \cup {0}] /\ link \in LinkStates /\ core \in [RowNos -> Contacts]
    BY DEF Shapes, WallShape, LinkShape
  <2>3. /\ \A r \in RowNos : staged'[r] \in {staged[r], 0}
        /\ link'.hand \in {link.hand, 0} \/ \E r \in RowNos : link'.hand = staged[r]
        /\ \A r \in RowNos : core'[r].job \in {core[r].job, 0, staged[r]}
    <3>1. CASE LinkBeginsPass
      <4>1. core' = core \/ core' = [r \in RowNos |-> NoContact]
        BY <3>1 DEF LinkBeginsPass
      <4>2. link'.hand \in {link.hand, 0}
        <5>1. CASE Goes("read")
          BY <5>1, GoesTo
        <5>2. CASE link' = [at |-> "read", row |-> 1, table |-> table, gen |-> generation,
                            hand |-> 0]
          BY <5>2
        <5> QED BY <3>1, <5>1, <5>2 DEF LinkBeginsPass
      <4> QED BY <3>1, <4>1, <4>2 DEF LinkBeginsPass, NoContact, wallVars
    <3>2. CASE LinkGoesToJobs \/ LinkGoesToTick \/ LinkGoesToRestarts \/ LinkEndsPass
               \/ LinkTellsRestarts
      BY <2>2, <3>2 DEF LinkGoesToJobs, LinkGoesToTick, LinkGoesToRestarts, LinkEndsPass,
         LinkTellsRestarts, Goes, LinkStates, wallVars
    <3>3. CASE LinkTakesJob
      <4>1. link.row \in RowNos
        BY <2>2, <3>3, TableRows DEF LinkTakesJob, LinkStates
      <4> DEFINE r == link.row
      <4>2. /\ staged' = [staged EXCEPT ![r] = 0]
            /\ UNCHANGED core \/ core' = [core EXCEPT ![r] = [core[r] EXCEPT !.job = staged[r]]]
            /\ \E hand \in {0, staged[r]} :
                 link' = [link EXCEPT !.row = link.row + 1, !.hand = hand]
        BY <3>3 DEF LinkTakesJob
      <4>3. r \in RowNos
        BY <4>1
      <4> HIDE DEF r
      <4>4. \A k \in RowNos : staged'[k] \in {staged[k], 0}
        BY <2>2, <4>2, <4>3
      <4>5. link'.hand \in {0, staged[r]}
        BY <2>2, <4>2 DEF LinkStates
      <4>6. \A k \in RowNos : core'[k].job \in {core[k].job, 0, staged[k]}
        BY <2>2, <4>2, <4>3 DEF Contacts
      <4> QED BY <4>3, <4>4, <4>5, <4>6
    <3>4. CASE LinkGivesBack \/ LinkPublishes
      BY <2>2, <3>4 DEF LinkGivesBack, LinkPublishes, LinkStates
    <3>5. ASSUME NEW r \in RowNos, LinkEvent(r) \/ LinkGivesUp(r)
          PROVE  /\ staged' = staged /\ link' = link
                 /\ \A k \in RowNos : core'[k].job \in {core[k].job, 0}
      <4>1. UNCHANGED <<staged, link>> /\ core'[r].job \in {core[r].job, 0}
            /\ \A k \in RowNos : k # r => core'[k] = core[k]
        BY <3>5, ContactsMove
      <4> QED BY <4>1
    <3> QED BY <1>6, <3>1, <3>2, <3>3, <3>4, <3>5 DEF LinkActs, LinkPass
  <2> QED BY <1>2, <1>3, <2>1, <2>3 DEF HeldAreBegun
<1> QED BY <1>4, <1>5, <1>6, WhoSteps

-----------------------------------------------------------------------------
(* What goes by a row's number goes by the table in force *)

\* What a table change of the worker does; every other step leaves the table.
LEMMA TableMoves ==
  ASSUME Shapes, Next
  PROVE  \/ UNCHANGED <<table, generation>>
         \/ WorkerSetsRows /\ NewTable(worker.request.table)
            /\ generation \in Nat /\ generation' = generation + 1
<1>1. CASE WebActs \/ LinkActs
  BY <1>1, WebLeaves, LinkLeaves
<1>2. CASE WorkerActs
  <2>1. CASE WorkerSetsRows
    BY <2>1, BoundsAreNaturals DEF WorkerSetsRows, NewTable, Shapes, WallShape
  <2> QED BY <1>2, <2>1 DEF WorkerActs, WorkerTakesRequest, WorkerSeesOwnEnd, WorkerStep,
        WorkerReadsTable, WorkerFails, WorkerFinishes, WorkerIsDone, WorkerFinishesOwn,
        WorkerForgetsOwn, wallVars
<1> QED BY <1>1, <1>2, WhoSteps

\* What a begun job was meant for stays.
LEMMA MeantStays ==
  ASSUME Shapes, Next
  PROVE  \A j \in Ids : j # nextId => meant'[j] = meant[j]
<1>1. CASE WebActs
  <2>1. \/ meant' = meant \/ \E b : meant' = [meant EXCEPT ![nextId] = b]
    BY <1>1 DEF WebActs, WebStarts, WebReadsTable, WebBeginsOwnJob, WebBeginsRequest, WebStep,
       WebFindsConnected, WebBeginsJob, WebStages, WebGivesUp, WebQueuesOwnJob, WebSetsOwnJob,
       WebChecksNoJob, WebAsksRestart, WebFindsNoPlace, WebStagesRequest, JobBegins, ghosts
  <2> QED BY <2>1 DEF Shapes, HistoryShape
<1>2. CASE WorkerActs \/ LinkActs
  BY <1>2, WorkerLeaves, LinkLeaves DEF ghosts
<1> QED BY <1>1, <1>2, WhoSteps

\* The web server's part: while its request is of the table in force, its row is.
LEMMA WebKnowsStep ==
  ASSUME Shapes, NextAreUnborn, HeldAreBegun, WebKnowsItsRow, Next
  PROVE  WebKnowsItsRow'
<1>1. /\ nextId \in Nat /\ nextId' \in Nat /\ generation \in Nat
      /\ \A j \in Ids : j # nextId => op'[j].row = op[j].row /\ (Running(j)' => Running(j))
  BY StepOfJobs, JobsMove, BoundsAreNaturals DEF Shapes, WallShape
<1>2. web.at = "begun" => web.id \in Ids /\ web.id # nextId /\ web.gen \in Nat
  BY <1>1 DEF HeldAreBegun, Shapes, WebShape, Idle, Ids
<1>3. web.at \in {"table", "connected", "free"} => web.gen \in Nat
  BY DEF Shapes, WebShape, Idle
<1>4. ASSUME UNCHANGED web, UNCHANGED nextId \/ web = Idle
      PROVE  WebKnowsItsRow'
  <2>1. SomeEnd \/ web = Idle
    <3>1. OneJoins => nextId' = nextId + 1
      BY DEF OneJoins, Joins
    <3>2. SomeEnd \/ OneJoins
      BY StepOfJobs
    <3> QED BY <1>1, <1>4, <3>1, <3>2
  <2>2. CASE web = Idle
    BY <1>4, <2>2 DEF WebKnowsItsRow, Idle
  <2>3. CASE SomeEnd
    <3>1. \A j \in Ids : op'[j].row = op[j].row /\ (Running(j)' => Running(j))
      BY <2>3 DEF SomeEnd, JobsOnlyEnd, Running, Ends
    <3>2. web.at \in {"ownBegun", "ownQueued"} =>
            \A j \in Ids : Running(j)' /\ op'[j].row = OwnRow => j = web.id
      BY <3>1 DEF WebKnowsItsRow
    <3>3. nextId' = nextId
      BY <2>3 DEF SomeEnd
    <3>4. web.at = "begun" => op'[web.id].row = web.row /\ meant'[web.id] = meant[web.id]
      BY <1>2, <3>1, MeantStays DEF WebKnowsItsRow
    <3>5. CASE UNCHANGED <<table, generation>>
      BY <1>4, <3>2, <3>3, <3>4, <3>5 DEF WebKnowsItsRow, Running
    <3>6. CASE generation' = generation + 1
      BY <1>1, <1>2, <1>3, <1>4, <3>2, <3>3, <3>4, <3>6 DEF WebKnowsItsRow, Running
    <3> QED BY <3>5, <3>6, TableMoves
  <2> QED BY <2>1, <2>2, <2>3
<1>5. CASE WorkerActs \/ LinkActs
  BY <1>4, <1>5, WorkerLeaves, LinkLeaves
<1>6. CASE WebActs
  <2>1. UNCHANGED <<table, generation>>
    BY <1>6, WebLeaves
  <2>2. ASSUME web' = Idle
        PROVE  WebKnowsItsRow'
    BY <2>2 DEF WebKnowsItsRow, Idle
  <2>3. ASSUME web'.at = "refused"
        PROVE  WebKnowsItsRow'
    BY <2>3 DEF WebKnowsItsRow
  <2>4. CASE WebStarts
    <3>1. PICK kind : WebReadsTable(kind)
      BY <2>4 DEF WebStarts
    <3> QED BY <1>1, <2>1, <3>1 DEF WebReadsTable, WebKnowsItsRow, wallVars
  <2>5. CASE WebBeginsOwnJob
    <3>1. CASE /\ ~RunningOn(OwnRow) /\ Begin(OwnRow, op') /\ nextId' = nextId + 1
               /\ web' = [at |-> "ownBegun", id |-> nextId]
      <4>1. \A j \in Ids : j # nextId => ~(Running(j)' /\ op'[j].row = OwnRow)
        BY <1>1, <3>1 DEF RunningOn
      <4> QED BY <3>1, <4>1 DEF WebKnowsItsRow, Running
    <3> QED BY <2>2, <2>5, <3>1 DEF WebBeginsOwnJob, JobBegins
  <2>6. CASE WebBeginsRequest
    BY <2>6 DEF WebBeginsRequest, WebKnowsItsRow
  <2>7. CASE WebFindsConnected \/ WebChecksNoJob
    <3>1. \/ web' = Idle
          \/ /\ web.at \in {"table", "connected", "free"}
             /\ web'.at \in {"connected", "free"} /\ web'.row = web.row
             /\ web'.gen = web.gen /\ web'.table = web.table
      BY <2>7 DEF WebFindsConnected, WebChecksNoJob, Shapes, WebShape, Idle
    <3>2. UNCHANGED nextId
      BY <2>7 DEF WebFindsConnected, WebChecksNoJob, wallVars
    <3> QED BY <2>1, <2>2, <3>1, <3>2 DEF WebKnowsItsRow
  <2>8. CASE WebBeginsJob
    <3>1. CASE /\ Begin(web.row, op') /\ nextId' = nextId + 1
               /\ meant' = [meant EXCEPT ![nextId] = web.table[web.row]]
               /\ web' = [at |-> "begun", row |-> web.row, gen |-> web.gen, id |-> nextId]
      <4>1. web.at = "connected" /\ web.gen \in Nat /\ web.row \in RowNos
        BY <2>8 DEF WebBeginsJob, Shapes, WebShape, Idle
      <4>2. nextId \in Ids /\ op[nextId].st = "unborn" /\ op \in [Ids -> States]
        BY <4>1, NextIsUnborn DEF WebKnowsItsRow
      <4>3. op'[nextId].row = web.row
        <5>1. web.row \in RowNos \cup {NoRow, OwnRow}
          BY <4>1
        <5>2. Joins(web.row)
          BY <3>1, <4>2, <5>1, BeginJoins
        <5> QED BY <5>2 DEF Joins
      <4>4. meant'[nextId] = web.table[web.row]
        BY <3>1, <4>2 DEF Shapes, HistoryShape
      <4> QED BY <2>1, <3>1, <4>1, <4>3, <4>4 DEF WebKnowsItsRow
    <3> QED BY <2>2, <2>8, <3>1 DEF WebBeginsJob, JobBegins
  <2>9. CASE WebStages \/ WebStagesRequest
    BY <2>2, <2>3, <2>9 DEF WebStages, WebStagesRequest
  <2>10. CASE WebGivesUp \/ WebSetsOwnJob \/ WebAsksRestart \/ WebFindsNoPlace
    BY <2>2, <2>10 DEF WebGivesUp, WebSetsOwnJob, WebAsksRestart, WebFindsNoPlace
  <2>11. CASE WebQueuesOwnJob
    <3>1. web'.id = web.id /\ web.at = "ownBegun" /\ web'.at \in {"ownQueued", "refused"}
      BY <2>11 DEF WebQueuesOwnJob, Shapes, WebShape, Idle
    <3>2. op' = op
      BY <2>11 DEF WebQueuesOwnJob, wallVars
    <3> QED BY <3>1, <3>2 DEF WebKnowsItsRow, Running
  <2> QED BY <1>6, <2>4, <2>5, <2>6, <2>7, <2>8, <2>9, <2>10, <2>11 DEF WebActs, WebStep
<1> QED BY <1>5, <1>6, WhoSteps

\* A job is staged, and a restart asked for, only while the table it was asked with is in force.
LEMMA SlotsStep ==
  ASSUME Shapes, NextAreUnborn, HeldAreBegun, WebKnowsItsRow, SlotsAreOfTable, Next
  PROVE  SlotsAreOfTable'
<1>1. /\ staged \in [RowNos -> Ids \cup {0}] /\ asked \in [RowNos -> Places]
      /\ restarts \subseteq RowNos /\ nextId \in Nat
  BY BoundsAreNaturals DEF Shapes, WallShape, HistoryShape
<1>2. \A r \in RowNos : staged[r] # 0 => meant'[staged[r]] = meant[staged[r]]
  BY <1>1, MeantStays DEF HeldAreBegun, Ids
<1>3. ASSUME UNCHANGED <<table, restarts, asked>>, \A r \in RowNos : staged'[r] \in {staged[r], 0}
      PROVE  SlotsAreOfTable'
  BY <1>1, <1>2, <1>3 DEF SlotsAreOfTable
<1>4. CASE WebActs
  <2>1. CASE WebStages
    <3>1. CASE UNCHANGED staged
      BY <1>3, <2>1, <3>1, WebLeaves, <1>4 DEF WebStages, ghosts
    <3>2. CASE web.gen = generation /\ staged' = [staged EXCEPT ![web.row] = web.id]
      <4>1. /\ web.row \in DOMAIN table /\ meant[web.id] = table[web.row]
        BY <2>1, <3>2 DEF WebStages, WebKnowsItsRow
      <4>2. UNCHANGED <<table, restarts, asked, meant>>
        BY <2>1 DEF WebStages, ghosts
      <4> QED BY <1>1, <3>2, <4>1, <4>2 DEF SlotsAreOfTable
    <3> QED BY <2>1, <3>1, <3>2 DEF WebStages
  <2>2. CASE WebAsksRestart
    <3>1. CASE UNCHANGED <<restarts, asked>>
      BY <1>3, <2>2, <3>1 DEF WebAsksRestart
    <3>2. CASE /\ web.gen = generation /\ restarts' = restarts \cup {web.row}
               /\ asked' = [asked EXCEPT ![web.row] = web.table[web.row]]
      <4>1. web.row \in DOMAIN table /\ web.table = table
        BY <2>2, <3>2 DEF WebAsksRestart, WebKnowsItsRow
      <4>2. web.row \in RowNos
        BY <2>2 DEF WebAsksRestart, Shapes, WebShape, Idle
      <4>3. UNCHANGED <<table, staged, meant>>
        BY <2>2 DEF WebAsksRestart
      <4> QED BY <1>1, <3>2, <4>1, <4>2, <4>3 DEF SlotsAreOfTable
    <3> QED BY <2>2, <3>1, <3>2 DEF WebAsksRestart
  <2>3. UNCHANGED <<restarts, asked, staged>> \/ WebStages \/ WebAsksRestart
    BY <1>4 DEF WebActs, WebStep, WebStarts, WebReadsTable, WebBeginsOwnJob,
          WebBeginsRequest, WebFindsConnected, WebBeginsJob, WebGivesUp, WebQueuesOwnJob,
          WebSetsOwnJob, WebChecksNoJob, WebFindsNoPlace, WebStagesRequest,
          JobBegins, wallVars, ghosts
  <2> QED BY <1>3, <1>4, <2>1, <2>2, <2>3, WebLeaves
<1>5. CASE WorkerActs
  <2>1. CASE WorkerSetsRows
    BY <2>1 DEF WorkerSetsRows, NewTable, SlotsAreOfTable
  <2>2. UNCHANGED <<table, staged, restarts>> \/ WorkerSetsRows
    BY <1>5 DEF WorkerActs, WorkerTakesRequest, WorkerSeesOwnEnd, WorkerStep, WorkerReadsTable,
         WorkerFails, WorkerFinishes, WorkerIsDone, WorkerFinishesOwn, WorkerForgetsOwn, wallVars
  <2> QED BY <1>3, <1>5, <2>1, <2>2, WorkerLeaves DEF ghosts
<1>6. CASE LinkActs
  <2>1. CASE LinkTellsRestarts
    BY <1>1, <2>1 DEF LinkTellsRestarts, SlotsAreOfTable
  <2>2. CASE LinkTakesJob
    BY <1>1, <1>3, <2>2 DEF LinkTakesJob, ghosts
  <2>3. UNCHANGED <<staged, restarts, asked>> \/ LinkTellsRestarts \/ LinkTakesJob
    BY <1>6 DEF LinkActs, LinkPass, LinkEvent, LinkBeginsPass, LinkGoesToJobs,
         LinkGivesBack, LinkGoesToTick, LinkGoesToRestarts, LinkPublishes,
         LinkEndsPass, LinkReadsHello, LinkLosesRow, LinkReadsEnd, LinkWritesJob, LinkGivesUp,
         wallVars, ghosts
  <2> QED BY <1>3, <1>6, <2>1, <2>2, <2>3, LinkLeaves
<1> QED BY <1>4, <1>5, <1>6, WhoSteps

\* The link task takes a staged job up only on the table it is staged for.
LEMMA LinkTableStep ==
  ASSUME Shapes, NextAreUnborn, HeldAreBegun, WebKnowsItsRow, SlotsAreOfTable,
         LinkIsOfItsTable, LatePassFindsNothing, Next
  PROVE  LinkIsOfItsTable'
<1>1. /\ link \in LinkStates /\ core \in [RowNos -> Contacts] /\ generation \in Nat
      /\ nextId \in Nat /\ staged \in [RowNos -> Ids \cup {0}]
  BY BoundsAreNaturals DEF Shapes, LinkShape, WallShape
<1>2. link.gen \in Nat /\ link.hand \in Ids \cup {0} /\ \A r \in RowNos : core[r] \in Contacts
  BY <1>1 DEF LinkStates
<1>3. \A r \in RowNos : core[r].job # 0 => meant'[core[r].job] = meant[core[r].job]
  BY <1>1, <1>2, MeantStays DEF HeldAreBegun, Contacts, Ids
<1>4. CASE WebActs \/ WorkerActs
  <2>1. UNCHANGED <<link, core>>
    BY <1>4, WebLeaves, WorkerLeaves
  <2>2. CASE UNCHANGED <<table, generation>>
    BY <1>3, <2>1, <2>2 DEF LinkIsOfItsTable
  <2>3. CASE generation' = generation + 1
    BY <1>1, <1>2, <1>3, <2>1, <2>3 DEF LinkIsOfItsTable
  <2> QED BY <2>2, <2>3, TableMoves
<1>5. CASE LinkActs
  <2>1. UNCHANGED <<table, generation, meant>>
    BY <1>5, LinkLeaves
  <2>2. ASSUME NEW at, Goes(at), UNCHANGED core, link.hand = 0
        PROVE  LinkIsOfItsTable'
    BY <2>1, <2>2, GoesTo DEF LinkIsOfItsTable
  <2>3. CASE LinkBeginsPass
    <3>1. CASE Goes("read") /\ UNCHANGED core
      <4>1. link.hand = 0
        BY <2>3 DEF LinkBeginsPass, LinkIsOfItsTable
      <4> QED BY <2>2, <3>1, <4>1
    <3>2. CASE /\ link' = [at |-> "read", row |-> 1, table |-> table, gen |-> generation,
                           hand |-> 0]
               /\ core' = [r \in RowNos |-> NoContact]
      BY <1>1, <2>1, <3>2 DEF LinkIsOfItsTable, NoContact
    <3> QED BY <2>3, <3>1, <3>2 DEF LinkBeginsPass
  <2>4. CASE LinkGoesToJobs \/ LinkGoesToTick \/ LinkGoesToRestarts \/ LinkEndsPass
             \/ LinkTellsRestarts
    <3>1. link.hand = 0
      BY <2>4 DEF LinkGoesToJobs, LinkGoesToTick, LinkGoesToRestarts, LinkEndsPass,
         LinkTellsRestarts, LinkIsOfItsTable
    <3> QED BY <2>2, <2>4, <3>1 DEF LinkGoesToJobs, LinkGoesToTick, LinkGoesToRestarts,
          LinkEndsPass, LinkTellsRestarts
  <2>5. CASE LinkTakesJob
    <3>1. link.row \in RowNos /\ link.at = "take" /\ link.hand = 0
      BY <1>1, <2>5, TableRows DEF LinkTakesJob, LinkStates
    <3> DEFINE r == link.row
    <3>2. /\ link'.at = "take" /\ link'.table = link.table /\ link'.gen = link.gen
      BY <1>1, <2>5 DEF LinkTakesJob, LinkStates
    <3>3. \/ UNCHANGED core
          \/ staged[r] # 0 /\ core' = [core EXCEPT ![r] = [core[r] EXCEPT !.job = staged[r]]]
      BY <2>5 DEF LinkTakesJob
    <3>4. r \in RowNos
      BY <3>1
    <3>5. staged[r] # 0 => link.gen = generation
      BY <3>1 DEF LatePassFindsNothing
    <3>6. staged[r] # 0 => r \in DOMAIN link.table /\ meant[staged[r]] = link.table[r]
      BY <3>4, <3>5 DEF SlotsAreOfTable, LinkIsOfItsTable
    <3> HIDE DEF r
    <3>7. CASE UNCHANGED core
      BY <2>1, <3>2, <3>7 DEF LinkIsOfItsTable
    <3>8. CASE staged[r] # 0 /\ core' = [core EXCEPT ![r] = [core[r] EXCEPT !.job = staged[r]]]
      <4>1. core'[r].job = staged[r] /\ \A k \in RowNos : k # r => core'[k] = core[k]
        BY <1>1, <1>2, <3>4, <3>8 DEF Contacts
      <4>2. \A k \in RowNos : core'[k].job # 0 => k \in DOMAIN link.table
                                                  /\ meant[core'[k].job] = link.table[k]
        BY <3>6, <3>8, <4>1 DEF LinkIsOfItsTable
      <4>3. \A k \in RowNos : core'[k].sent => core'[k].job # 0
        BY <3>8, <4>1 DEF LinkIsOfItsTable
      <4> QED BY <2>1, <3>2, <4>2, <4>3 DEF LinkIsOfItsTable
    <3> QED BY <3>3, <3>7, <3>8
  <2>6. CASE LinkGivesBack \/ LinkPublishes
    <3>1. /\ link'.at = link.at /\ link'.table = link.table /\ link'.gen = link.gen
          /\ link'.hand \in {0, link.hand} /\ UNCHANGED core
      BY <1>1, <2>6 DEF LinkGivesBack, LinkPublishes, LinkStates
    <3> QED BY <2>1, <3>1 DEF LinkIsOfItsTable
  <2>7. ASSUME NEW r \in RowNos, LinkEvent(r) \/ LinkGivesUp(r)
        PROVE  LinkIsOfItsTable'
    <3>1. /\ UNCHANGED link /\ \A k \in RowNos : k # r => core'[k] = core[k]
          /\ core'[r].job \in {core[r].job, 0} /\ (core'[r].sent => core'[r].job # 0)
      BY <2>7, ContactsMove
    <3> QED BY <2>1, <3>1 DEF LinkIsOfItsTable
  <2> QED BY <1>5, <2>3, <2>4, <2>5, <2>6, <2>7 DEF LinkActs, LinkPass
<1> QED BY <1>4, <1>5, WhoSteps

\* While a pass takes jobs or restarts on a table that is not in force any more, nothing is
\* published as connected, so nothing is asked for.
LEMMA LatePassStep ==
  ASSUME Shapes, WebKnowsItsRow, SlotsAreOfTable, LinkIsOfItsTable, LatePassFindsNothing, Next
  PROVE  LatePassFindsNothing'
<1>1. /\ link \in LinkStates /\ generation \in Nat /\ up \in [RowNos -> BOOLEAN]
      /\ staged \in [RowNos -> Ids \cup {0}]
  BY BoundsAreNaturals DEF Shapes, LinkShape, WallShape
<1>2. web.at \in {"table", "connected", "free", "begun"} =>
        web.gen \in Nat /\ web.gen <= generation /\ web.row \in RowNos
  BY DEF Shapes, WebShape, Idle, WebKnowsItsRow
<1> SUFFICES ASSUME (link.at \in {"take", "restarts"} /\ link.gen # generation)'
             PROVE  /\ restarts' = {}
                    /\ \A r \in RowNos : ~up'[r] /\ staged'[r] = 0
                    /\ web'.at \in {"connected", "free", "begun"} => web'.gen # generation'
  BY DEF LatePassFindsNothing
<1>3. CASE WebActs
  <2>1. UNCHANGED <<link, generation, up>>
    BY <1>3, WebLeaves
  <2>2. /\ restarts = {} /\ \A r \in RowNos : ~up[r] /\ staged[r] = 0
        /\ web.at \in {"connected", "free", "begun"} => web.gen # generation
    BY <2>1 DEF LatePassFindsNothing
  <2>3. staged' = staged
    <3>1. WebStages => staged' = staged
      BY <2>2 DEF WebStages
    <3> QED BY <1>3, <3>1 DEF WebActs, WebStep, WebStarts, WebReadsTable, WebBeginsOwnJob,
          WebBeginsRequest, WebFindsConnected, WebBeginsJob, WebGivesUp, WebQueuesOwnJob,
          WebSetsOwnJob, WebChecksNoJob, WebAsksRestart, WebFindsNoPlace, WebStagesRequest,
          JobBegins, wallVars
  <2>4. restarts' = restarts
    <3>1. WebAsksRestart => restarts' = restarts
      BY <2>2 DEF WebAsksRestart
    <3> QED BY <1>3, <3>1 DEF WebActs, WebStep, WebStarts, WebReadsTable, WebBeginsOwnJob,
          WebBeginsRequest, WebFindsConnected, WebBeginsJob, WebGivesUp, WebQueuesOwnJob,
          WebSetsOwnJob, WebChecksNoJob, WebStages, WebFindsNoPlace, WebStagesRequest,
          JobBegins, wallVars
  <2>5. web'.at \in {"connected", "free", "begun"} => web'.gen # generation
    <3>1. CASE WebStarts \/ WebBeginsOwnJob \/ WebBeginsRequest
      BY <3>1 DEF WebStarts, WebReadsTable, WebBeginsOwnJob, WebBeginsRequest, JobBegins, Idle
    <3>2. CASE WebFindsConnected
      <4>1. ~up[web.row]
        BY <1>2, <2>2, <3>2 DEF WebFindsConnected
      <4> QED BY <3>2, <4>1 DEF WebFindsConnected, Idle
    <3>3. CASE WebBeginsJob
      BY <2>2, <3>3 DEF WebBeginsJob, JobBegins, Idle
    <3>4. CASE WebChecksNoJob
      <4>1. web' = Idle \/ web'.gen = web.gen
        BY <3>4 DEF WebChecksNoJob, Shapes, WebShape, Idle
      <4> QED BY <2>2, <3>4, <4>1 DEF WebChecksNoJob, Idle
    <3>5. CASE WebQueuesOwnJob
      BY <3>5 DEF WebQueuesOwnJob, Shapes, WebShape, Idle
    <3> QED BY <1>3, <3>1, <3>2, <3>3, <3>4, <3>5 DEF WebActs, WebStep, WebStages, WebGivesUp,
          WebSetsOwnJob, WebAsksRestart, WebFindsNoPlace, WebStagesRequest, Idle
  <2> QED BY <2>1, <2>2, <2>3, <2>4, <2>5
<1>4. CASE WorkerActs
  <2>1. UNCHANGED <<web, link>>
    BY <1>4, WorkerLeaves
  <2>2. CASE WorkerSetsRows
    <3>1. generation' = generation + 1
      BY <2>2 DEF WorkerSetsRows, NewTable
    <3> QED BY <1>1, <1>2, <2>1, <2>2, <3>1 DEF WorkerSetsRows, NewTable
  <2>3. UNCHANGED <<generation, up, staged, restarts>> \/ WorkerSetsRows
    BY <1>4 DEF WorkerActs, WorkerTakesRequest, WorkerSeesOwnEnd, WorkerStep, WorkerReadsTable,
         WorkerFails, WorkerFinishes, WorkerIsDone, WorkerFinishesOwn, WorkerForgetsOwn, wallVars
  <2> QED BY <2>1, <2>2, <2>3 DEF LatePassFindsNothing
<1>5. CASE LinkActs
  <2>1. UNCHANGED <<web, generation>>
    BY <1>5, LinkLeaves
  <2>2. ASSUME link'.at = link.at, link'.gen = link.gen, restarts' \in {restarts, {}},
               UNCHANGED up, \A r \in RowNos : staged'[r] \in {staged[r], 0}
        PROVE  /\ restarts' = {}
               /\ \A r \in RowNos : ~up'[r] /\ staged'[r] = 0
               /\ web'.at \in {"connected", "free", "begun"} => web'.gen # generation'
    BY <2>1, <2>2 DEF LatePassFindsNothing
  <2>3. CASE LinkGoesToJobs \/ LinkGoesToRestarts
    <3>1. link'.gen = link.gen
      BY <2>3, GoesTo DEF LinkGoesToJobs, LinkGoesToRestarts
    <3>2. link.gen # generation
      BY <2>1, <3>1
    <3>3. link'.at \in {"tick", "publish"}
      BY <2>3, <3>2, GoesTo DEF LinkGoesToJobs, LinkGoesToRestarts
    <3> QED BY <3>3
  <2>4. CASE LinkBeginsPass
    <3>1. link'.at = "read"
      BY <2>4, GoesTo DEF LinkBeginsPass
    <3> QED BY <3>1
  <2>5. CASE LinkGoesToTick \/ LinkTellsRestarts \/ LinkEndsPass
    <3>1. link'.at \in {"tick", "publish", "top"}
      BY <2>5, GoesTo DEF LinkGoesToTick, LinkTellsRestarts, LinkEndsPass
    <3> QED BY <3>1
  <2>6. CASE LinkTakesJob
    <3>1. link'.at = link.at /\ link'.gen = link.gen
      BY <1>1, <2>6 DEF LinkTakesJob, LinkStates
    <3>2. \A r \in RowNos : staged'[r] \in {staged[r], 0}
      BY <1>1, <2>6 DEF LinkTakesJob
    <3> QED BY <2>2, <2>6, <3>1, <3>2 DEF LinkTakesJob
  <2>7. CASE LinkGivesBack
    <3>1. link'.at = link.at /\ link'.gen = link.gen
      BY <1>1, <2>7 DEF LinkGivesBack, LinkStates
    <3> QED BY <2>2, <2>7, <3>1 DEF LinkGivesBack
  <2>8. CASE LinkPublishes
    <3>1. link'.at = "publish"
      BY <1>1, <2>8 DEF LinkPublishes, LinkStates
    <3> QED BY <3>1
  <2>9. ASSUME NEW r \in RowNos, LinkEvent(r) \/ LinkGivesUp(r)
        PROVE  /\ restarts' = {}
               /\ \A k \in RowNos : ~up'[k] /\ staged'[k] = 0
               /\ web'.at \in {"connected", "free", "begun"} => web'.gen # generation'
    BY <2>2, <2>9, ContactsMove
  <2> QED BY <1>5, <2>3, <2>4, <2>5, <2>6, <2>7, <2>8, <2>9 DEF LinkActs, LinkPass
<1> QED BY <1>3, <1>4, <1>5, WhoSteps

-----------------------------------------------------------------------------
(* The table of jobs has room *)

LEMMA BeginKeepsPlaces ==
  ASSUME op \in [Ids -> States], nextId \in Ids, op[nextId].st = "unborn",
         NEW row, Begin(row, op'), PlacesAreKept
  PROVE  PlacesAreKept'
<1> DEFINE T     == {j \in Ids : op[j].st \notin {"unborn", "evicted"}}
           U     == {j \in Ids : op'[j].st \notin {"unborn", "evicted"}}
           new   == [st |-> "running", row |-> row]
           ended == {j \in Ids : InTable(j) /\ ~Running(j)}
<1>1. IsFiniteSet(Ids)
  BY BoundsAreNaturals, FS_Interval DEF Ids
<1>2. IsFiniteSet(T) /\ Cardinality(T) \in Nat
  BY <1>1, FS_Subset, FS_CardinalityType
<1>3. T = {j \in Ids : InTable(j)} /\ Cardinality(T) <= Kept
  BY DEF PlacesAreKept, InTable
<1>4. PlacesAreKept' <=> Cardinality(U) <= Kept
  BY DEF PlacesAreKept, InTable
<1>5. nextId \notin T /\ Kept \in Nat
  BY BoundsAreNaturals
<1>6. CASE Cardinality(T) < Kept /\ op' = [op EXCEPT ![nextId] = new]
  <2>1. U = T \cup {nextId}
    BY <1>6
  <2>2. Cardinality(U) = Cardinality(T) + 1
    BY <1>2, <1>5, <2>1, FS_AddElement
  <2> QED BY <1>2, <1>4, <1>5, <1>6, <2>2
<1>7. CASE \E old \in ended : op' = [op EXCEPT ![old].st = "evicted", ![nextId] = new]
  <2>1. PICK old \in ended : op' = [op EXCEPT ![old].st = "evicted", ![nextId] = new]
    BY <1>7
  <2>2. old \in T /\ old # nextId
    BY <1>3, <1>5
  <2>3. op' = [[op EXCEPT ![old] = [op[old] EXCEPT !.st = "evicted"]] EXCEPT ![nextId] = new]
    BY <2>1, <2>2
  <2>4. /\ op'[nextId].st = "running" /\ op'[old].st = "evicted"
        /\ \A j \in Ids : j # nextId /\ j # old => op'[j] = op[j]
    BY <2>2, <2>3 DEF States
  <2>5. U = (T \ {old}) \cup {nextId}
    BY <2>2, <2>4
  <2>6. /\ IsFiniteSet(T \ {old}) /\ Cardinality(T \ {old}) = Cardinality(T) - 1
    BY <1>2, <2>2, FS_RemoveElement
  <2>7. Cardinality((T \ {old}) \cup {nextId}) = Cardinality(T \ {old}) + 1
    <3>1. nextId \notin T \ {old}
      BY <1>5
    <3> HIDE DEF T
    <3> QED BY <2>6, <3>1, FS_AddElement
  <2>8. Cardinality(U) = Cardinality(T)
    <3>1. Cardinality(U) = Cardinality((T \ {old}) \cup {nextId})
      BY <2>5
    <3> HIDE DEF T, U
    <3> QED BY <1>2, <2>6, <2>7, <3>1
  <2> QED BY <1>3, <1>4, <2>8
<1>8. \/ Cardinality({j \in Ids : InTable(j)}) < Kept /\ op' = [op EXCEPT ![nextId] = new]
      \/ \E old \in ended : op' = [op EXCEPT ![old].st = "evicted", ![nextId] = new]
  BY Zenon DEF Begin
<1> QED BY <1>3, <1>6, <1>7, <1>8

LEMMA PlacesStep ==
  ASSUME Shapes, NextAreUnborn, WebKnowsItsRow, PlacesAreKept, Next
  PROVE  PlacesAreKept'
<1>1. CASE SomeEnd
  <2>1. \A j \in Ids : InTable(j)' <=> InTable(j)
    BY <1>1 DEF SomeEnd, JobsOnlyEnd, InTable, Running, Ends
  <2>2. {j \in Ids : InTable(j)}' = {j \in Ids : InTable(j)}
    BY <2>1
  <2> QED BY <2>2 DEF PlacesAreKept
<1>2. CASE WebActs /\ OneJoins
  <2>1. \E row : Begin(row, op')
    <3>1. OneJoins => nextId' = nextId + 1 /\ nextId \in Nat
      BY BoundsAreNaturals DEF OneJoins, Joins, Shapes, WallShape
    <3>2. nextId' # nextId
      BY <1>2, <3>1
    <3> QED BY <1>2, <3>2 DEF WebActs, WebStep, WebStarts, WebReadsTable, WebBeginsOwnJob,
          WebBeginsRequest, WebFindsConnected, WebBeginsJob, WebGivesUp, WebQueuesOwnJob,
          WebSetsOwnJob, WebChecksNoJob, WebStages, WebFindsNoPlace, WebStagesRequest,
          WebAsksRestart, JobBegins, wallVars
  <2>2. nextId \in Ids
    BY <1>2 DEF OneJoins, Joins
  <2>3. nextId <= MaxIds
    BY <2>2, BoundsAreNaturals DEF Ids
  <2> QED BY <2>1, <2>3, NextIsUnborn, BeginKeepsPlaces
<1> QED BY <1>1, <1>2, WhoSteps, WebJobs, WorkerJobs, LinkJobs

\* The job the worker watches is on the master's own units.
LEMMA OwnStep ==
  ASSUME Shapes, NextAreUnborn, HeldAreBegun, WebKnowsItsRow, OwnIsOwn, Next
  PROVE  OwnIsOwn'
<1>1. \A j \in Ids : j < nextId => op'[j].row = op[j].row
  BY StepOfJobs, JobsMove DEF Ids
<1>2. /\ own \in Ids \cup {0} /\ own < nextId /\ 0 \notin Ids
      /\ web.at \in {"ownBegun", "ownQueued"} => web.id \in Ids /\ web.id < nextId
  BY DEF Shapes, WallShape, WebShape, Idle, HeldAreBegun, Ids
<1>3. own # 0 => op'[own].row = OwnRow
  BY <1>1, <1>2 DEF OwnIsOwn
<1>4. web.at \in {"ownBegun", "ownQueued"} => op'[web.id].row = OwnRow
  BY <1>1, <1>2 DEF OwnIsOwn
<1>5. CASE WorkerActs \/ LinkActs
  <2>1. UNCHANGED web
    BY <1>5, WorkerLeaves, LinkLeaves
  <2>2. own' \in {own, 0}
    <3>1. WorkerActs => own' \in {own, 0}
      BY DEF WorkerActs, WorkerTakesRequest, WorkerSeesOwnEnd, WorkerStep, WorkerReadsTable,
         WorkerFails, WorkerSetsRows, WorkerFinishes, WorkerIsDone, WorkerFinishesOwn,
         WorkerForgetsOwn, wallVars
    <3> QED BY <1>5, <3>1, LinkLeaves
  <2> QED BY <1>3, <1>4, <2>1, <2>2 DEF OwnIsOwn
<1>6. CASE WebActs
  <2>1. own' # 0 => op'[own'].row = OwnRow
    <3>1. CASE WebSetsOwnJob
      BY <1>4, <3>1 DEF WebSetsOwnJob
    <3>2. own' = own \/ WebSetsOwnJob
      BY <1>6 DEF WebActs, WebStep, WebStarts, WebReadsTable, WebBeginsOwnJob,
          WebBeginsRequest, WebFindsConnected, WebBeginsJob, WebGivesUp, WebQueuesOwnJob,
          WebChecksNoJob, WebStages, WebFindsNoPlace, WebStagesRequest, WebAsksRestart,
          JobBegins, wallVars
    <3> QED BY <1>3, <3>1, <3>2
  <2>2. web'.at \in {"ownBegun", "ownQueued"} => op'[web'.id].row = OwnRow
    <3>1. CASE WebBeginsOwnJob
      <4>1. CASE /\ Begin(OwnRow, op') /\ nextId' = nextId + 1
                 /\ web' = [at |-> "ownBegun", id |-> nextId]
        <5>1. nextId <= MaxIds
          BY <3>1 DEF WebBeginsOwnJob
        <5>2. Joins(OwnRow)
          BY <4>1, <5>1, NextIsUnborn, BeginJoins
        <5> QED BY <4>1, <5>2 DEF Joins
      <4> QED BY <3>1, <4>1 DEF WebBeginsOwnJob, JobBegins, Idle
    <3>2. CASE WebQueuesOwnJob
      <4>1. web'.id = web.id /\ web.at = "ownBegun"
        BY <3>2 DEF WebQueuesOwnJob, Shapes, WebShape, Idle
      <4> QED BY <1>4, <4>1
    <3>3. CASE WebFindsConnected \/ WebChecksNoJob
      <4>1. web'.at \notin {"ownBegun", "ownQueued"}
        BY <3>3 DEF WebFindsConnected, WebChecksNoJob, Shapes, WebShape, Idle
      <4> QED BY <4>1
    <3> QED BY <1>6, <3>1, <3>2, <3>3 DEF WebActs, WebStep, WebStarts, WebReadsTable,
          WebBeginsRequest, WebBeginsJob, WebGivesUp, WebSetsOwnJob, WebStages, WebFindsNoPlace,
          WebStagesRequest, WebAsksRestart, JobBegins, Idle
  <2> QED BY <2>1, <2>2 DEF OwnIsOwn
<1> QED BY <1>5, <1>6, WhoSteps

\* A watched job that the worker has dealt with has ended.
LEMMA OwnEndStep ==
  ASSUME Shapes, NextAreUnborn, HeldAreBegun, WebKnowsItsRow, OwnEndIsEnd, Next
  PROVE  OwnEndIsEnd'
<1>1. \A j \in Ids : j # nextId => (Running(j)' => Running(j))
  BY StepOfJobs, JobsMove
<1>2. worker.at = "ownEnded" => worker.id \in Ids /\ worker.id # nextId
  <2>1. worker.at = "ownEnded" => worker.id \in Ids
    BY DEF Shapes, WorkerShape, Idle
  <2> QED BY <2>1, BoundsAreNaturals DEF HeldAreBegun, Ids, Shapes, WallShape
<1>3. CASE UNCHANGED worker
  BY <1>1, <1>2, <1>3 DEF OwnEndIsEnd, Running
<1>4. CASE WorkerFinishesOwn
  <2>1. worker.id \in Ids /\ worker'.id = worker.id
    BY <1>4 DEF WorkerFinishesOwn, Shapes, WorkerShape, Idle
  <2>2. op'[worker.id].st # "running"
    BY <1>4, <2>1, FinishEnds, EndIsAnEnd DEF WorkerFinishesOwn, Shapes, WallShape
  <2> QED BY <2>1, <2>2 DEF OwnEndIsEnd, Running
<1>5. CASE WorkerActs
  BY <1>4, <1>5 DEF WorkerActs, WorkerTakesRequest, WorkerSeesOwnEnd, WorkerStep,
     WorkerReadsTable, WorkerFails, WorkerSetsRows, WorkerFinishes, WorkerIsDone,
     WorkerForgetsOwn, OwnEndIsEnd, Idle
<1> QED BY <1>3, <1>5, WhoSteps, WebLeaves, LinkLeaves

-----------------------------------------------------------------------------
(* Every job that runs is in somebody's hands *)

\* The web server hands its job on before it lets go of it.
LEMMA WebCarries ==
  ASSUME Shapes, NextAreUnborn, HeldAreBegun, WebKnowsItsRow, OwnIsOwn, WebActs,
         NEW j \in Ids, Running(j)', Running(j) => Carried(j)
  PROVE  Carried(j)'
<1>1. UNCHANGED <<worker, link, core, generation>>
  BY WebLeaves
<1>2. /\ WebShape /\ op \in [Ids -> States] /\ staged \in [RowNos -> Ids \cup {0}]
      /\ own \in Ids \cup {0} /\ 0 \notin Ids
  BY DEF Shapes, WallShape, Ids
<1>3. (SomeEnd \/ j # nextId) => Running(j) /\ op'[j].row = op[j].row
  <2>1. SomeEnd => Running(j) /\ op'[j].row = op[j].row
    BY DEF SomeEnd, JobsOnlyEnd, Running, Ends
  <2>2. j # nextId => Running(j) /\ op'[j].row = op[j].row
    BY JobsMove, WebJobs
  <2> QED BY <2>1, <2>2
<1>4. ASSUME Running(j), op'[j].row = op[j].row,
             \A r \in RowNos : staged[r] = j => staged'[r] = j,
             web.at \in {"begun", "refused", "ownBegun", "ownQueued", "request"} /\ web.id = j
               => Carried(j)',
             own = j => own' = j \/ Carried(j)', request.id = j => request'.id = j
      PROVE  Carried(j)'
  BY <1>1, <1>4 DEF Carried
<1>5. ASSUME UNCHANGED <<op, staged, own, request>>,
             web.at \in {"begun", "refused", "ownBegun", "ownQueued", "request"} /\ web.id = j
               => Carried(j)'
      PROVE  Carried(j)'
  <2>1. Running(j)
    BY <1>5 DEF Running
  <2> QED BY <1>4, <1>5, <2>1
<1>6. CASE WebStarts
  BY <1>5, <1>6 DEF WebStarts, WebReadsTable, wallVars
<1>7. ASSUME NEW row \in RowNos \cup {NoRow, OwnRow}, Begin(row, op'), nextId' = nextId + 1,
             nextId <= MaxIds, UNCHANGED <<staged, own, request>>,
             web.at \notin {"begun", "refused", "ownBegun", "ownQueued", "request"},
             web'.at \in {"begun", "refused", "ownBegun", "ownQueued", "request"},
             web'.id = nextId
      PROVE  Carried(j)'
  <2>1. CASE j = nextId
    BY <1>7, <2>1 DEF Carried
  <2>2. CASE j # nextId
    BY <1>3, <1>4, <1>7, <2>2
  <2> QED BY <2>1, <2>2
<1>8. CASE WebBeginsOwnJob
  <2>1. web.at = "idle" /\ nextId <= MaxIds
    BY <1>8 DEF WebBeginsOwnJob, Idle
  <2>2. CASE UNCHANGED wallVars
    BY <1>5, <2>1, <2>2 DEF wallVars
  <2>3. CASE /\ Begin(OwnRow, op') /\ nextId' = nextId + 1
             /\ web' = [at |-> "ownBegun", id |-> nextId]
             /\ UNCHANGED <<staged, own, request>>
    BY <1>7, <2>1, <2>3
  <2> QED BY <1>8, <2>2, <2>3 DEF WebBeginsOwnJob, JobBegins
<1>9. CASE WebBeginsRequest
  <2>1. /\ web.at \in {"idle", "table"} /\ nextId <= MaxIds
        /\ web'.at = "request" /\ web'.id = nextId
    BY <1>9 DEF WebBeginsRequest, WebKnowsItsRow, Idle
  <2>2. Begin(NoRow, op') /\ nextId' = nextId + 1 /\ UNCHANGED <<staged, own, request>>
    BY <1>9 DEF WebBeginsRequest
  <2> QED BY <1>7, <2>1, <2>2
<1>10. CASE WebFindsConnected \/ WebChecksNoJob \/ WebAsksRestart \/ WebFindsNoPlace
  BY <1>5, <1>10 DEF WebFindsConnected, WebChecksNoJob, WebAsksRestart, WebFindsNoPlace, wallVars
<1>11. CASE WebBeginsJob
  <2>1. web.at = "connected" /\ nextId <= MaxIds /\ web.row \in RowNos
    BY <1>2, <1>11 DEF WebBeginsJob, WebKnowsItsRow, WebShape, Idle
  <2>2. CASE UNCHANGED wallVars
    BY <1>5, <2>1, <2>2 DEF wallVars
  <2>3. CASE /\ Begin(web.row, op') /\ nextId' = nextId + 1
             /\ web' = [at |-> "begun", row |-> web.row, gen |-> web.gen, id |-> nextId]
             /\ UNCHANGED <<staged, own, request>>
    BY <1>7, <2>1, <2>3
  <2> QED BY <1>11, <2>2, <2>3 DEF WebBeginsJob, JobBegins
<1>12. CASE WebStages
  <2>1. web.at = "begun" /\ web.row \in RowNos /\ web.id \in Ids /\ op[web.id].row = web.row
    BY <1>2, <1>12 DEF WebStages, WebKnowsItsRow, WebShape, Idle
  <2>2. CASE web' = [at |-> "refused", id |-> web.id] /\ UNCHANGED staged
    BY <1>5, <1>12, <2>2 DEF WebStages, Carried
  <2>3. CASE staged[web.row] = 0 /\ staged' = [staged EXCEPT ![web.row] = web.id]
    <3>1. UNCHANGED <<op, own, request>> /\ Running(j)
      BY <1>12 DEF WebStages, Running
    <3>2. \A r \in RowNos : staged[r] = j => staged'[r] = j
      BY <1>2, <2>3
    <3>3. web.id = j => Carried(j)'
      BY <1>2, <2>1, <2>3, <3>1 DEF Carried
    <3> QED BY <1>4, <3>1, <3>2, <3>3
  <2> QED BY <1>12, <2>2, <2>3 DEF WebStages
<1>13. CASE WebGivesUp
  <2>1. web.at = "refused" /\ web.id \in Ids
    BY <1>2, <1>13 DEF WebGivesUp, WebShape, Idle
  <2>2. SomeEnd /\ op'[web.id].st # "running"
    BY <1>2, <1>13, <2>1, FinishEnds, EndIsAnEnd DEF WebGivesUp, SomeEnd
  <2>3. web.id # j
    BY <2>2 DEF Running
  <2> QED BY <1>3, <1>4, <1>13, <2>2, <2>3 DEF WebGivesUp
<1>14. CASE WebQueuesOwnJob
  <2>1. web'.at \in {"ownQueued", "refused"} /\ web'.id = web.id
    BY <1>2, <1>14 DEF WebQueuesOwnJob, WebShape, Idle
  <2> QED BY <1>5, <1>14, <2>1 DEF WebQueuesOwnJob, wallVars, Carried
<1>15. CASE WebSetsOwnJob
  <2>1. web.at = "ownQueued" /\ own' = web.id /\ UNCHANGED <<op, staged, request>>
    BY <1>15 DEF WebSetsOwnJob
  <2>2. own = j => Carried(j)'
    <3>1. own = j => j = web.id
      BY <1>2, <1>3, <2>1 DEF WebKnowsItsRow, OwnIsOwn, Running
    <3> QED BY <2>1, <3>1 DEF Carried
  <2> QED BY <1>3, <1>4, <2>1, <2>2 DEF Carried, Running
<1>16. CASE WebStagesRequest
  <2>1. web.at = "request" /\ UNCHANGED <<op, staged, own>> /\ web.request.id = web.id
    BY <1>16 DEF WebStagesRequest, WebKnowsItsRow
  <2>2. CASE web' = [at |-> "refused", id |-> web.id] /\ UNCHANGED request
    BY <1>5, <2>1, <2>2 DEF Carried
  <2>3. CASE request = NoRequest /\ request' = web.request
    BY <1>2, <1>4, <2>1, <2>3 DEF Carried, NoRequest, Running
  <2> QED BY <1>16, <2>2, <2>3 DEF WebStagesRequest
<1> QED BY <1>6, <1>8, <1>9, <1>10, <1>11, <1>12, <1>13, <1>14, <1>15, <1>16 DEF WebActs, WebStep

\* The worker ends the job of a request, and a watched job, before it lets go of it; a new
\* table ends every job on a row.
LEMMA WorkerCarries ==
  ASSUME Shapes, OwnEndIsEnd, WorkerActs, NEW j \in Ids, Running(j)', Running(j) => Carried(j)
  PROVE  Carried(j)'
<1>1. UNCHANGED <<web, link, core>>
  BY WorkerLeaves
<1>2. /\ WorkerShape /\ op \in [Ids -> States] /\ own \in Ids \cup {0} /\ 0 \notin Ids
  BY DEF Shapes, WallShape, Ids
<1>3. Running(j) /\ op'[j].row = op[j].row /\ Carried(j)
  BY WorkerJobs DEF SomeEnd, JobsOnlyEnd, Running, Ends
<1>4. ASSUME UNCHANGED <<staged, generation>>,
             own = j => own' = j,
             worker.at \in {"own", "ownEnded"} /\ worker.id = j => Carried(j)',
             request.id = j => Carried(j)',
             worker.at \in {"read", "set", "stored"} /\ worker.request.id = j => Carried(j)'
      PROVE  Carried(j)'
  BY <1>1, <1>3, <1>4 DEF Carried
<1>5. CASE WorkerTakesRequest
  <2>1. request.id = j => Carried(j)'
    BY <1>5 DEF WorkerTakesRequest, Carried
  <2> QED BY <1>4, <1>5, <2>1 DEF WorkerTakesRequest
<1>6. CASE WorkerSeesOwnEnd
  <2>1. request.id = j => Carried(j)'
    BY <1>6 DEF WorkerSeesOwnEnd, Carried, wallVars
  <2> QED BY <1>4, <1>6, <2>1 DEF WorkerSeesOwnEnd, wallVars
<1>7. CASE WorkerReadsTable
  <2>1. worker.request \in Requests
    BY <1>2, <1>7 DEF WorkerReadsTable, WorkerShape, Idle
  <2>2. worker'.at = "set" /\ worker'.request.id = worker.request.id
    BY <1>7, <2>1 DEF WorkerReadsTable, Requests
  <2> QED BY <1>4, <1>7, <2>2 DEF WorkerReadsTable, Carried, wallVars
<1>8. CASE WorkerFails \/ WorkerFinishes
  <2>1. worker.at \in {"read", "set", "stored"} /\ worker.request \in Requests
    BY <1>2, <1>8 DEF WorkerFails, WorkerFinishes, WorkerShape, Idle
  <2>2. \E how \in Ends : Finish(worker.request.id, how)
    BY <1>8, EndIsAnEnd DEF WorkerFails, WorkerFinishes
  <2>3. worker.request.id # j
    BY <1>2, <2>2, FinishEnds DEF Running
  <2>4. request.id = j => Carried(j)'
    BY <1>8 DEF WorkerFails, WorkerFinishes, Carried
  <2> QED BY <1>4, <1>8, <2>1, <2>3, <2>4 DEF WorkerFails, WorkerFinishes
<1>9. CASE WorkerSetsRows
  <2>1. op[j].row \notin RowNos
    BY <1>2, <1>9, FailJobsEnds, EndIsAnEnd DEF WorkerSetsRows, NewTable, Running
  <2> QED BY <1>1, <1>3, <1>9, <2>1 DEF WorkerSetsRows, Carried
<1>10. CASE WorkerIsDone
  <2>1. request.id = j => Carried(j)'
    BY <1>10 DEF WorkerIsDone, Carried
  <2> QED BY <1>4, <1>10, <2>1 DEF WorkerIsDone
<1>11. CASE WorkerFinishesOwn
  <2>1. worker'.at = "ownEnded" /\ worker'.id = worker.id /\ worker.at = "own"
    BY <1>2, <1>11 DEF WorkerFinishesOwn, WorkerShape, Idle
  <2>2. UNCHANGED <<staged, generation, own, request>>
    BY <1>11 DEF WorkerFinishesOwn
  <2> QED BY <1>4, <2>1, <2>2 DEF Carried
<1>12. CASE WorkerForgetsOwn
  <2>1. worker.at = "ownEnded" /\ worker.id # j
    BY <1>3, <1>12 DEF WorkerForgetsOwn, OwnEndIsEnd
  <2>2. own' = (IF own = worker.id THEN 0 ELSE own) /\ UNCHANGED <<staged, generation, request>>
    BY <1>12 DEF WorkerForgetsOwn
  <2> QED BY <1>4, <2>1, <2>2 DEF Carried
<1> QED BY <1>5, <1>6, <1>7, <1>8, <1>9, <1>10, <1>11, <1>12, WorkerActs DEF WorkerActs, WorkerStep

\* The link task takes a job from its slot into its table or gives it back, and ends what it
\* drops.
LEMMA LinkCarries ==
  ASSUME Shapes, LinkIsOfItsTable, LatePassFindsNothing, LinkActs,
         NEW j \in Ids, Running(j)', Running(j) => Carried(j)
  PROVE  Carried(j)'
<1>1. UNCHANGED <<web, worker, generation, own, request>>
  BY LinkLeaves
<1>2. /\ op \in [Ids -> States] /\ staged \in [RowNos -> Ids \cup {0}] /\ 0 \notin Ids
      /\ link \in LinkStates /\ core \in [RowNos -> Contacts]
  BY DEF Shapes, WallShape, LinkShape, Ids
<1>3. Running(j) /\ op'[j].row = op[j].row /\ Carried(j)
  BY LinkJobs DEF SomeEnd, JobsOnlyEnd, Running, Ends
<1>4. ASSUME op[j].row \in RowNos /\ staged[op[j].row] = j => Carried(j)',
             op[j].row \in RowNos /\ core[op[j].row].job = j /\ link.gen = generation
               => Carried(j)',
             link.hand = j => Carried(j)'
      PROVE  Carried(j)'
  BY <1>1, <1>3, <1>4 DEF Carried
<1>5. ASSUME UNCHANGED staged, link'.hand = link.hand, link'.gen = link.gen,
             \A r \in RowNos : core[r].job = j /\ op[j].row = r => core'[r].job = j
      PROVE  Carried(j)'
  BY <1>1, <1>3, <1>4, <1>5 DEF Carried
<1>6. CASE LinkBeginsPass
  <2>1. CASE Goes("read") /\ UNCHANGED core
    BY <1>5, <1>6, <2>1, GoesTo DEF LinkBeginsPass, wallVars
  <2>2. CASE generation # link.gen
    <3>1. link.hand = 0 /\ UNCHANGED staged
      BY <1>6 DEF LinkBeginsPass, LinkIsOfItsTable, wallVars
    <3> QED BY <1>2, <1>3, <1>4, <2>2, <3>1 DEF Carried
  <2> QED BY <1>6, <2>1, <2>2 DEF LinkBeginsPass
<1>7. CASE LinkGoesToJobs \/ LinkGoesToTick \/ LinkGoesToRestarts \/ LinkEndsPass
           \/ LinkTellsRestarts
  <2>1. link'.hand = link.hand /\ link'.gen = link.gen
    BY <1>7, GoesTo DEF LinkGoesToJobs, LinkGoesToTick, LinkGoesToRestarts, LinkEndsPass,
       LinkTellsRestarts
  <2> QED BY <1>5, <1>7, <2>1 DEF LinkGoesToJobs, LinkGoesToTick, LinkGoesToRestarts,
        LinkEndsPass, LinkTellsRestarts, wallVars
<1>8. CASE LinkTakesJob
  <2>1. link.at = "take" /\ link.hand = 0 /\ link.row \in RowNos
    BY <1>2, <1>8, TableRows DEF LinkTakesJob, LinkStates
  <2> DEFINE r == link.row
  <2>2. staged' = [staged EXCEPT ![r] = 0] /\ r \in RowNos
    BY <1>8, <2>1 DEF LinkTakesJob
  <2>3. link'.gen = link.gen /\ link'.hand = (IF core[r].job = 0 THEN 0 ELSE staged[r])
    BY <1>2, <1>8 DEF LinkTakesJob, LinkStates
  <2>4. IF staged[r] # 0 /\ core[r].job = 0
        THEN core' = [core EXCEPT ![r].job = staged[r]] ELSE UNCHANGED core
    BY <1>8 DEF LinkTakesJob
  <2>5. staged[r] # 0 => link.gen = generation
    BY <2>1 DEF LatePassFindsNothing
  <2> HIDE DEF r
  <2>6. \A k \in RowNos : k # r => staged'[k] = staged[k] /\ core'[k] = core[k]
    BY <1>2, <2>2, <2>4
  <2>7. core[r].job = 0 /\ staged[r] # 0 => core'[r].job = staged[r]
    <3>1. core[r].job = 0 /\ staged[r] # 0 =>
            core' = [core EXCEPT ![r] = [core[r] EXCEPT !.job = staged[r]]]
      BY <1>2, <2>2, <2>4
    <3> QED BY <1>2, <2>2, <3>1 DEF Contacts
  <2>8. core[r].job # 0 => core'[r] = core[r]
    BY <2>4
  <2>9. ASSUME op[j].row \in RowNos, staged[op[j].row] = j
        PROVE  Carried(j)'
    <3>1. CASE op[j].row # r
      BY <1>3, <2>6, <2>9, <3>1 DEF Carried
    <3>2. CASE op[j].row = r /\ core[r].job = 0
      BY <1>1, <1>2, <1>3, <2>3, <2>5, <2>7, <2>9, <3>2 DEF Carried
    <3>3. CASE op[j].row = r /\ core[r].job # 0
      BY <2>3, <2>9, <3>3 DEF Carried
    <3> QED BY <3>1, <3>2, <3>3
  <2>10. ASSUME op[j].row \in RowNos, core[op[j].row].job = j, link.gen = generation
         PROVE  Carried(j)'
    <3>1. core'[op[j].row].job = j
      BY <1>2, <2>6, <2>8, <2>10
    <3> QED BY <1>1, <1>3, <2>3, <2>10, <3>1 DEF Carried
  <2> QED BY <1>2, <1>4, <2>1, <2>9, <2>10
<1>9. CASE LinkGivesBack
  <2>1. link.hand \in Ids /\ link'.gen = link.gen /\ UNCHANGED <<staged, core>>
    BY <1>2, <1>9 DEF LinkGivesBack, LinkStates
  <2>2. link.hand # j
    BY <1>2, <1>9, <2>1, FinishEnds, EndIsAnEnd DEF LinkGivesBack, Running
  <2> QED BY <1>1, <1>3, <1>4, <2>1, <2>2 DEF Carried
<1>10. CASE LinkPublishes
  <2>1. link'.hand = link.hand /\ link'.gen = link.gen /\ UNCHANGED <<staged, core>>
    BY <1>2, <1>10 DEF LinkPublishes, LinkStates
  <2> QED BY <1>5, <2>1
<1>11. ASSUME NEW r \in RowNos, LinkEvent(r) \/ LinkGivesUp(r)
       PROVE  Carried(j)'
  <2>1. UNCHANGED <<staged, link>> /\ \A k \in RowNos : k # r => core'[k] = core[k]
    BY <1>11, ContactsMove
  <2>2. core[r].job = j /\ op[j].row = r => core'[r].job = core[r].job
    <3>1. CASE FailJobs({r}, "restarted")
      BY <1>2, <3>1, FailJobsEnds, EndIsAnEnd DEF Running
    <3>2. CASE \E how \in Ends : Finish(core[r].job, how)
      BY <1>2, <3>2, FinishEnds DEF Running
    <3> QED BY <1>11, <3>1, <3>2, ContactsMove
  <2> QED BY <1>5, <2>1, <2>2
<1> QED BY <1>6, <1>7, <1>8, <1>9, <1>10, <1>11 DEF LinkActs, LinkPass

LEMMA CarriedStep ==
  ASSUME Shapes, NextAreUnborn, HeldAreBegun, WebKnowsItsRow, LinkIsOfItsTable,
         LatePassFindsNothing, OwnIsOwn, OwnEndIsEnd, NoJobIsForgotten, Next
  PROVE  NoJobIsForgotten'
<1> SUFFICES ASSUME NEW j \in Ids, Running(j)' PROVE Carried(j)'
  BY DEF NoJobIsForgotten
<1>1. Running(j) => Carried(j)
  BY DEF NoJobIsForgotten
<1> QED BY <1>1, WhoSteps, WebCarries, WorkerCarries, LinkCarries

-----------------------------------------------------------------------------
(* Jobs and restarts reach their board *)

LEMMA ReachStep ==
  ASSUME Shapes, NextAreUnborn, HeldAreBegun, SlotsAreOfTable, LinkIsOfItsTable,
         LatePassFindsNothing, ReachTheirBoard, Next
  PROVE  ReachTheirBoard'
<1>1. /\ meant \in [Ids -> Places] /\ written \in [Ids -> Places] /\ 0 \notin Ids
      /\ core \in [RowNos -> Contacts] /\ nextId \in Nat
  BY BoundsAreNaturals DEF Shapes, HistoryShape, LinkShape, WallShape, Ids
<1>2. \A j \in Ids : written[j] \in {NoBoard, meant'[j]}
  <2>1. \A j \in Ids : j # nextId => meant'[j] = meant[j]
    BY MeantStays
  <2>2. \A j \in Ids : j = nextId => written[j] = NoBoard
    BY DEF NextAreUnborn, Ids
  <2> QED BY <2>1, <2>2 DEF ReachTheirBoard
<1>3. ASSUME UNCHANGED <<written, told>>
      PROVE  ReachTheirBoard'
  BY <1>2, <1>3 DEF ReachTheirBoard
<1>4. ASSUME NEW r \in RowNos, LinkWritesJob(r)
      PROVE  ReachTheirBoard'
  <2>1. core[r].job \in Ids /\ meant[core[r].job] = link.table[r]
    BY <1>1, <1>4 DEF LinkWritesJob, LinkIsOfItsTable, Contacts
  <2>2. /\ written' = [written EXCEPT ![core[r].job] = link.table[r]]
        /\ UNCHANGED <<meant, told>>
    BY <1>4 DEF LinkWritesJob
  <2> QED BY <1>1, <2>1, <2>2 DEF ReachTheirBoard
<1>5. CASE LinkTellsRestarts
  <2>1. restarts # {} => link.table = table
    BY <1>5 DEF LinkTellsRestarts, LatePassFindsNothing, LinkIsOfItsTable
  <2>2. \A r \in restarts : asked[r] = link.table[r]
    BY <2>1 DEF SlotsAreOfTable
  <2>3. \A t \in told' : t[1] = t[2]
    BY <1>5, <2>2 DEF LinkTellsRestarts, ReachTheirBoard
  <2>4. UNCHANGED <<meant, written>>
    BY <1>5 DEF LinkTellsRestarts
  <2> QED BY <2>3, <2>4 DEF ReachTheirBoard
<1>6. LinkActs => \/ UNCHANGED <<written, told>> \/ LinkTellsRestarts
                  \/ \E r \in RowNos : LinkWritesJob(r)
  BY DEF LinkActs, LinkPass, LinkEvent, LinkBeginsPass, LinkGoesToJobs, LinkTakesJob,
         LinkGivesBack, LinkGoesToTick, LinkGoesToRestarts, LinkPublishes,
         LinkEndsPass, LinkReadsHello, LinkLosesRow, LinkReadsEnd, LinkGivesUp, ghosts
<1> QED BY <1>3, <1>4, <1>5, <1>6, WhoSteps, WebLeaves, WorkerLeaves DEF ghosts

-----------------------------------------------------------------------------
(* The theorems *)

TasksInv == Shapes /\ JobsInv

LEMMA InitTasks == Init => TasksInv
<1> SUFFICES ASSUME Init PROVE TasksInv
  OBVIOUS
<1>1. Shapes
  BY InitShapes
<1>2. /\ HeldAreBegun /\ WebKnowsItsRow /\ SlotsAreOfTable /\ LinkIsOfItsTable
      /\ LatePassFindsNothing /\ OwnIsOwn /\ OwnEndIsEnd
  BY DEF Init, HeldAreBegun, WebKnowsItsRow, SlotsAreOfTable, LinkIsOfItsTable,
     LatePassFindsNothing, OwnIsOwn, OwnEndIsEnd, Idle, NoContact, NoRequest
<1>3. NextAreUnborn /\ ReachTheirBoard /\ NoJobIsForgotten
  BY DEF Init, NextAreUnborn, ReachTheirBoard, NoJobIsForgotten, Running
<1>4. PlacesAreKept
  <2>1. {j \in Ids : InTable(j)} = {}
    BY DEF Init, InTable
  <2> QED BY <2>1, FS_EmptySet, BoundsAreNaturals DEF PlacesAreKept
<1> QED BY <1>1, <1>2, <1>3, <1>4 DEF TasksInv, JobsInv

LEMMA TasksStep == TasksInv /\ [Next]_vars => TasksInv'
<1> SUFFICES ASSUME TasksInv, [Next]_vars PROVE TasksInv'
  OBVIOUS
<1> USE DEF TasksInv, JobsInv
<1>1. CASE Next
  <2>1. Shapes'
    BY <1>1, ShapesStep
  <2>2. NextAreUnborn' /\ HeldAreBegun'
    BY <1>1, UnbornStep, HeldStep
  <2>3. WebKnowsItsRow' /\ SlotsAreOfTable' /\ LinkIsOfItsTable' /\ LatePassFindsNothing'
    BY <1>1, WebKnowsStep, SlotsStep, LinkTableStep, LatePassStep
  <2>4. OwnIsOwn' /\ OwnEndIsEnd' /\ PlacesAreKept'
    BY <1>1, OwnStep, OwnEndStep, PlacesStep
  <2>5. NoJobIsForgotten' /\ ReachTheirBoard'
    BY <1>1, CarriedStep, ReachStep
  <2> QED BY <2>1, <2>2, <2>3, <2>4, <2>5
<1>2. CASE UNCHANGED vars
  <2> USE <1>2 DEF vars, wallVars, taskVars, ghosts
  <2>1. Shapes'
    BY DEF Shapes, WallShape, WebShape, WorkerShape, LinkShape, HistoryShape
  <2>2. NextAreUnborn' /\ HeldAreBegun'
    BY DEF NextAreUnborn, HeldAreBegun
  <2>3. WebKnowsItsRow' /\ SlotsAreOfTable' /\ LinkIsOfItsTable' /\ LatePassFindsNothing'
    BY DEF WebKnowsItsRow, SlotsAreOfTable, LinkIsOfItsTable, LatePassFindsNothing, Running
  <2>4. OwnIsOwn' /\ OwnEndIsEnd' /\ PlacesAreKept'
    BY DEF OwnIsOwn, OwnEndIsEnd, PlacesAreKept, Running, InTable
  <2>5. NoJobIsForgotten' /\ ReachTheirBoard'
    BY DEF NoJobIsForgotten, ReachTheirBoard, Running, Carried
  <2> QED BY <2>1, <2>2, <2>3, <2>4, <2>5
<1> QED BY <1>1, <1>2

LEMMA TasksInvHolds == Spec => []TasksInv
BY InitTasks, TasksStep, PTL DEF Spec

LEMMA TasksAreTyped == TasksInv => TypeOK
<1> SUFFICES ASSUME TasksInv PROVE TypeOK
  OBVIOUS
<1> USE DEF TasksInv, JobsInv
<1>1. /\ op \in [Ids -> [st : {"unborn", "running", "evicted"} \cup Ends,
                         row : RowNos \cup {NoRow, OwnRow}]]
      /\ nextId \in 1..(MaxIds + 1) /\ generation \in 0..MaxTables /\ generation \in Nat
      /\ up \in [RowNos -> BOOLEAN] /\ own \in Ids \cup {0}
      /\ staged \in [RowNos -> Ids \cup {0}]
      /\ core \in [RowNos -> [up : BOOLEAN, known : BOOLEAN, job : Ids \cup {0}, sent : BOOLEAN]]
  BY DEF Shapes, WallShape, LinkShape, States, Contacts
<1>2. link.gen \in 0..generation
  BY <1>1 DEF Shapes, LinkShape, LinkStates, LinkIsOfItsTable
<1>3. \A t \in TablesOf : t \in Seq(Boards) /\ IsInjective(t)
  <2>1. table \in Tables /\ link.table \in Tables
    BY DEF Shapes, WallShape, LinkShape, LinkStates
  <2>2. request.table \in Tables
    BY EmptyTable DEF Shapes, WallShape, Requests, NoRequest
  <2>3. worker.at \in {"read", "set", "stored"} => worker.request.table \in Tables
    BY DEF Shapes, WorkerShape, Idle, Requests
  <2>4. \A t \in Tables : t \in Seq(Boards) /\ IsInjective(t)
    BY DEF Tables
  <2>5. TablesOf \subseteq Tables
    BY <2>1, <2>2, <2>3 DEF TablesOf
  <2> QED BY <2>4, <2>5
<1>4. restarts \subseteq DOMAIN table /\ {r \in RowNos : staged[r] # 0} \subseteq DOMAIN table
  BY DEF SlotsAreOfTable
<1>5. Cardinality({j \in Ids : InTable(j)}) <= Kept
  BY DEF PlacesAreKept
<1>6. WebTypes
  <2>1. CASE web.at \in {"table", "connected", "free"}
    <3>1. web.gen \in Nat
      BY <2>1 DEF Shapes, WebShape, Idle
    <3> QED BY <1>1, <2>1, <3>1 DEF WebTypes, WebKnowsItsRow
  <2>2. CASE web.at \notin {"table", "connected", "free"}
    BY <2>2 DEF Shapes, WebShape, WebTypes
  <2> QED BY <2>1, <2>2
<1> QED BY <1>1, <1>2, <1>3, <1>4, <1>5, <1>6 DEF TypeOK

\* wallStateSetRows, WallOps::begin: the slots by row number hold only what is about a row of
\* the table, the table of jobs never holds more than it has places for, and every rows table
\* anybody holds has each board once.
THEOREM TasksTyped == Spec => []TypeOK
BY TasksInvHolds, TasksAreTyped, PTL

\* wallJobStage, takeJobs, wallStateAskRestart: whatever the worker makes of the table on the
\* way, a job and a restart go to the board they were asked for.
THEOREM JobsReachTheirBoard == Spec => []ReachTheirBoard
<1>1. TasksInv => ReachTheirBoard
  BY DEF TasksInv, JobsInv
<1> QED BY <1>1, TasksInvHolds, PTL

\* startRowJob, takeJobs, wallOwnJobTick, wallStateSetRows: a job that is shown as running is
\* always in the hands of somebody who will end it.
THEOREM JobsAreCarried == Spec => []NoJobIsForgotten
<1>1. TasksInv => NoJobIsForgotten
  BY DEF TasksInv, JobsInv
<1> QED BY <1>1, TasksInvHolds, PTL

\* WallOps::begin, finish: a job never loses its place while it runs, and once ended it does
\* not run again or end another way.
THEOREM JobEndsStay == Spec => EndsStay
<1>1. ASSUME TasksInv, Next, NEW j \in Ids
      PROVE  /\ Running(j) => op'[j].st # "evicted"
             /\ op[j].st \in Ends => op'[j].st \in {op[j].st, "evicted"}
  <2>1. SomeEnd \/ OneJoins
    BY <1>1, StepOfJobs DEF TasksInv, JobsInv
  <2>2. CASE SomeEnd
    BY <2>2 DEF SomeEnd, JobsOnlyEnd, Running, Ends
  <2>3. CASE OneJoins
    <3>1. CASE j = nextId
      <4>1. op[j].st = "unborn"
        BY <1>1, <3>1, BoundsAreNaturals DEF TasksInv, JobsInv, NextAreUnborn, Ids
      <4> QED BY <4>1 DEF Running, Ends
    <3>2. CASE j # nextId
      BY <2>3, <3>2 DEF OneJoins, Joins, Running, Ends
    <3> QED BY <3>1, <3>2
  <2> QED BY <2>1, <2>2, <2>3
<1>2. TasksInv /\ [Next]_vars =>
        [\A j \in Ids : /\ Running(j) => op'[j].st # "evicted"
                        /\ op[j].st \in Ends => op'[j].st \in {op[j].st, "evicted"}]_vars
  BY <1>1
<1> QED BY <1>2, TasksInvHolds, PTL DEF Spec, EndsStay

=============================================================================
