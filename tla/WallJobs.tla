------------------------------ MODULE WallJobs ------------------------------
(***************************************************************************)
(* The master's job table and the slots beside it (Master/WallOps.h and    *)
(* WallState.cpp), which three tasks share under one mutex: the web server *)
(* begins jobs and stages them (WebWall.cpp), the worker changes the rows  *)
(* table and watches the job on the master's own units (WallPair.cpp,      *)
(* WallJobs.cpp), and the link task takes what is staged, hands it to the  *)
(* rows and reports the ends (WallLink.cpp).                               *)
(*                                                                         *)
(* A step is what a task does from taking the mutex once to taking it      *)
(* again.  What a row does with a job is WallLink's; here it answers.      *)
(***************************************************************************)
EXTENDS Integers, FiniteSets, Sequences, SequencesExt

CONSTANTS
  Boards,      \* the row boards there are
  NoBoard,     \* what a job that is not about one row board is meant for
  FirstTable,  \* the stored rows table: boards in the order of their numbers
  Kept,        \* WALL_OPS_KEPT
  Asks,        \* bound: what the web server is asked for, of the kinds below
  MaxIds,      \* bound: jobs begun
  MaxTables    \* bound: changes of the rows table

ASSUME BoundsAreNaturals ==
  /\ Kept \in Nat \ {0} /\ MaxIds \in Nat /\ MaxTables \in Nat
  /\ Asks \subseteq {"job", "own", "restart", "pair", "release", "arrange"}
ASSUME TableHasBoardsOnce ==
  /\ NoBoard \notin Boards /\ IsFiniteSet(Boards)
  /\ FirstTable \in Seq(Boards) /\ IsInjective(FirstTable)

VARIABLES
  \* held by the wall state, under its mutex
  op,        \* WallOps.ops: how each job stands and the row number it is on
  nextId,    \* WallOps.nextId
  table,     \* held->wall.rows
  generation,\* rowsGeneration
  up,        \* held->wall.link[row].contact: the rows published as connected
  staged,    \* held->jobs: the job staged for each row, 0 = none
  restarts,  \* restartsAsked
  own,       \* held->ownJob, 0 = none
  request,   \* held->staged: the request for the worker
  requestRunning,
  \* private to a task
  web,       \* the request the web server is handling
  worker,    \* what the worker is doing
  link,      \* where the link task is in its pass, its table and generation
  core,      \* WallLinkCore.rows
  dirty,     \* factsDirty
  \* history
  meant,     \* the board each job was asked for
  written,   \* the board each job was written to
  asked,     \* the board each restart in `restarts` was asked for
  told       \* <<asked for, told>> of every restart said to a row

wallVars == <<op, nextId, table, generation, up, staged, restarts, own, request, requestRunning>>
taskVars == <<web, worker, link, core, dirty>>
ghosts   == <<meant, written, asked, told>>
vars     == <<wallVars, taskVars, ghosts>>

-----------------------------------------------------------------------------
Ids    == 1..MaxIds
RowNos == 1..Cardinality(Boards)   \* row numbers; the code counts from 0
NoRow  == -1                       \* a job not about one row
OwnRow == -2                       \* WALL_OP_OWN_ROW

Ends       == {"answered",     \* whoever did the job said how it went, well or not
               "givenUp",      \* nobody did it, or said nothing in time
               "restarted", "wallChanged"}
Idle       == [at |-> "idle"]
NoRequest  == [id |-> 0, kind |-> "none", board |-> NoBoard, table |-> <<>>]
NoContact  == [up |-> FALSE, known |-> FALSE, job |-> 0, sent |-> FALSE]

InTable(j)   == op[j].st \notin {"unborn", "evicted"}
Running(j)   == op[j].st = "running"
RunningOn(r) == \E j \in Ids : Running(j) /\ op[j].row = r

Init ==
  /\ op = [j \in Ids |-> [st |-> "unborn", row |-> NoRow]] /\ nextId = 1
  /\ table = FirstTable /\ generation = 0
  /\ up = [r \in RowNos |-> FALSE] /\ staged = [r \in RowNos |-> 0]
  /\ restarts = {} /\ own = 0
  /\ request = NoRequest /\ requestRunning = FALSE
  /\ web = Idle /\ worker = Idle
  /\ link = [at |-> "top", row |-> 1, table |-> FirstTable, gen |-> 0, hand |-> 0]
  /\ core = [r \in RowNos |-> NoContact] /\ dirty = {}
  /\ meant = [j \in Ids |-> NoBoard] /\ written = [j \in Ids |-> NoBoard]
  /\ asked = [r \in RowNos |-> NoBoard] /\ told = {}

-----------------------------------------------------------------------------
(* The job table *)

\* Mutant: the oldest job makes way, running or not.
BeginEvictsOldest(row, ops) ==
  LET full == Cardinality({j \in Ids : InTable(j)}) >= Kept
      oldest == CHOOSE j \in Ids : InTable(j) /\ \A k \in Ids : InTable(k) => j <= k
      room == IF full THEN [op EXCEPT ![oldest].st = "evicted"] ELSE op
  IN ops = [room EXCEPT ![nextId] = [st |-> "running", row |-> row]]

\* WallOps::begin: a free place, or that of the ended job with the lowest id.
Begin(row, ops) ==
  LET new   == [st |-> "running", row |-> row]
      ended == {j \in Ids : InTable(j) /\ ~Running(j)}
  IN IF Cardinality({j \in Ids : InTable(j)}) < Kept
     THEN ops = [op EXCEPT ![nextId] = new]
     ELSE \E old \in ended :
            /\ \A k \in ended : old <= k
            /\ ops = [op EXCEPT ![old].st = "evicted", ![nextId] = new]

\* No place: every one holds a running job.
Full == Cardinality({j \in Ids : Running(j)}) >= Kept

\* WallOps::finish: nothing happens to a job that is not running.
Finish(j, how) == op' = [op EXCEPT ![j].st = IF @ = "running" THEN how ELSE @]

\* failJobs: every running job on a row of `rows` ends.
FailJobs(rows, how) ==
  op' = [j \in Ids |-> IF Running(j) /\ op[j].row \in rows
                       THEN [op[j] EXCEPT !.st = how] ELSE op[j]]

-----------------------------------------------------------------------------
(* The web server: one request after the other *)

webRest == <<worker, link, core, dirty>>

\* handleAction: the table and its generation, for whatever is asked for.
WebReadsTable(kind) ==
  /\ web.at = "idle" /\ nextId <= MaxIds
  /\ \E r \in DOMAIN table :
       web' = [at |-> "table", kind |-> kind, row |-> r, table |-> table, gen |-> generation]
  /\ UNCHANGED <<wallVars, webRest, ghosts>>

\* startRowJob, handleRestart: refused unless the row is published as connected.
WebFindsConnected ==
  /\ web.at = "table" /\ web.kind \in {"job", "restart"}
  /\ web' = IF up[web.row] THEN [web EXCEPT !.at = "connected"] ELSE Idle
  /\ UNCHANGED <<wallVars, webRest, ghosts>>

\* wallJobBegin: one unit job at a time per row.
JobBegins(row, board, next) ==
  \/ /\ RunningOn(row) \/ Full
     /\ web' = Idle /\ UNCHANGED <<wallVars, webRest, ghosts>>
  \/ /\ ~RunningOn(row) /\ Begin(row, op') /\ nextId' = nextId + 1
     /\ meant' = [meant EXCEPT ![nextId] = board]
     /\ web' = next
     /\ UNCHANGED <<table, generation, up, staged, restarts, own, request, requestRunning,
                    webRest, written, asked, told>>

WebBeginsJob ==
  /\ web.at = "connected" /\ web.kind = "job"
  /\ JobBegins(web.row, web.table[web.row],
               [at |-> "begun", row |-> web.row, gen |-> web.gen, id |-> nextId])

\* Mutant: the job is staged whatever became of the table.
WebStagesAnyway ==
  /\ web.at = "begun"
  /\ IF staged[web.row] # 0
     THEN web' = [at |-> "refused", id |-> web.id] /\ UNCHANGED staged
     ELSE web' = Idle /\ staged' = [staged EXCEPT ![web.row] = web.id]
  /\ UNCHANGED <<op, nextId, table, generation, up, restarts, own, request, requestRunning,
                 webRest, ghosts>>

\* wallJobStage: only for the table the row number is from.
WebStages ==
  /\ web.at = "begun"
  /\ IF staged[web.row] # 0 \/ web.gen # generation
     THEN web' = [at |-> "refused", id |-> web.id] /\ UNCHANGED staged
     ELSE web' = Idle /\ staged' = [staged EXCEPT ![web.row] = web.id]
  /\ UNCHANGED <<op, nextId, table, generation, up, restarts, own, request, requestRunning,
                 webRest, ghosts>>

\* Mutant: the job that could not be handed on is left as it is.
WebGivesUpSilently ==
  /\ web.at = "refused" /\ web' = Idle /\ UNCHANGED <<wallVars, webRest, ghosts>>

\* The job that could not be handed on ends here.
WebGivesUp ==
  /\ web.at = "refused" /\ Finish(web.id, "givenUp") /\ web' = Idle
  /\ UNCHANGED <<nextId, table, generation, up, staged, restarts, own, request,
                 requestRunning, webRest, ghosts>>

\* startOwnJob: begun ...
WebBeginsOwnJob ==
  /\ web = Idle /\ nextId <= MaxIds /\ "own" \in Asks
  /\ JobBegins(OwnRow, NoBoard, [at |-> "ownBegun", id |-> nextId])
\* ... given to the display, whose queue may be full ...
WebQueuesOwnJob ==
  /\ web.at = "ownBegun"
  /\ \E at \in {"ownQueued", "refused"} : web' = [web EXCEPT !.at = at]
  /\ UNCHANGED <<wallVars, webRest, ghosts>>
\* ... and left to the worker to watch.
WebSetsOwnJob ==
  /\ web.at = "ownQueued" /\ own' = web.id /\ web' = Idle
  /\ UNCHANGED <<op, nextId, table, generation, up, staged, restarts, request,
                 requestRunning, webRest, ghosts>>

\* handleRestart: not in the middle of a unit job ...
WebChecksNoJob ==
  /\ web.at = "connected" /\ web.kind = "restart"
  /\ web' = IF RunningOn(web.row) THEN Idle ELSE [web EXCEPT !.at = "free"]
  /\ UNCHANGED <<wallVars, webRest, ghosts>>

\* ... and only for the table the row number is from (wallStateAskRestart).
WebAsksRestart ==
  /\ web.at = "free" /\ web' = Idle
  /\ IF web.gen = generation
     THEN /\ restarts' = restarts \cup {web.row}
          /\ asked' = [asked EXCEPT ![web.row] = web.table[web.row]]
     ELSE UNCHANGED <<restarts, asked>>
  /\ UNCHANGED <<op, nextId, table, generation, up, staged, own, request, requestRunning,
                 webRest, meant, written, told>>

\* pair, release, arrange: a job of the worker's.  An arrangement is the table
\* that was read with the boards at their new places, which are not modelled.
WebBeginsRequest ==
  /\ \/ web = Idle /\ nextId <= MaxIds /\ "pair" \in Asks /\ \E b \in Boards \ ToSet(table) :
          web' = [at |-> "request", id |-> nextId,
                  request |-> [id |-> nextId, kind |-> "pair", board |-> b, table |-> <<>>]]
     \/ web.at = "table" /\ web.kind = "release"
        /\ web' = [at |-> "request", id |-> nextId,
                   request |-> [id |-> nextId, kind |-> "release",
                                board |-> web.table[web.row], table |-> <<>>]]
     \/ web.at = "table" /\ web.kind = "arrange"
        /\ web' = [at |-> "request", id |-> nextId,
                   request |-> [id |-> nextId, kind |-> "arrange",
                                board |-> NoBoard, table |-> web.table]]
  /\ Begin(NoRow, op') /\ nextId' = nextId + 1
  /\ UNCHANGED <<table, generation, up, staged, restarts, own, request, requestRunning,
                 webRest, ghosts>>
WebFindsNoPlace ==
  /\ web.at = "table" /\ web.kind \in {"release", "arrange"} /\ Full /\ web' = Idle
  /\ UNCHANGED <<wallVars, webRest, ghosts>>

\* wallStateStage: one request at a time.
WebStagesRequest ==
  /\ web.at = "request"
  /\ IF requestRunning \/ request # NoRequest
     THEN web' = [at |-> "refused", id |-> web.id] /\ UNCHANGED request
     ELSE web' = Idle /\ request' = web.request
  /\ UNCHANGED <<op, nextId, table, generation, up, staged, restarts, own, requestRunning,
                 webRest, ghosts>>

-----------------------------------------------------------------------------
(* The worker: the staged request, then the job on the own units *)

workerRest == <<web, link, core, dirty>>

WorkerTakesRequest ==
  /\ worker.at = "idle" /\ request # NoRequest
  /\ worker' = [at |-> "read", request |-> request]
  /\ request' = NoRequest /\ requestRunning' = TRUE
  /\ UNCHANGED <<op, nextId, table, generation, up, staged, restarts, own, workerRest, ghosts>>

\* runPair and runRelease read the table, and there is nothing to do for a board
\* that is not in it any more; runArrange has its own.
NextTables(q) ==
  CASE q.kind = "arrange" -> {q.table}
    [] q.kind = "pair" -> {IF q.board \in ToSet(table) THEN table ELSE Append(table, q.board)}
    [] q.kind = "release" -> {RemoveAt(table, i) : i \in {k \in DOMAIN table : table[k] = q.board}}
WorkerReadsTable ==
  /\ worker.at = "read"
  /\ \E next \in NextTables(worker.request) :
       worker' = [at |-> "set", request |-> [worker.request EXCEPT !.table = next]]
  /\ UNCHANGED <<wallVars, workerRest, ghosts>>

\* No such board, no answer from it, or the table is not valid.
WorkerFails ==
  /\ \/ worker.at = "read" /\ NextTables(worker.request) = {}
     \/ worker.at = "set"
  /\ Finish(worker.request.id, "givenUp") /\ worker' = [at |-> "done"]
  /\ UNCHANGED <<nextId, table, generation, up, staged, restarts, own, request,
                 requestRunning, workerRest, ghosts>>

\* Mutants: the jobs on the rows are left open; a staged job stays.
NewTableKeepsJobs(next) ==
  /\ UNCHANGED op
  /\ table' = next /\ generation' = generation + 1
  /\ up' = [r \in RowNos |-> FALSE] /\ staged' = [r \in RowNos |-> 0] /\ restarts' = {}
NewTableKeepsStaged(next) ==
  /\ FailJobs(RowNos, "wallChanged")
  /\ table' = next /\ generation' = generation + 1
  /\ up' = [r \in RowNos |-> FALSE] /\ UNCHANGED staged /\ restarts' = {}

\* wallStateSetRows: the row numbers mean something else now, so nothing that
\* goes by them is kept.
NewTable(next) ==
  /\ FailJobs(RowNos, "wallChanged")
  /\ table' = next /\ generation' = generation + 1
  /\ up' = [r \in RowNos |-> FALSE] /\ staged' = [r \in RowNos |-> 0] /\ restarts' = {}

WorkerSetsRows ==
  /\ worker.at = "set" /\ generation < MaxTables /\ NewTable(worker.request.table)
  /\ worker' = [at |-> "stored", request |-> worker.request]
  /\ UNCHANGED <<nextId, own, request, requestRunning, workerRest, ghosts>>

WorkerFinishes ==
  /\ worker.at = "stored" /\ Finish(worker.request.id, "answered") /\ worker' = [at |-> "done"]
  /\ UNCHANGED <<nextId, table, generation, up, staged, restarts, own, request,
                 requestRunning, workerRest, ghosts>>

\* wallStateRequestDone
WorkerIsDone ==
  /\ worker.at = "done" /\ requestRunning' = FALSE /\ worker' = Idle
  /\ UNCHANGED <<op, nextId, table, generation, up, staged, restarts, own, request,
                 workerRest, ghosts>>

\* wallOwnJobTick: the display has a result for the watched job, or it is overdue ...
WorkerSeesOwnEnd ==
  /\ worker.at = "idle" /\ own # 0 /\ worker' = [at |-> "own", id |-> own]
  /\ UNCHANGED <<wallVars, workerRest, ghosts>>
WorkerFinishesOwn ==
  /\ worker.at = "own" /\ \E how \in {"answered", "givenUp"} : Finish(worker.id, how)
  /\ worker' = [worker EXCEPT !.at = "ownEnded"]
  /\ UNCHANGED <<nextId, table, generation, up, staged, restarts, own, request,
                 requestRunning, workerRest, ghosts>>

\* ... and it is no longer watched (wallOwnJobClear).
WorkerForgetsOwn ==
  /\ worker.at = "ownEnded" /\ own' = (IF own = worker.id THEN 0 ELSE own) /\ worker' = Idle
  /\ UNCHANGED <<op, nextId, table, generation, up, staged, restarts, request,
                 requestRunning, workerRest, ghosts>>

-----------------------------------------------------------------------------
(* The link task: one pass after the other *)

linkRest == <<web, worker>>
Goes(at) == link' = [link EXCEPT !.at = at, !.row = 1]

\* pass(): a new table is taken up and nothing of the old one is kept.
LinkBeginsPass ==
  /\ link.at = "top"
  /\ IF generation = link.gen
     THEN Goes("read") /\ UNCHANGED <<core, dirty>>
     ELSE /\ link' = [at |-> "read", row |-> 1, table |-> table, gen |-> generation, hand |-> 0]
          /\ core' = [r \in RowNos |-> NoContact] /\ dirty' = RowNos
  /\ UNCHANGED <<wallVars, linkRest, ghosts>>

\* readRows: a Hello of row r; with a new boot id every job of the row ends.
LinkReadsHello(r) ==
  /\ link.at = "read" /\ r \in DOMAIN link.table
  /\ \/ /\ core' = [core EXCEPT ![r].up = TRUE, ![r].known = TRUE] /\ UNCHANGED op
     \/ /\ core[r].known
        /\ core' = [core EXCEPT ![r] = [NoContact EXCEPT !.up = TRUE, !.known = TRUE]]
        /\ FailJobs({r}, "restarted")
  /\ dirty' = dirty \cup {r}
  /\ UNCHANGED <<nextId, table, generation, up, staged, restarts, own, request,
                 requestRunning, linkRest, link, ghosts>>

\* ... its connection goes ...
LinkLosesRow(r) ==
  /\ link.at \in {"read", "tick"} /\ core[r].up
  /\ core' = [core EXCEPT ![r].up = FALSE] /\ dirty' = dirty \cup {r}
  /\ UNCHANGED <<wallVars, linkRest, link, ghosts>>

\* ... it reports the end of its job (takeOpState).
LinkReadsEnd(r) ==
  /\ link.at = "read" /\ core[r].up /\ core[r].sent
  /\ Finish(core[r].job, "answered")
  /\ core' = [core EXCEPT ![r].job = 0, ![r].sent = FALSE] /\ dirty' = dirty \cup {r}
  /\ UNCHANGED <<nextId, table, generation, up, staged, restarts, own, request,
                 requestRunning, linkRest, link, ghosts>>

\* takeJobs: not while there is a table the pass does not run on ...
LinkGoesToJobs ==
  /\ link.at = "read"
  /\ Goes(IF generation = link.gen THEN "take" ELSE "tick")
  /\ UNCHANGED <<wallVars, linkRest, core, dirty, ghosts>>

\* ... row by row; a row that has a job takes no second one.
LinkTakesJob ==
  /\ link.at = "take" /\ link.hand = 0 /\ link.row \in DOMAIN link.table
  /\ LET r == link.row
     IN /\ staged' = [staged EXCEPT ![r] = 0]
        /\ IF staged[r] # 0 /\ core[r].job = 0
           THEN core' = [core EXCEPT ![r].job = staged[r]] ELSE UNCHANGED core
        /\ link' = [link EXCEPT !.row = @ + 1,
                                !.hand = IF core[r].job = 0 THEN 0 ELSE staged[r]]
  /\ UNCHANGED <<op, nextId, table, generation, up, restarts, own, request, requestRunning,
                 linkRest, dirty, ghosts>>
LinkGivesBack ==
  /\ link.at = "take" /\ link.hand # 0
  /\ Finish(link.hand, "givenUp") /\ link' = [link EXCEPT !.hand = 0]
  /\ UNCHANGED <<nextId, table, generation, up, staged, restarts, own, request,
                 requestRunning, linkRest, core, dirty, ghosts>>
LinkGoesToTick ==
  /\ link.at = "take" /\ link.hand = 0 /\ link.row \notin DOMAIN link.table
  /\ Goes("tick")
  /\ UNCHANGED <<wallVars, linkRest, core, dirty, ghosts>>

\* tick(): a job whose time is over ends; one that waits is written.
LinkGivesUp(r) ==
  /\ link.at = "tick" /\ core[r].job # 0
  /\ Finish(core[r].job, "givenUp")
  /\ core' = [core EXCEPT ![r].job = 0, ![r].sent = FALSE]
  /\ UNCHANGED <<nextId, table, generation, up, staged, restarts, own, request,
                 requestRunning, linkRest, link, dirty, ghosts>>
LinkWritesJob(r) ==
  /\ link.at = "tick" /\ core[r].job # 0 /\ ~core[r].sent /\ core[r].up
  /\ core' = [core EXCEPT ![r].sent = TRUE]
  /\ written' = [written EXCEPT ![core[r].job] = link.table[r]]
  /\ UNCHANGED <<wallVars, linkRest, link, dirty, meant, asked, told>>

\* The restarts asked for, by this table's numbers, are said once.
LinkGoesToRestarts ==
  /\ link.at = "tick"
  /\ Goes(IF generation = link.gen THEN "restarts" ELSE "publish")
  /\ UNCHANGED <<wallVars, linkRest, core, dirty, ghosts>>
LinkTellsRestarts ==
  /\ link.at = "restarts" /\ Goes("publish")
  /\ restarts' = {}
  /\ told' = told \cup {<<asked[r], link.table[r]>> :
                          r \in {k \in restarts \cap DOMAIN link.table : core[k].up}}
  /\ asked' = [r \in RowNos |-> NoBoard]
  /\ UNCHANGED <<op, nextId, table, generation, up, staged, own, request, requestRunning,
                 linkRest, core, dirty, meant, written>>

\* publish(): row by row, what changed, and now and then every connected row.
LinkPublishes ==
  /\ link.at = "publish" /\ link.row \in RowNos
  /\ LET r == link.row
     IN /\ IF r \in dirty THEN up' = [up EXCEPT ![r] = core[r].up]
           ELSE \/ core[r].up /\ up' = [up EXCEPT ![r] = TRUE]
                \/ UNCHANGED up
        /\ dirty' = dirty \ {r}
  /\ link' = [link EXCEPT !.row = @ + 1]
  /\ UNCHANGED <<op, nextId, table, generation, staged, restarts, own, request,
                 requestRunning, linkRest, core, ghosts>>
LinkEndsPass ==
  /\ link.at = "publish" /\ link.row \notin RowNos /\ Goes("top")
  /\ UNCHANGED <<wallVars, linkRest, core, dirty, ghosts>>

-----------------------------------------------------------------------------
WebStarts == \E kind \in Asks \ {"own", "pair"} : WebReadsTable(kind)
WebStep ==
  \/ WebFindsConnected \/ WebBeginsJob \/ WebStages \/ WebGivesUp
  \/ WebQueuesOwnJob \/ WebSetsOwnJob
  \/ WebChecksNoJob \/ WebAsksRestart \/ WebFindsNoPlace \/ WebStagesRequest
WorkerStep ==
  \/ WorkerReadsTable \/ WorkerFails \/ WorkerSetsRows \/ WorkerFinishes \/ WorkerIsDone
  \/ WorkerFinishesOwn \/ WorkerForgetsOwn
LinkEvent(r) == LinkReadsHello(r) \/ LinkLosesRow(r) \/ LinkReadsEnd(r) \/ LinkWritesJob(r)
LinkPass ==
  \/ LinkBeginsPass \/ LinkGoesToJobs \/ LinkTakesJob \/ LinkGivesBack \/ LinkGoesToTick
  \/ LinkGoesToRestarts \/ LinkTellsRestarts \/ LinkPublishes \/ LinkEndsPass

Next ==
  \/ WebStarts \/ WebBeginsOwnJob \/ WebBeginsRequest \/ WebStep
  \/ WorkerTakesRequest \/ WorkerSeesOwnEnd \/ WorkerStep
  \/ LinkPass \/ \E r \in RowNos : LinkEvent(r) \/ LinkGivesUp(r)

Spec == Init /\ [][Next]_vars

(* The web server finishes the request it handles, the worker goes round   *)
(* its loop, the link task its passes; time limits pass.                   *)
Fairness ==
  /\ WF_vars(WebStep \/ (web.at = "table" /\ WebBeginsRequest))
  /\ WF_vars(WorkerStep) /\ SF_vars(WorkerTakesRequest) /\ SF_vars(WorkerSeesOwnEnd)
  /\ WF_vars(LinkPass) /\ \A r \in RowNos : SF_vars(LinkGivesUp(r))

FairSpec == Spec /\ Fairness

-----------------------------------------------------------------------------
(* What must hold *)

WebTypes ==
  \/ web = Idle
  \/ /\ web.at \in {"table", "connected", "free"}
     /\ web.row \in DOMAIN web.table /\ web.gen \in 0..generation
  \/ web.at = "begun" /\ web.row \in RowNos /\ web.id \in Ids
  \/ web.at \in {"ownBegun", "ownQueued", "refused", "request"} /\ web.id \in Ids
TablesOf == {table, link.table, request.table}
            \cup (IF worker.at \in {"read", "set", "stored"} THEN {worker.request.table} ELSE {})

\* wallStateSetRows: what the wall state keeps by row number is about a row of the
\* table, and every table has each board once.
TypeOK ==
  /\ op \in [Ids -> [st : {"unborn", "running", "evicted"} \cup Ends,
                     row : RowNos \cup {NoRow, OwnRow}]]
  /\ nextId \in 1..(MaxIds + 1) /\ generation \in 0..MaxTables /\ link.gen \in 0..generation
  /\ \A t \in TablesOf : t \in Seq(Boards) /\ IsInjective(t)
  /\ up \in [RowNos -> BOOLEAN] /\ own \in Ids \cup {0}
  /\ restarts \subseteq DOMAIN table
  /\ staged \in [RowNos -> Ids \cup {0}] /\ {r \in RowNos : staged[r] # 0} \subseteq DOMAIN table
  /\ core \in [RowNos -> [up : BOOLEAN, known : BOOLEAN, job : Ids \cup {0}, sent : BOOLEAN]]
  /\ Cardinality({j \in Ids : InTable(j)}) <= Kept
  /\ WebTypes

\* wallJobStage, takeJobs and wallStateAskRestart: "a row's number means another board
\* after it": a job and a restart go to the board they were asked for, whatever becomes of
\* the table on the way.
ReachTheirBoard == /\ \A j \in Ids : written[j] \in {NoBoard, meant[j]}
                   /\ \A t \in told : t[1] = t[2]

\* Who will end the job: the request still being handled, the slot it is staged in, the link
\* task on the table in force, the worker.
Carried(j) ==
  \/ web.at \in {"begun", "refused", "ownBegun", "ownQueued", "request"} /\ web.id = j
  \/ op[j].row \in RowNos /\ staged[op[j].row] = j
  \/ op[j].row \in RowNos /\ core[op[j].row].job = j /\ link.gen = generation
  \/ link.hand = j
  \/ own = j \/ (worker.at \in {"own", "ownEnded"} /\ worker.id = j)
  \/ request.id = j \/ (worker.at \in {"read", "set", "stored"} /\ worker.request.id = j)
\* takeJobs, wallOwnJobTick, wallStateSetRows: a job that is shown as running is in
\* somebody's hands.
NoJobIsForgotten == \A j \in Ids : Running(j) => Carried(j)

\* WallOps::finish and begin: a job ends once, and a running job never loses its place.
EndsStay == [][\A j \in Ids :
  /\ Running(j) => op'[j].st # "evicted"
  /\ op[j].st \in Ends => op'[j].st \in {op[j].st, "evicted"}]_vars

\* wallJobStage, wallOwnJobTick: every job ends.
JobsEnd == \A j \in Ids : Running(j) ~> ~Running(j)

\* "No job outlives the row's restart: the caller fails them all." (WallLinkCore.h): a
\* job that was ended by the row's restart is not then given to the row.
NoJobOutlivesRestart ==
  \A r \in RowNos : core[r].sent => op[core[r].job].st # "restarted"
=============================================================================
