------------------------------ MODULE WallLink ------------------------------
(***************************************************************************)
(* The wall link: the master's connection core (Master/WallLinkCore.h and  *)
(* WallLinkPolicy.h), the row board's end of it (FollowerLink.cpp) and the *)
(* TCP connections between them.                                           *)
(*                                                                         *)
(* A row dials the master and says Hello with its id and boot id; the      *)
(* master welcomes it, says how to behave (settings, log), then hands over *)
(* the row's latest text and at most one unit job.  A connection may break *)
(* at any moment and lose what is in flight; a row or the master may       *)
(* restart.  Time is not modelled: a timeout of the code is an action that *)
(* may happen whenever the code's other conditions for it hold.            *)
(***************************************************************************)
EXTENDS Naturals, FiniteSets, Sequences, SequencesExt

CONSTANTS
  Rows,          \* the row boards of the wall (the rows table)
  Links,         \* names for TCP connections, recycled when both ends let go
  Stranger,      \* a device that opens connections and is no row
  Nobody,        \* no row: a connection before its Hello
  NoLink,        \* no connection
  Addrs,         \* network addresses
  PairedAt,      \* the address each row was paired at
  Texts,         \* texts the wall can show
  Blank,         \* what a row has before any text
  Settings,      \* what tellSettings says, in its order
  MaxConns,      \* WALL_LINK_MAX_CONNS
  Room,          \* messages a socket's buffers hold
  MaxJobs,       \* bound: unit jobs one life of the master begins
  MaxTexts,      \* bound: texts set per row
  MaxChanges,    \* bound: changes of a setting or of who reads a row's log
  MaxFaults,     \* bound: breaks, restarts, timeouts and strangers
  MasterLives    \* bound: times the master starts

ASSUME CountsAreNaturals ==
  /\ MaxConns \in Nat \ {0} /\ Room \in Nat \ {0} /\ MasterLives \in Nat \ {0}
  /\ MaxJobs \in Nat /\ MaxTexts \in Nat /\ MaxChanges \in Nat /\ MaxFaults \in Nat

ASSUME NamesAreDistinct ==
  /\ NoLink \notin Links
  /\ Nobody \notin Rows /\ Stranger \notin Rows /\ Stranger # Nobody
  /\ Blank \notin Texts

ASSUME TablesAreTyped ==
  /\ PairedAt \in [Rows -> Addrs]
  /\ Settings \in Seq(STRING)

VARIABLES
  \* the master
  life,      \* which start of the master this is
  conn,      \* rows[r].conn
  busy,      \* rows[r].contact.busy
  knownBoot, \* rows[r].contact.bootId, 0 while haveBootId is false
  text,      \* rows[r].text
  job,       \* rows[r].job
  told,      \* rows[r].configSent, hostSent, quietSent: the settings said
  logTold,   \* rows[r].logTold
  wish,      \* the value each setting is to have
  logWanted, \* rows[r].logWanted
  nobodies,  \* the open connections with conns[].row = -1, oldest first
  nextId,    \* WallOps.nextId
  result,    \* how each job stands in the master's job table
  \* the row boards
  boot,      \* bootId
  sock,      \* the connection `sock` is on
  welcomed,  \* welcomed
  op,        \* linkOp and the result slot of its job
  busySent,  \* busySent
  lastSeq,   \* the last render taken on this connection
  shows,     \* the text last taken for the drums
  known,     \* the settings the row has
  logOn,     \* logOn
  \* the network
  link,      \* the TCP connections
  \* history and bounds
  ran, done, \* jobs a row has started, jobs a row has finished
  texts, changes, faults

masterVars == <<life, conn, busy, knownBoot, text, job, told, logTold,
                wish, logWanted, nobodies, nextId, result>>
rowVars    == <<boot, sock, welcomed, op, busySent, lastSeq, shows, known, logOn>>
ghostVars  == <<ran, done>>
bounds     == <<texts, changes, faults>>
vars       == <<masterVars, rowVars, link, ghostVars, bounds>>

-----------------------------------------------------------------------------
(* Messages and records *)

Kinds   == {Settings[i] : i \in DOMAIN Settings}
Jobs    == (1..MasterLives) \X (1..MaxJobs)
NoText  == [id |-> 0, shown |-> 0, pending |-> FALSE, body |-> Blank]
NoJob   == [stage |-> "none", id |-> 0]
NoOp    == [st |-> "none", job |-> <<0, 0>>]

Hello(r)         == [t |-> "Hello", row |-> r, boot |-> boot[r]]
Status(b)        == [t |-> "Status", busy |-> b]
Shown(id)        == [t |-> "Shown", id |-> id]
OpState(id, ph)  == [t |-> "OpState", id |-> id, phase |-> ph]
Welcome          == [t |-> "Welcome"]
Setting(k, v)    == [t |-> "Setting", kind |-> k, value |-> v]
LogCtl(on)       == [t |-> "LogCtl", on |-> on]
Show(id, body)   == [t |-> "Show", id |-> id, body |-> body]
\* The wire carries the id only; the life tells two jobs of one id apart here.
Op(j)            == [t |-> "Op", id |-> j[2], job |-> j]

ToMaster == [t : {"Hello"}, row : Rows, boot : Nat \ {0}]
       \cup [t : {"Status"}, busy : BOOLEAN]
       \cup [t : {"Shown"}, id : Nat]
       \cup [t : {"OpState"}, id : 1..MaxJobs,
             phase : {"running", "refused", "ok", "failed"}]
ToRow    == [t : {"Welcome"}]
       \cup [t : {"Setting"}, kind : Kinds, value : Nat]
       \cup [t : {"LogCtl"}, on : BOOLEAN]
       \cup [t : {"Show"}, id : Nat, body : Texts \cup {Blank}]
       \cup {Op(j) : j \in Jobs}

\* How a job stands: "open" is WallOpPhase::Running, the others are its ends.
Ends    == {"ok", "failed", "refused",       \* the row's answer
            "notHandedOver", "noResult",     \* WallJobEnd
            "restarted",                     \* the row restarted
            "wallChanged",                   \* the rows table changed
            "forgotten"}                     \* the master restarted
Results == {"none", "open"} \cup Ends

(* A TCP connection: who dialled it and from where, whether that end is    *)
(* still held, the master's end, the row the master took it for, whether   *)
(* the network has cut it, and what is on its way in each direction.       *)
Connections ==
  [by : Rows \cup {Stranger, Nobody}, at : Addrs \cup {NoLink}, held : BOOLEAN,
   m : {"gone", "backlog", "open"}, of : Rows \cup {Nobody}, cut : BOOLEAN,
   up : Seq(ToMaster), down : Seq(ToRow)]
Free == [by |-> Nobody, at |-> NoLink, held |-> FALSE, m |-> "gone",
         of |-> Nobody, cut |-> FALSE, up |-> <<>>, down |-> <<>>]
Fresh(d, a, first) ==
  [by |-> d, at |-> a, held |-> TRUE, m |-> "backlog",
   of |-> Nobody, cut |-> FALSE, up |-> first, down |-> <<>>]

\* One end lets go of a connection: what it had not read is lost, and the
\* name is free once the other end has let go too.
MasterLetsGo(c) == IF c.held
                   THEN [c EXCEPT !.m = "gone", !.of = Nobody, !.up = <<>>]
                   ELSE Free
DialerLetsGo(c) == IF c.m = "gone" THEN Free
                   ELSE [c EXCEPT !.held = FALSE, !.down = <<>>]

\* A write into a connection: it arrives unless the network has cut it or the
\* other end has let go.
Down(c, msg) == IF c.cut \/ ~c.held THEN c ELSE [c EXCEPT !.down = Append(@, msg)]
Up(c, msg)   == IF c.cut \/ c.m = "gone" THEN c ELSE [c EXCEPT !.up = Append(@, msg)]

ReadDown(c)  == [c EXCEPT !.down = Tail(@)]
ReadUp(c)    == [c EXCEPT !.up = Tail(@)]

OpenConns    == {l \in Links : link[l].m = "open"}
Without(s, x) == IF \E i \in DOMAIN s : s[i] = x
                 THEN RemoveAt(s, CHOOSE i \in DOMAIN s : s[i] = x)
                 ELSE s

-----------------------------------------------------------------------------
Init ==
  /\ life = 1
  /\ conn = [r \in Rows |-> NoLink] /\ busy = [r \in Rows |-> FALSE]
  /\ knownBoot = [r \in Rows |-> 0]
  /\ text = [r \in Rows |-> NoText] /\ job = [r \in Rows |-> NoJob]
  /\ told = [r \in Rows |-> {}] /\ logTold = [r \in Rows |-> FALSE]
  /\ wish = [k \in Kinds |-> 0] /\ logWanted = [r \in Rows |-> FALSE]
  /\ nobodies = <<>> /\ nextId = 1
  /\ result = [j \in Jobs |-> "none"]
  /\ boot = [r \in Rows |-> 1]
  /\ sock = [r \in Rows |-> NoLink] /\ welcomed = [r \in Rows |-> FALSE]
  /\ op = [r \in Rows |-> NoOp] /\ busySent = [r \in Rows |-> FALSE]
  /\ lastSeq = [r \in Rows |-> 0] /\ shows = [r \in Rows |-> Blank]
  /\ known = [r \in Rows |-> [k \in Kinds |-> 0]] /\ logOn = [r \in Rows |-> FALSE]
  /\ link = [l \in Links |-> Free]
  /\ ran = {} /\ done = {}
  /\ texts = [r \in Rows |-> 0] /\ changes = 0 /\ faults = 0

Fault == faults < MaxFaults /\ faults' = faults + 1 /\ UNCHANGED <<texts, changes>>

-----------------------------------------------------------------------------
(* The network *)

\* linkLoopTick: a row without a connection dials and says Hello at once.
Dial(r, l, a) ==
  /\ sock[r] = NoLink /\ link[l] = Free
  /\ link' = [link EXCEPT ![l] = Fresh(r, a, <<Hello(r)>>)]
  /\ sock' = [sock EXCEPT ![r] = l]
  /\ UNCHANGED <<masterVars, boot, welcomed, op, busySent, lastSeq, shows, known, logOn,
                 ghostVars, bounds>>

\* Something that is no row opens a connection and says nothing.
StrangerDials(l, a) ==
  /\ link[l] = Free /\ Fault
  /\ link' = [link EXCEPT ![l] = Fresh(Stranger, a, <<>>)]
  /\ UNCHANGED <<masterVars, rowVars, ghostVars>>

\* ... and closes it.
StrangerCloses(l) ==
  /\ link[l].by = Stranger /\ link[l].held
  /\ link' = [link EXCEPT ![l] = DialerLetsGo(@)]
  /\ UNCHANGED <<masterVars, rowVars, ghostVars, bounds>>

\* The network cuts a connection: of what is in flight only a first part of
\* each direction still arrives.
Break(l, u, d) ==
  /\ link[l].by # Nobody /\ ~link[l].cut /\ Fault
  /\ u <= Len(link[l].up) /\ d <= Len(link[l].down)
  /\ link' = [link EXCEPT ![l].cut = TRUE,
                          ![l].up = SubSeq(@, 1, u),
                          ![l].down = SubSeq(@, 1, d)]
  /\ UNCHANGED <<masterVars, rowVars, ghostVars>>

-----------------------------------------------------------------------------
(* The master: connections *)

\* Mutants: the row keeps the connection that went; it gets the wrong sentinel.
ClosedKeepsConn(l) ==
  /\ UNCHANGED <<conn, busy>> /\ nobodies' = Without(nobodies, l)
ClosedMixesSentinels(l) ==
  /\ conn' = [r \in Rows |-> IF conn[r] = l THEN Nobody ELSE conn[r]]
  /\ busy' = [r \in Rows |-> IF conn[r] = l THEN FALSE ELSE busy[r]]
  /\ nobodies' = Without(nobodies, l)

\* drop() and closed(): the row of connection l, if it has one, is away.
Closed(l) ==
  /\ conn' = [r \in Rows |-> IF conn[r] = l THEN NoLink ELSE conn[r]]
  /\ busy' = [r \in Rows |-> IF conn[r] = l THEN FALSE ELSE busy[r]]
  /\ nobodies' = Without(nobodies, l)

masterButConns == <<life, knownBoot, text, job, told, logTold, wish, logWanted,
                    nextId, result>>

\* acceptRows and accept(): with every slot taken, the connection that has
\* been nobody the longest makes way; with none to make way, this one is closed.
Accept(l) ==
  /\ link[l].m = "backlog"
  /\ \/ /\ Cardinality(OpenConns) < MaxConns
        /\ link' = [link EXCEPT ![l].m = "open"]
        /\ nobodies' = Append(nobodies, l)
     \/ /\ Cardinality(OpenConns) >= MaxConns /\ nobodies # <<>>
        /\ LET roomier == [link EXCEPT ![Head(nobodies)] = MasterLetsGo(@)]
           IN link' = [roomier EXCEPT ![l].m = "open"]
        /\ nobodies' = Append(Tail(nobodies), l)
     \/ /\ Cardinality(OpenConns) >= MaxConns /\ nobodies = <<>>
        /\ link' = [link EXCEPT ![l] = MasterLetsGo(@)]
        /\ UNCHANGED nobodies
  /\ UNCHANGED <<conn, busy, masterButConns, rowVars, ghostVars, bounds>>

\* tick(): no Hello in time.  A pass reads all that has arrived before it judges the time,
\* so there is nothing left to read.
HelloTimeout(l) ==
  /\ link[l].m = "open" /\ link[l].of = Nobody /\ link[l].up = <<>>
  /\ link' = [link EXCEPT ![l] = MasterLetsGo(@)]
  /\ Closed(l)
  /\ UNCHANGED <<masterButConns, rowVars, ghostVars, bounds>>

\* Mutant: a connection the network cut is never noticed.
SeesClosedOnlyByFin(l) ==
  /\ link[l].m = "open" /\ link[l].up = <<>> /\ ~link[l].cut /\ ~link[l].held
  /\ link' = [link EXCEPT ![l] = MasterLetsGo(@)]
  /\ Closed(l)
  /\ UNCHANGED <<masterButConns, rowVars, ghostVars, bounds>>

\* readRows and lost(): everything that arrived has been read and the socket
\* is gone.
SeesClosed(l) ==
  /\ link[l].m = "open" /\ link[l].up = <<>> /\ (link[l].cut \/ ~link[l].held)
  /\ link' = [link EXCEPT ![l] = MasterLetsGo(@)]
  /\ Closed(l)
  /\ UNCHANGED <<masterButConns, rowVars, ghostVars, bounds>>

\* tick(): a row that is not busy was not heard from for WALL_LINK_LOST_MS.
DropSilent(r) ==
  /\ conn[r] # NoLink /\ ~busy[r] /\ Fault
  /\ link' = [link EXCEPT ![conn[r]] = MasterLetsGo(@)]
  /\ Closed(conn[r])
  /\ UNCHANGED <<masterButConns, rowVars, ghostVars>>

\* hello() refuses a newcomer for a row that is connected from elsewhere.
FromElsewhere(l, r) ==
  /\ conn[r] # NoLink
  /\ link[l].at # PairedAt[r]
  /\ link[l].at # link[conn[r]].at

\* What a row sent before it restarted was read before it could dial again: a
\* restart takes seconds, a pass of the link task milliseconds.
NoOlderHello(l) ==
  \A k \in Links \ {l} :
    link[k].m # "gone" /\ link[k].up # <<>> /\ Head(link[k].up).t = "Hello"
    /\ Head(link[k].up).row = Head(link[l].up).row
      => Head(link[k].up).boot >= Head(link[l].up).boot

\* A text that is to go out, under the next render id.
ToSend(t, body) == [id |-> t.id + 1, shown |-> t.shown, pending |-> TRUE, body |-> body]

\* Mutants: the text keeps its number on a new connection; it is not sent again.
ResendSameId(t) == IF t.id = 0 THEN t ELSE [t EXCEPT !.pending = TRUE]
ResendNotPending(t) == IF t.id = 0 THEN t ELSE [t EXCEPT !.id = @ + 1]

\* wallRowTextResend: on a new connection a text is sent again, as a new one.
Resend(t) == IF t.id = 0 THEN t ELSE ToSend(t, t.body)

\* hello(): the newcomer replaces the row's connection, is welcomed, and gets
\* its text, settings and log state anew; a new boot id ends the open job and
\* fails every job of the row.
ReadHello(l) ==
  /\ link[l].m = "open" /\ link[l].of = Nobody /\ link[l].up # <<>>
  /\ Head(link[l].up).t = "Hello" /\ NoOlderHello(l)
  /\ LET hello == Head(link[l].up)
         r == hello.row
         restarted == knownBoot[r] # 0 /\ knownBoot[r] # hello.boot
         popped == ReadUp(link[l])
         replaced == [k \in Links |-> IF k = conn[r] THEN MasterLetsGo(link[k]) ELSE link[k]]
     IN \/ \* another address
           /\ FromElsewhere(l, r)
           /\ link' = [link EXCEPT ![l] = MasterLetsGo(popped)]
           /\ Closed(l)
           /\ UNCHANGED masterButConns
        \/ \* Welcome not written: the old connection is gone all the same
           /\ ~FromElsewhere(l, r) /\ link[l].cut
           /\ link' = [replaced EXCEPT ![l] = MasterLetsGo(popped)]
           /\ conn' = [conn EXCEPT ![r] = NoLink]
           /\ busy' = [busy EXCEPT ![r] = FALSE]
           /\ nobodies' = Without(nobodies, l)
           /\ UNCHANGED masterButConns
        \/ /\ ~FromElsewhere(l, r)
           /\ link' = [replaced EXCEPT ![l] = [Down(popped, Welcome) EXCEPT !.of = r]]
           /\ conn' = [conn EXCEPT ![r] = l]
           /\ busy' = [busy EXCEPT ![r] = FALSE]
           /\ nobodies' = Without(nobodies, l)
           /\ knownBoot' = [knownBoot EXCEPT ![r] = hello.boot]
           /\ text' = [text EXCEPT ![r] = Resend(@)]
           /\ told' = [told EXCEPT ![r] = {}]
           /\ logTold' = [logTold EXCEPT ![r] = FALSE]
           /\ IF restarted
              THEN /\ job' = [job EXCEPT ![r] = NoJob]
                   /\ result' = IF job[r] = NoJob THEN result
                                ELSE [result EXCEPT ![<<life, job[r].id>>] = "restarted"]
              ELSE UNCHANGED <<job, result>>
           /\ UNCHANGED <<life, wish, logWanted, nextId>>
  /\ UNCHANGED <<rowVars, ghostVars, bounds>>

-----------------------------------------------------------------------------
(* The master: messages of a welcomed row *)

\* The next message of row r, and the connections once it is read.
Arrived(r, t) ==
  conn[r] # NoLink /\ link[conn[r]].up # <<>> /\ Head(link[conn[r]].up).t = t
FromRow(r) == Head(link[conn[r]].up)
ReadOff(r) == link' = [link EXCEPT ![conn[r]] = ReadUp(@)]

ReadStatus(r) ==
  /\ Arrived(r, "Status") /\ ReadOff(r)
  /\ busy' = [busy EXCEPT ![r] = FromRow(r).busy]
  /\ UNCHANGED <<life, conn, knownBoot, text, job, told, logTold, wish, logWanted,
                 nobodies, nextId, result, rowVars, ghostVars, bounds>>

ReadShown(r) ==
  /\ Arrived(r, "Shown") /\ ReadOff(r)
  /\ text' = [text EXCEPT ![r].shown = FromRow(r).id]
  /\ UNCHANGED <<life, conn, busy, knownBoot, job, told, logTold, wish, logWanted,
                 nobodies, nextId, result, rowVars, ghostVars, bounds>>

\* Mutants: any OpState is about the open job; an answered job stays open.
AnswersAnyId(r, state) == job[r].stage = "sent"
ReadOpStateKeepsJob(r) ==
  /\ Arrived(r, "OpState") /\ ReadOff(r)
  /\ IF /\ job[r].stage = "sent" /\ FromRow(r).id = job[r].id
        /\ FromRow(r).phase # "running"
     THEN result' = [result EXCEPT ![<<life, job[r].id>>] = FromRow(r).phase]
     ELSE UNCHANGED result
  /\ UNCHANGED <<life, conn, busy, knownBoot, text, job, told, logTold, wish, logWanted,
                 nobodies, nextId, rowVars, ghostVars, bounds>>

\* wallJobAnswer and takeOpState: an OpState about the row's open job; one
\* that is not RUNNING ends it.
Answers(r, state) == job[r].stage = "sent" /\ state.id = job[r].id
ReadOpState(r) ==
  /\ Arrived(r, "OpState") /\ ReadOff(r)
  /\ IF Answers(r, FromRow(r)) /\ FromRow(r).phase # "running"
     THEN /\ job' = [job EXCEPT ![r] = NoJob]
          /\ result' = [result EXCEPT ![<<life, job[r].id>>] = FromRow(r).phase]
     ELSE UNCHANGED <<job, result>>
  /\ UNCHANGED <<life, conn, busy, knownBoot, text, told, logTold, wish, logWanted,
                 nobodies, nextId, rowVars, ghostVars, bounds>>

-----------------------------------------------------------------------------
(* The master: what tick() writes to a row, in its order *)

\* The socket of row r takes one more message.
Takes(r) == conn[r] # NoLink /\ Len(link[conn[r]].down) < Room
Write(r, msg) == link' = [link EXCEPT ![conn[r]] = Down(@, msg)]

Owes(r)    == Kinds \ told[r]
TextDue(r) == text[r].pending /\ ~busy[r]
JobDue(r)  == job[r].stage = "waiting" /\ ~busy[r]

\* tellSettings: the first setting still owed.
TellSetting(r) ==
  /\ Takes(r) /\ ~busy[r]
  /\ \E i \in DOMAIN Settings :
       /\ Settings[i] \in Owes(r) /\ \A n \in 1..(i - 1) : Settings[n] \notin Owes(r)
       /\ Write(r, Setting(Settings[i], wish[Settings[i]]))
       /\ told' = [told EXCEPT ![r] = @ \cup {Settings[i]}]
  /\ UNCHANGED <<life, conn, busy, knownBoot, text, job, logTold, wish, logWanted,
                 nobodies, nextId, result, rowVars, ghostVars, bounds>>

TellLog(r) ==
  /\ Takes(r) /\ ~busy[r] /\ Owes(r) = {} /\ logWanted[r] # logTold[r]
  /\ Write(r, LogCtl(logWanted[r]))
  /\ logTold' = [logTold EXCEPT ![r] = logWanted[r]]
  /\ UNCHANGED <<life, conn, busy, knownBoot, text, job, told, wish, logWanted,
                 nobodies, nextId, result, rowVars, ghostVars, bounds>>

SendShow(r) ==
  /\ Takes(r) /\ Owes(r) = {} /\ TextDue(r)
  /\ Write(r, Show(text[r].id, text[r].body))
  /\ text' = [text EXCEPT ![r].pending = FALSE]
  /\ UNCHANGED <<life, conn, busy, knownBoot, job, told, logTold, wish, logWanted,
                 nobodies, nextId, result, rowVars, ghostVars, bounds>>

\* Mutant: a written job still counts as waiting.
SendOpStaysDue(r) ==
  /\ Takes(r) /\ Owes(r) = {} /\ ~TextDue(r) /\ JobDue(r)
  /\ Write(r, Op(<<life, job[r].id>>))
  /\ UNCHANGED <<life, conn, busy, knownBoot, text, job, told, logTold, wish, logWanted,
                 nobodies, nextId, result, rowVars, ghostVars, bounds>>

SendOp(r) ==
  /\ Takes(r) /\ Owes(r) = {} /\ ~TextDue(r) /\ JobDue(r)
  /\ Write(r, Op(<<life, job[r].id>>))
  /\ job' = [job EXCEPT ![r].stage = "sent"]
  /\ UNCHANGED <<life, conn, busy, knownBoot, text, told, logTold, wish, logWanted,
                 nobodies, nextId, result, rowVars, ghostVars, bounds>>

\* wallLinkPingDue: the exchange of a Ping and its Pong on a connection with
\* nothing else to say.  Both only feed timers, which are not modelled.
Ping(r) ==
  /\ conn[r] # NoLink /\ ~busy[r] /\ Owes(r) = {} /\ ~TextDue(r) /\ ~JobDue(r)
  /\ sock[r] = conn[r] /\ welcomed[r] /\ ~link[conn[r]].cut
  /\ link[conn[r]].up = <<>> /\ link[conn[r]].down = <<>>
  /\ UNCHANGED vars

\* Mutants: the ends swapped; a written job has no time limit.
JobOverdueSwapped(r) ==
  /\ job[r].stage # "none"
  /\ job' = [job EXCEPT ![r] = NoJob]
  /\ result' = [result EXCEPT ![<<life, job[r].id>>] =
                  IF job[r].stage = "sent" THEN "notHandedOver" ELSE "noResult"]
  /\ UNCHANGED <<life, conn, busy, knownBoot, text, told, logTold, wish, logWanted,
                 nobodies, nextId, link, rowVars, ghostVars, bounds>>
JobOverdueWaitingOnly(r) ==
  /\ job[r].stage = "waiting"
  /\ job' = [job EXCEPT ![r] = NoJob]
  /\ result' = [result EXCEPT ![<<life, job[r].id>>] = "notHandedOver"]
  /\ UNCHANGED <<life, conn, busy, knownBoot, text, told, logTold, wish, logWanted,
                 nobodies, nextId, link, rowVars, ghostVars, bounds>>

\* wallJobOverdue: a job the row was not handed in time, or whose end did not
\* come in time, is given up.
JobOverdue(r) ==
  /\ job[r].stage # "none"
  /\ job' = [job EXCEPT ![r] = NoJob]
  /\ result' = [result EXCEPT ![<<life, job[r].id>>] =
                  IF job[r].stage = "waiting" THEN "notHandedOver" ELSE "noResult"]
  /\ UNCHANGED <<life, conn, busy, knownBoot, text, told, logTold, wish, logWanted,
                 nobodies, nextId, link, rowVars, ghostVars, bounds>>

-----------------------------------------------------------------------------
(* The master: what the rest of it asks of the link *)

\* setText: a text the row does not already have replaces the one before it.
SetText(r, body) ==
  /\ texts[r] < MaxTexts /\ text[r].body # body
  /\ text' = [text EXCEPT ![r] = ToSend(@, body)]
  /\ texts' = [texts EXCEPT ![r] = @ + 1]
  /\ UNCHANGED <<life, conn, busy, knownBoot, job, told, logTold, wish, logWanted,
                 nobodies, nextId, result, rowVars, link, ghostVars, changes, faults>>

\* Mutant: a changed setting is told to newcomers only.
ChangeSettingQuietly(k) ==
  /\ changes < MaxChanges /\ changes' = changes + 1
  /\ wish' = [wish EXCEPT ![k] = @ + 1]
  /\ UNCHANGED <<life, conn, busy, knownBoot, text, job, told, logTold, logWanted,
                 nobodies, nextId, result, rowVars, link, ghostVars, texts, faults>>

\* setQuiet, setConfig, setHost: a changed setting is owed to every row again.
ChangeSetting(k) ==
  /\ changes < MaxChanges /\ changes' = changes + 1
  /\ wish' = [wish EXCEPT ![k] = @ + 1]
  /\ told' = [r \in Rows |-> told[r] \ {k}]
  /\ UNCHANGED <<life, conn, busy, knownBoot, text, job, logTold, logWanted,
                 nobodies, nextId, result, rowVars, link, ghostVars, texts, faults>>

\* setLogWanted: someone starts or stops reading the row's log.
WantLog(r) ==
  /\ changes < MaxChanges /\ changes' = changes + 1
  /\ logWanted' = [logWanted EXCEPT ![r] = ~@]
  /\ UNCHANGED <<life, conn, busy, knownBoot, text, job, told, logTold, wish,
                 nobodies, nextId, result, rowVars, link, ghostVars, texts, faults>>

\* wallJobBegin and startJob: one job at a time per row, named by the master.
\* (What may happen between the two is WallJobs.)
AskJob(r) ==
  /\ job[r].stage = "none" /\ nextId <= MaxJobs
  /\ job' = [job EXCEPT ![r] = [stage |-> "waiting", id |-> nextId]]
  /\ result' = [result EXCEPT ![<<life, nextId>>] = "open"]
  /\ nextId' = nextId + 1
  /\ UNCHANGED <<life, conn, busy, knownBoot, text, told, logTold, wish, logWanted,
                 nobodies, rowVars, link, ghostVars, bounds>>

\* Every connection of the master goes, and with it all it knew of the rows.
\* The jobs still open end as `how`.
ForgetsRows(how) ==
  /\ link' = [l \in Links |-> MasterLetsGo(link[l])]
  /\ conn' = [r \in Rows |-> NoLink] /\ busy' = [r \in Rows |-> FALSE]
  /\ knownBoot' = [r \in Rows |-> 0]
  /\ text' = [r \in Rows |-> NoText] /\ job' = [r \in Rows |-> NoJob]
  /\ told' = [r \in Rows |-> {}] /\ logTold' = [r \in Rows |-> FALSE]
  /\ logWanted' = [r \in Rows |-> FALSE]
  /\ nobodies' = <<>>
  /\ result' = [j \in Jobs |-> IF result[j] = "open" THEN how ELSE result[j]]

\* reset() and wallStateSetRows: the rows table changed (here: written anew).
RowsChanged ==
  /\ Fault /\ ForgetsRows("wallChanged")
  /\ UNCHANGED <<life, wish, nextId, rowVars, ghostVars>>

\* The master starts again: WallOps begins at 1, nothing is remembered.
MasterRestarts ==
  /\ life < MasterLives /\ life' = life + 1
  /\ ForgetsRows("forgotten") /\ nextId' = 1
  /\ UNCHANGED <<wish, rowVars, ghostVars, bounds>>

-----------------------------------------------------------------------------
(* The row board *)

Busy(r)  == op[r].st \in {"staged", "running"}              \* unitOpsBusy()
Writes(r) == sock[r] # NoLink /\ Len(link[sock[r]].up) < Room
Told(r, t) == sock[r] # NoLink /\ link[sock[r]].down # <<>> /\ Head(link[sock[r]].down).t = t
FromMaster(r) == Head(link[sock[r]].down)
\* The connections after row r read one message and wrote msg.
Replies(r, msg) == link' = [link EXCEPT ![sock[r]] = Up(ReadDown(@), msg)]
Reads(r)        == link' = [link EXCEPT ![sock[r]] = ReadDown(@)]
Says(r, msg)    == link' = [link EXCEPT ![sock[r]] = Up(@, msg)]

\* Mutant: no Status follows Welcome.
RowWelcomedSaysNothing(r) ==
  /\ Told(r, "Welcome") /\ ~welcomed[r] /\ Reads(r)
  /\ welcomed' = [welcomed EXCEPT ![r] = TRUE]
  /\ lastSeq' = [lastSeq EXCEPT ![r] = 0]
  /\ UNCHANGED <<masterVars, boot, sock, op, busySent, shows, known, logOn,
                 ghostVars, bounds>>

\* handle(): Welcome starts a connection, and Status goes up at once.
RowWelcomed(r) ==
  /\ Told(r, "Welcome") /\ ~welcomed[r] /\ Writes(r)
  /\ Replies(r, Status(Busy(r)))
  /\ welcomed' = [welcomed EXCEPT ![r] = TRUE]
  /\ lastSeq' = [lastSeq EXCEPT ![r] = 0]
  /\ busySent' = [busySent EXCEPT ![r] = Busy(r)]
  /\ UNCHANGED <<masterVars, boot, sock, op, shows, known, logOn, ghostVars, bounds>>

\* handle(): a text newer than the last on this connection is taken and
\* answered with Shown (clusterFollowerAcceptRender).
RowTakesText(r) ==
  /\ Told(r, "Show") /\ welcomed[r] /\ Writes(r)
  /\ IF FromMaster(r).id > lastSeq[r]
     THEN /\ Replies(r, Shown(FromMaster(r).id))
          /\ lastSeq' = [lastSeq EXCEPT ![r] = FromMaster(r).id]
          /\ shows' = [shows EXCEPT ![r] = FromMaster(r).body]
     ELSE Reads(r) /\ UNCHANGED <<lastSeq, shows>>
  /\ UNCHANGED <<masterVars, boot, sock, welcomed, op, busySent, known, logOn,
                 ghostVars, bounds>>

RowTakesSetting(r) ==
  /\ Told(r, "Setting") /\ welcomed[r] /\ Reads(r)
  /\ known' = [known EXCEPT ![r][FromMaster(r).kind] = FromMaster(r).value]
  /\ UNCHANGED <<masterVars, boot, sock, welcomed, op, busySent, lastSeq, shows, logOn,
                 ghostVars, bounds>>

RowTakesLogCtl(r) ==
  /\ Told(r, "LogCtl") /\ welcomed[r] /\ Reads(r)
  /\ logOn' = [logOn EXCEPT ![r] = FromMaster(r).on]
  /\ UNCHANGED <<masterVars, boot, sock, welcomed, op, busySent, lastSeq, shows, known,
                 ghostVars, bounds>>

\* handleOp: one job at a time, which outlives the connection; anything the
\* plan or the row's state forbids is refused.
RowTakesOp(r) ==
  /\ Told(r, "Op") /\ welcomed[r] /\ Writes(r)
  /\ \/ /\ op[r].st = "none"
        /\ op' = [op EXCEPT ![r] = [st |-> "staged", job |-> FromMaster(r).job]]
        /\ Replies(r, OpState(FromMaster(r).id, "running"))
     \/ /\ Replies(r, OpState(FromMaster(r).id, "refused"))
        /\ UNCHANGED op
  /\ UNCHANGED <<masterVars, boot, sock, welcomed, busySent, lastSeq, shows, known, logOn,
                 ghostVars, bounds>>

\* unitJobsLoopTick: the staged job runs on the units ...
UnitJobStarts(r) ==
  /\ op[r].st = "staged"
  /\ op' = [op EXCEPT ![r].st = "running"]
  /\ ran' = ran \cup {op[r].job}
  /\ UNCHANGED <<masterVars, boot, sock, welcomed, busySent, lastSeq, shows, known, logOn,
                 link, done, bounds>>

\* ... and its result is stamped.
UnitJobEnds(r, how) ==
  /\ op[r].st = "running"
  /\ op' = [op EXCEPT ![r].st = how]
  /\ done' = done \cup {op[r].job}
  /\ UNCHANGED <<masterVars, boot, sock, welcomed, busySent, lastSeq, shows, known, logOn,
                 link, ran, bounds>>

\* opTick: the end goes to the master; the job is over once it is written.
RowReportsEnd(r) ==
  /\ welcomed[r] /\ op[r].st \in {"ok", "failed"} /\ Writes(r)
  /\ Says(r, OpState(op[r].job[2], op[r].st))
  /\ op' = [op EXCEPT ![r] = NoOp]
  /\ UNCHANGED <<masterVars, boot, sock, welcomed, busySent, lastSeq, shows, known, logOn,
                 ghostVars, bounds>>

\* sendStatus: when the row became busy or free since the last one.
RowSaysStatus(r) ==
  /\ welcomed[r] /\ Busy(r) # busySent[r] /\ Writes(r)
  /\ Says(r, Status(Busy(r)))
  /\ busySent' = [busySent EXCEPT ![r] = Busy(r)]
  /\ UNCHANGED <<masterVars, boot, sock, welcomed, op, lastSeq, shows, known, logOn,
                 ghostVars, bounds>>

\* drop(): the row lets go of its connection.
RowDrops(r) ==
  /\ link' = [link EXCEPT ![sock[r]] = DialerLetsGo(@)]
  /\ sock' = [sock EXCEPT ![r] = NoLink]
  /\ welcomed' = [welcomed EXCEPT ![r] = FALSE]
  /\ logOn' = [logOn EXCEPT ![r] = FALSE]

\* linkLoopTick: everything that arrived is read and the connection is gone.
RowSeesClosed(r) ==
  /\ sock[r] # NoLink
  /\ link[sock[r]].down = <<>> /\ (link[sock[r]].cut \/ link[sock[r]].m = "gone")
  /\ RowDrops(r)
  /\ UNCHANGED <<masterVars, boot, op, busySent, lastSeq, shows, known, ghostVars, bounds>>

\* No Welcome, no word from the master, a write that failed, WiFi gone.
RowGivesUp(r) ==
  /\ sock[r] # NoLink /\ Fault /\ RowDrops(r)
  /\ UNCHANGED <<masterVars, boot, op, busySent, lastSeq, shows, known, ghostVars>>

\* The row restarts: its connection, its job and what it showed are gone.
RowRestarts(r) ==
  /\ Fault
  /\ boot' = [boot EXCEPT ![r] = @ + 1]
  /\ link' = IF sock[r] = NoLink THEN link
             ELSE [link EXCEPT ![sock[r]] = DialerLetsGo(@)]
  /\ sock' = [sock EXCEPT ![r] = NoLink]
  /\ welcomed' = [welcomed EXCEPT ![r] = FALSE]
  /\ logOn' = [logOn EXCEPT ![r] = FALSE]
  /\ op' = [op EXCEPT ![r] = NoOp]
  /\ busySent' = [busySent EXCEPT ![r] = FALSE]
  /\ lastSeq' = [lastSeq EXCEPT ![r] = 0]
  /\ shows' = [shows EXCEPT ![r] = Blank]
  /\ known' = [known EXCEPT ![r] = [k \in Kinds |-> 0]]
  /\ UNCHANGED <<masterVars, ghostVars>>

-----------------------------------------------------------------------------
MasterStep(r) ==
  \/ ReadStatus(r) \/ ReadShown(r) \/ ReadOpState(r)
  \/ TellSetting(r) \/ TellLog(r) \/ SendShow(r) \/ SendOp(r) \/ Ping(r)
RowStep(r) ==
  \/ RowWelcomed(r) \/ RowTakesText(r) \/ RowTakesSetting(r) \/ RowTakesLogCtl(r)
  \/ RowTakesOp(r) \/ UnitJobStarts(r) \/ \E how \in {"ok", "failed"} : UnitJobEnds(r, how)
  \/ RowReportsEnd(r) \/ RowSaysStatus(r) \/ RowSeesClosed(r)
Asked(r) == AskJob(r) \/ WantLog(r) \/ \E body \in Texts : SetText(r, body)
Faulty(r) == DropSilent(r) \/ RowGivesUp(r) \/ RowRestarts(r)
OnLink(l) ==
  \/ Accept(l) \/ HelloTimeout(l) \/ SeesClosed(l) \/ ReadHello(l)
  \/ StrangerCloses(l)
  \/ \E a \in Addrs : StrangerDials(l, a)
  \/ \E u, d \in 0..Room : Break(l, u, d)

Next ==
  \/ \E r \in Rows : MasterStep(r) \/ RowStep(r) \/ JobOverdue(r) \/ Asked(r) \/ Faulty(r)
  \/ \E r \in Rows, l \in Links, a \in Addrs : Dial(r, l, a)
  \/ \E l \in Links : OnLink(l)
  \/ \E k \in Kinds : ChangeSetting(k)
  \/ RowsChanged \/ MasterRestarts

Spec == Init /\ [][Next]_vars

(* Everything but faults, strangers and requests goes on: the tasks of the *)
(* master and the loop of the row never stop taking their passes, a job on *)
(* the units comes to an end, and the master gives a job up in time.       *)
Fairness ==
  /\ \A r \in Rows :
       /\ WF_vars(ReadStatus(r)) /\ WF_vars(ReadShown(r)) /\ WF_vars(ReadOpState(r))
       /\ WF_vars(TellSetting(r)) /\ WF_vars(TellLog(r))
       /\ WF_vars(SendShow(r)) /\ WF_vars(SendOp(r)) /\ WF_vars(JobOverdue(r))
       /\ WF_vars(RowStep(r))
       /\ WF_vars(\E l \in Links, a \in Addrs : Dial(r, l, a))
  /\ \A l \in Links :
       /\ WF_vars(Accept(l)) /\ WF_vars(HelloTimeout(l))
       /\ WF_vars(SeesClosed(l)) /\ WF_vars(ReadHello(l))

FairSpec == Spec /\ Fairness

-----------------------------------------------------------------------------
(* What must hold *)

MasterTypes ==
  /\ life \in 1..MasterLives /\ nextId \in 1..(MaxJobs + 1)
  /\ conn \in [Rows -> Links \cup {NoLink}] /\ busy \in [Rows -> BOOLEAN]
  /\ knownBoot \in [Rows -> Nat]
  /\ text \in [Rows -> [id : Nat, shown : Nat, pending : BOOLEAN, body : Texts \cup {Blank}]]
  /\ job \in [Rows -> {NoJob} \cup [stage : {"waiting", "sent"}, id : 1..MaxJobs]]
  /\ told \in [Rows -> SUBSET Kinds] /\ logTold \in [Rows -> BOOLEAN]
  /\ wish \in [Kinds -> Nat] /\ logWanted \in [Rows -> BOOLEAN]
  /\ nobodies \in Seq(Links)
  /\ result \in [Jobs -> Results]
RowTypes ==
  /\ boot \in [Rows -> Nat \ {0}]
  /\ sock \in [Rows -> Links \cup {NoLink}] /\ welcomed \in [Rows -> BOOLEAN]
  /\ op \in [Rows -> {NoOp} \cup [st : {"staged", "running", "ok", "failed"}, job : Jobs]]
  /\ busySent \in [Rows -> BOOLEAN] /\ lastSeq \in [Rows -> Nat]
  /\ shows \in [Rows -> Texts \cup {Blank}]
  /\ known \in [Rows -> [Kinds -> Nat]] /\ logOn \in [Rows -> BOOLEAN]
LinkTypes == link \in [Links -> Connections]
HistoryTypes ==
  /\ ran \in SUBSET Jobs /\ done \in SUBSET Jobs
  /\ texts \in [Rows -> Nat] /\ changes \in Nat /\ faults \in Nat

\* The values every variable keeps to, whatever handler runs.
TypeOK == MasterTypes /\ RowTypes /\ LinkTypes /\ HistoryTypes

\* closed(), hello() and accept(): conns[].row and rows[].conn name each other: a row has
\* one connection, which is open and was dialled by that row, a connection is of one row or
\* among the nobodies, which are kept once each, and there are never more than MaxConns.
TablesAgree ==
  /\ \A r \in Rows : conn[r] # NoLink =>
       link[conn[r]].m = "open" /\ link[conn[r]].of = r /\ link[conn[r]].by = r
  /\ \A l \in Links : link[l].of # Nobody => conn[link[l].of] = l
  /\ {nobodies[i] : i \in DOMAIN nobodies} = {l \in OpenConns : link[l].of = Nobody}
  /\ \A i, k \in DOMAIN nobodies : i # k => nobodies[i] # nobodies[k]
  /\ Cardinality(OpenConns) <= MaxConns

\* wallJobOverdue: "The master never wrote it, so the row cannot be running it", and the same
\* for a job the row refused: neither has run, and neither runs later.
NotHandedNeverRan ==
  \A j \in Jobs : result[j] \in {"none", "notHandedOver", "refused"} => j \notin ran

\* tick() and handleOp: a job a row has taken and not begun has not run before: none runs twice.
NoJobRunsTwice == \A r \in Rows : op[r].st = "staged" => op[r].job \notin ran

(* Where a job is: on the wire, with a row, begun; and the jobs that must  *)
(* be nowhere: not asked for, still with the master, given back, refused.  *)
OpsOn(c, j) == {i \in DOMAIN c.down : c.down[i] = Op(j)}
OnWire(j)   == \E l \in Links : OpsOn(link[l], j) # {}
Held(j)     == \E r \in Rows : op[r].st # "none" /\ op[r].job = j
Waiting(j)  == \E r \in Rows : job[r].stage = "waiting" /\ j = <<life, job[r].id>>
Refusal(c, id) == \E i \in DOMAIN c.up : c.up[i] = OpState(id, "refused")
Refusing(j) == j[1] = life /\ \E l \in Links : Refusal(link[l], j[2])
NotRun      == {"none", "notHandedOver", "refused"}

\* Such a job is nowhere ...
NowhereYet == \A j \in Jobs :
  result[j] \in NotRun \/ Waiting(j) \/ Refusing(j) =>
    ~OnWire(j) /\ ~Held(j) /\ j \notin ran
\* ... and any other is in one place.
InOnePlace ==
  /\ \A j \in Jobs : OnWire(j) => ~Held(j) /\ j \notin ran
  /\ \A j \in Jobs, l, k \in Links :
       \A i \in OpsOn(link[l], j), n \in OpsOn(link[k], j) : l = k /\ i = n
  /\ \A r, q \in Rows : op[r].st # "none" /\ op[q].st # "none" /\ op[r].job = op[q].job => r = q
  /\ NoJobRunsTwice
\* Ids are given once in a life, to one row, and go out on that life's connections.
IdsAreFresh ==
  /\ \A r \in Rows : job[r].stage # "none" => result[<<life, job[r].id>>] = "open"
  /\ \A r, q \in Rows : job[r].stage # "none" /\ job[q].stage # "none"
                        /\ job[r].id = job[q].id => r = q
  /\ \A j \in Jobs : j[1] > life \/ (j[1] = life /\ j[2] >= nextId) => result[j] = "none"
  /\ \A j \in Jobs, l \in Links :
       OpsOn(link[l], j) # {} /\ link[l].m # "gone" => j[1] = life
  /\ \A j \in Jobs : Refusing(j) => result[j] # "none" /\ ~Waiting(j)

\* startJob, handleOp, opTick: a job is on its way, with its row or begun, in one
\* place only, and one that the master still has or that was refused is nowhere.
\* (The inductive invariant behind the two before it.)
JobsAreKept == NowhereYet /\ InOnePlace /\ IdsAreFresh

\* wallJobAnswer: a job the master reports as ended by the row was run to its end by it.
AnswersAreTrue == \A j \in Jobs : result[j] \in {"ok", "failed"} => j \in done

\* wallRowTextApplied, what the console shows as the row's text: while the row
\* is on the connection the master has for it, it has taken that very text.
Applied(r) == ~text[r].pending /\ text[r].id # 0 /\ text[r].shown = text[r].id
ShownIsTrue ==
  \A r \in Rows : Applied(r) /\ conn[r] # NoLink /\ sock[r] = conn[r] =>
    shows[r] = text[r].body

\* What the row will have once everything under way on its connection is read.
Pending(r, k) == {i \in DOMAIN link[sock[r]].down :
                    /\ link[sock[r]].down[i].t = "Setting"
                    /\ link[sock[r]].down[i].kind = k}
\* tellSettings: a setting that counts as said is the one the row has, or the last one on
\* its way to it.
SettingsReach ==
  \A r \in Rows : conn[r] # NoLink /\ sock[r] = conn[r] /\ ~link[conn[r]].cut =>
    \A k \in told[r] :
      IF Pending(r, k) = {} THEN known[r][k] = wish[k]
      ELSE \E i \in Pending(r, k) :
             /\ link[sock[r]].down[i].value = wish[k]
             /\ \A n \in Pending(r, k) : n <= i

\* sendStatus and setLogWanted: while nothing is under way, master and row agree on who is
\* busy and on whether the row's log goes up.
BusyAgrees ==
  \A r \in Rows : conn[r] # NoLink /\ sock[r] = conn[r] /\ welcomed[r]
                  /\ ~link[conn[r]].cut =>
    /\ (\A i \in DOMAIN link[conn[r]].up : link[conn[r]].up[i].t # "Status") =>
         busy[r] = busySent[r]
    /\ (\A i \in DOMAIN link[conn[r]].down : link[conn[r]].down[i].t # "LogCtl") =>
         logOn[r] = logTold[r]

\* startJob, wallJobOverdue, wallJobAnswer, handleOp: what the operator is promised
\* of a job (UnitJob) is kept by master, network and row together.
Promise == INSTANCE UnitJob WITH Jobs <- Jobs, result <- result, ran <- ran, done <- done
KeepsPromise == Promise!Spec

\* linkLoopTick and hello(): once faults are over, every row is connected for good ...
RowsConnect ==
  \A r \in Rows : <>[](conn[r] # NoLink /\ sock[r] = conn[r] /\ welcomed[r])
\* wallRowTextDue: ... has its latest text, which the master knows ...
TextArrives == \A r \in Rows : text[r].id # 0 ~> (text[r].id = 0 \/ Applied(r))
\* wallJobOverdue: ... and every job has an end.
JobsEnd == \A j \in Jobs : result[j] = "open" ~> result[j] # "open"
=============================================================================
