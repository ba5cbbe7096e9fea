--------------------------- MODULE WallLinkProofs ---------------------------
(***************************************************************************)
(* The wall link, for any number of rows, connections, faults and lives of *)
(* the master: its types, and that the two ends' ideas of which connection *)
(* is whose agree.                                                         *)
(***************************************************************************)
EXTENDS WallLink, SequenceTheorems, FiniteSetTheorems, TLAPS

\* Letting go of a connection and writing into it give a connection.
LEMMA HelperTypes ==
  ASSUME NEW c \in Connections
  PROVE  /\ Free \in Connections
         /\ MasterLetsGo(c) \in Connections
         /\ DialerLetsGo(c) \in Connections
         /\ \A msg \in ToRow : Down(c, msg) \in Connections
         /\ \A msg \in ToMaster : Up(c, msg) \in Connections
<1> DEFINE M == Seq(ToMaster)
           R == Seq(ToRow)
<1>1. <<>> \in M /\ <<>> \in R
  OBVIOUS
<1>2. /\ \A s \in R, msg \in ToRow : Append(s, msg) \in R
      /\ \A s \in M, msg \in ToMaster : Append(s, msg) \in M
  OBVIOUS
<1> HIDE DEF M, R
<1>3. Connections =
        [by : Rows \cup {Stranger, Nobody}, at : Addrs \cup {NoLink}, held : BOOLEAN,
         m : {"gone", "backlog", "open"}, of : Rows \cup {Nobody}, cut : BOOLEAN,
         up : M, down : R]
  BY DEF Connections, M, R
<1>4. Free \in Connections
  BY <1>1, <1>3 DEF Free
<1>5. MasterLetsGo(c) \in Connections
  BY <1>1, <1>3, <1>4 DEF MasterLetsGo
<1>6. DialerLetsGo(c) \in Connections
  BY <1>1, <1>3, <1>4 DEF DialerLetsGo
<1>7. \A msg \in ToRow : Down(c, msg) \in Connections
  BY <1>2, <1>3 DEF Down
<1>8. \A msg \in ToMaster : Up(c, msg) \in Connections
  BY <1>2, <1>3 DEF Up
<1> QED BY <1>4, <1>5, <1>6, <1>7, <1>8

\* What the two ends write is what the other end can read.
LEMMA MessageTypes ==
  /\ \A m \in ToMaster : /\ m.t = "Hello" => m.row \in Rows /\ m.boot \in Nat \ {0}
                         /\ m.t = "Status" => m.busy \in BOOLEAN
                         /\ m.t = "Shown" => m.id \in Nat
                         /\ m.t = "OpState" =>
                              /\ m.id \in 1..MaxJobs
                              /\ m.phase \in {"running", "refused", "ok", "failed"}
  /\ \A m \in ToRow : /\ m.t = "Setting" => m.kind \in Kinds /\ m.value \in Nat
                      /\ m.t = "LogCtl" => m.on \in BOOLEAN
                      /\ m.t = "Show" => m.id \in Nat /\ m.body \in Texts \cup {Blank}
                      /\ m.t = "Op" => m.job \in Jobs /\ m = Op(m.job) /\ m.id = m.job[2]
BY DEF ToMaster, ToRow, Op

LEMMA SaidTypes ==
  /\ Welcome \in ToRow
  /\ \A k \in Kinds, v \in Nat : Setting(k, v) \in ToRow
  /\ \A on \in BOOLEAN : LogCtl(on) \in ToRow
  /\ \A id \in Nat, body \in Texts \cup {Blank} : Show(id, body) \in ToRow
  /\ \A j \in Jobs : Op(j) \in ToRow
  /\ \A b \in BOOLEAN : Status(b) \in ToMaster
  /\ \A id \in Nat : Shown(id) \in ToMaster
  /\ \A id \in 1..MaxJobs, ph \in {"running", "refused", "ok", "failed"} :
       OpState(id, ph) \in ToMaster
BY DEF ToMaster, ToRow, Op, Welcome, Setting, LogCtl, Show, Status, Shown, OpState

LEMMA JobNames == \A n \in 1..MasterLives, id \in 1..MaxJobs : <<n, id>> \in Jobs
BY DEF Jobs

\* The job the master has open for a row is one of this life.
LEMMA JobIsNamed ==
  ASSUME TypeOK, NEW r \in Rows, job[r].stage # "none"
  PROVE  <<life, job[r].id>> \in Jobs
<1>1. life \in 1..MasterLives
  BY DEF TypeOK, MasterTypes
<1>2. job \in [Rows -> {NoJob} \cup [stage : {"waiting", "sent"}, id : 1..MaxJobs]]
  BY DEF TypeOK, MasterTypes
<1>3. job[r] \in [stage : {"waiting", "sent"}, id : 1..MaxJobs]
  BY <1>2 DEF NoJob
<1> QED BY <1>1, <1>3, JobNames

LEMMA WithoutType ==
  ASSUME NEW S, NEW s \in Seq(S), NEW x
  PROVE  Without(s, x) \in Seq(S)
<1>1. CASE ~\E i \in DOMAIN s : s[i] = x
  BY <1>1 DEF Without
<1>2. CASE \E i \in DOMAIN s : s[i] = x
  <2> DEFINE k == CHOOSE i \in DOMAIN s : s[i] = x
  <2>1. k \in 1..Len(s)
    BY <1>2
  <2>2. RemoveAt(s, k) = SubSeq(s, 1, k - 1) \o SubSeq(s, k + 1, Len(s))
    BY DEF RemoveAt
  <2> HIDE DEF k
  <2>3. SubSeq(s, 1, k - 1) \in Seq(S) /\ SubSeq(s, k + 1, Len(s)) \in Seq(S)
    <3>1. k - 1 \in Int /\ k + 1 \in Int /\ Len(s) \in Int
      BY <2>1
    <3>2. /\ \A i \in 1..(k - 1) : s[i] \in S
          /\ \A i \in (k + 1)..Len(s) : s[i] \in S
      BY <2>1
    <3> QED BY <3>1, <3>2, SubSeqProperties
  <2>4. Without(s, x) = RemoveAt(s, k)
    BY <1>2, Zenon DEF Without, k
  <2> QED BY <2>2, <2>3, <2>4
<1> QED BY <1>1, <1>2

\* Editing one field of a connection.
LEMMA EditTypes ==
  ASSUME NEW c \in Connections
  PROVE  /\ [c EXCEPT !.m = "open"] \in Connections
         /\ \A r \in Rows : [c EXCEPT !.of = r] \in Connections
         /\ c.up # <<>> => /\ Head(c.up) \in ToMaster
                           /\ ReadUp(c) \in Connections
         /\ c.down # <<>> => /\ Head(c.down) \in ToRow
                             /\ ReadDown(c) \in Connections
         /\ \A u \in 0..Len(c.up), d \in 0..Len(c.down) :
              [c EXCEPT !.cut = TRUE, !.up = SubSeq(@, 1, u), !.down = SubSeq(@, 1, d)]
                \in Connections
<1> DEFINE M == Seq(ToMaster)
           R == Seq(ToRow)
<1>1. \A s \in R : /\ s # <<>> => Head(s) \in ToRow /\ Tail(s) \in R
                   /\ \A d \in 0..Len(s) : SubSeq(s, 1, d) \in R
  OBVIOUS
<1>2. \A s \in M : /\ s # <<>> => Head(s) \in ToMaster /\ Tail(s) \in M
                   /\ \A u \in 0..Len(s) : SubSeq(s, 1, u) \in M
  OBVIOUS
<1> HIDE DEF M, R
<1>3. Connections =
        [by : Rows \cup {Stranger, Nobody}, at : Addrs \cup {NoLink}, held : BOOLEAN,
         m : {"gone", "backlog", "open"}, of : Rows \cup {Nobody}, cut : BOOLEAN,
         up : M, down : R]
  BY DEF Connections, M, R
<1>4. c.up \in M /\ c.down \in R
  BY <1>3
<1>5. [c EXCEPT !.m = "open"] \in Connections
  BY <1>3
<1>6. \A r \in Rows : [c EXCEPT !.of = r] \in Connections
  BY <1>3
<1>7. ASSUME c.up # <<>>
      PROVE  Head(c.up) \in ToMaster /\ ReadUp(c) \in Connections
  BY <1>2, <1>3, <1>4, <1>7 DEF ReadUp
<1>8. ASSUME c.down # <<>>
      PROVE  Head(c.down) \in ToRow /\ ReadDown(c) \in Connections
  BY <1>1, <1>3, <1>4, <1>8 DEF ReadDown
<1>9. ASSUME NEW u \in 0..Len(c.up), NEW d \in 0..Len(c.down)
      PROVE  [c EXCEPT !.cut = TRUE, !.up = SubSeq(@, 1, u), !.down = SubSeq(@, 1, d)]
               \in Connections
  BY <1>1, <1>2, <1>3, <1>4
<1> QED BY <1>5, <1>6, <1>7, <1>8, <1>9

-----------------------------------------------------------------------------
LEMMA InitTypes == Init => TypeOK
<1> SUFFICES ASSUME Init PROVE TypeOK
  OBVIOUS
<1>1. LinkTypes
  BY HelperTypes DEF Init, LinkTypes, Free, Connections
<1>2. MasterTypes
  <2>1. life \in 1..MasterLives /\ nextId \in 1..(MaxJobs + 1)
    BY CountsAreNaturals DEF Init
  <2>2. text \in [Rows -> [id : Nat, shown : Nat, pending : BOOLEAN, body : Texts \cup {Blank}]]
    BY DEF Init, NoText
  <2>3. result \in [Jobs -> Results]
    BY DEF Init, Results
  <2>4. nobodies \in Seq(Links)
    BY DEF Init
  <2> QED BY <2>1, <2>2, <2>3, <2>4 DEF Init, MasterTypes
<1>3. RowTypes
  BY DEF Init, RowTypes
<1>4. HistoryTypes
  BY DEF Init, HistoryTypes
<1> QED BY <1>1, <1>2, <1>3, <1>4 DEF TypeOK

-----------------------------------------------------------------------------
USE DEF masterVars, rowVars, ghostVars, bounds, masterButConns

\* Reading from and writing into a row's connection, by the master ...
LEMMA MasterReads ==
  ASSUME LinkTypes, MasterTypes, NEW r \in Rows, NEW t, Arrived(r, t), ReadOff(r)
  PROVE  LinkTypes' /\ FromRow(r) \in ToMaster /\ FromRow(r).t = t
<1>1. conn[r] \in Links /\ link[conn[r]] \in Connections
  BY DEF Arrived, MasterTypes, LinkTypes
<1>2. /\ Head(link[conn[r]].up) \in ToMaster
      /\ ReadUp(link[conn[r]]) \in Connections
  BY <1>1, EditTypes DEF Arrived
<1> QED BY <1>1, <1>2 DEF Arrived, ReadOff, FromRow, LinkTypes

LEMMA MasterWrites ==
  ASSUME LinkTypes, MasterTypes, NEW r \in Rows, Takes(r), NEW msg \in ToRow, Write(r, msg)
  PROVE  LinkTypes'
<1>1. conn[r] \in Links /\ link[conn[r]] \in Connections
  BY DEF Takes, MasterTypes, LinkTypes
<1>2. Down(link[conn[r]], msg) \in Connections
  BY <1>1, HelperTypes
<1> QED BY <1>1, <1>2 DEF Write, LinkTypes

LEMMA MasterStepTypes ==
  ASSUME TypeOK, NEW r \in Rows, MasterStep(r)
  PROVE  TypeOK'
<1> USE DEF TypeOK
<1>1. CASE ReadStatus(r)
  <2>1. LinkTypes' /\ FromRow(r) \in ToMaster /\ FromRow(r).t = "Status"
    BY <1>1, MasterReads DEF ReadStatus
  <2>2. FromRow(r).busy \in BOOLEAN
    BY <2>1, MessageTypes
  <2> QED BY <1>1, <2>1, <2>2 DEF ReadStatus, MasterTypes, RowTypes, HistoryTypes
<1>2. CASE ReadShown(r)
  <2>1. LinkTypes' /\ FromRow(r) \in ToMaster /\ FromRow(r).t = "Shown"
    BY <1>2, MasterReads DEF ReadShown
  <2>2. FromRow(r).id \in Nat
    BY <2>1, MessageTypes
  <2>3. text' \in [Rows -> [id : Nat, shown : Nat, pending : BOOLEAN,
                          body : Texts \cup {Blank}]]
    BY <1>2, <2>2, ZenonT(30) DEF ReadShown, MasterTypes
  <2> QED BY <1>2, <2>1, <2>3 DEF ReadShown, MasterTypes, RowTypes, HistoryTypes
<1>3. CASE ReadOpState(r)
  <2>1. LinkTypes' /\ FromRow(r) \in ToMaster /\ FromRow(r).t = "OpState"
    BY <1>3, MasterReads DEF ReadOpState
  <2>2. FromRow(r).phase \in {"running", "refused", "ok", "failed"}
    BY <2>1, MessageTypes
  <2>3. job' \in [Rows -> {NoJob} \cup [stage : {"waiting", "sent"}, id : 1..MaxJobs]]
    BY <1>3 DEF ReadOpState, MasterTypes
  <2>4. result' \in [Jobs -> Results]
    BY <1>3, <2>2 DEF ReadOpState, MasterTypes, Results, Ends
  <2> QED BY <1>3, <2>1, <2>3, <2>4 DEF ReadOpState, MasterTypes, RowTypes, HistoryTypes
<1>4. CASE TellSetting(r)
  <2>1. PICK i \in DOMAIN Settings :
          /\ Write(r, Setting(Settings[i], wish[Settings[i]]))
          /\ told' = [told EXCEPT ![r] = @ \cup {Settings[i]}]
    BY <1>4 DEF TellSetting
  <2>2. Settings[i] \in Kinds /\ wish[Settings[i]] \in Nat
    BY DEF Kinds, MasterTypes
  <2>3. LinkTypes'
    BY <1>4, <2>1, <2>2, SaidTypes, MasterWrites DEF TellSetting
  <2> QED BY <1>4, <2>1, <2>2, <2>3 DEF TellSetting, MasterTypes, RowTypes, HistoryTypes
<1>5. CASE TellLog(r)
  <2>1. LinkTypes'
    BY <1>5, SaidTypes, MasterWrites DEF TellLog, MasterTypes
  <2> QED BY <1>5, <2>1 DEF TellLog, MasterTypes, RowTypes, HistoryTypes
<1>6. CASE SendShow(r)
  <2>1. text[r].id \in Nat /\ text[r].body \in Texts \cup {Blank}
    BY <1>6 DEF SendShow, TextDue, MasterTypes
  <2>2. LinkTypes'
    BY <1>6, <2>1, SaidTypes, MasterWrites DEF SendShow
  <2>3. text' \in [Rows -> [id : Nat, shown : Nat, pending : BOOLEAN,
                          body : Texts \cup {Blank}]]
    BY <1>6, ZenonT(30) DEF SendShow, MasterTypes
  <2> QED BY <1>6, <2>2, <2>3 DEF SendShow, MasterTypes, RowTypes, HistoryTypes
<1>7. CASE SendOp(r)
  <2>1. job[r] \in [stage : {"waiting", "sent"}, id : 1..MaxJobs]
    BY <1>7 DEF SendOp, JobDue, MasterTypes, NoJob
  <2>2. <<life, job[r].id>> \in Jobs
    BY <2>1, JobNames DEF MasterTypes
  <2>3. LinkTypes'
    BY <1>7, <2>2, SaidTypes, MasterWrites DEF SendOp
  <2> QED BY <1>7, <2>1, <2>3 DEF SendOp, MasterTypes, RowTypes, HistoryTypes
<1>8. CASE Ping(r)
  BY <1>8 DEF Ping, vars, MasterTypes, RowTypes, LinkTypes, HistoryTypes
<1> QED BY <1>1, <1>2, <1>3, <1>4, <1>5, <1>6, <1>7, <1>8 DEF MasterStep

LEMMA RowReads ==
  ASSUME LinkTypes, RowTypes, NEW r \in Rows, NEW t, Told(r, t)
  PROVE  /\ sock[r] \in Links /\ link[sock[r]] \in Connections
         /\ FromMaster(r) \in ToRow /\ FromMaster(r).t = t
         /\ Reads(r) => LinkTypes'
         /\ \A msg \in ToMaster : Replies(r, msg) => LinkTypes'
<1>1. sock[r] \in Links /\ link[sock[r]] \in Connections
  BY DEF Told, RowTypes, LinkTypes
<1>2. /\ Head(link[sock[r]].down) \in ToRow
      /\ ReadDown(link[sock[r]]) \in Connections
  BY <1>1, EditTypes DEF Told
<1>3. \A msg \in ToMaster : Up(ReadDown(link[sock[r]]), msg) \in Connections
  BY <1>2, HelperTypes
<1>4. FromMaster(r) \in ToRow /\ FromMaster(r).t = t
  BY <1>2 DEF Told, FromMaster
<1>5. ASSUME Reads(r) PROVE LinkTypes'
  BY <1>1, <1>2, <1>5 DEF Reads, LinkTypes
<1>6. ASSUME NEW msg \in ToMaster, Replies(r, msg) PROVE LinkTypes'
  BY <1>1, <1>3, <1>6 DEF Replies, LinkTypes
<1> QED BY <1>1, <1>4, <1>5, <1>6

LEMMA RowSays ==
  ASSUME LinkTypes, RowTypes, NEW r \in Rows, NEW msg \in ToMaster,
         sock[r] # NoLink, Says(r, msg)
  PROVE  LinkTypes'
<1>1. sock[r] \in Links /\ link[sock[r]] \in Connections
  BY DEF RowTypes, LinkTypes
<1>2. Up(link[sock[r]], msg) \in Connections
  BY <1>1, HelperTypes
<1> QED BY <1>1, <1>2 DEF Says, LinkTypes

LEMMA RowLetsGo ==
  ASSUME LinkTypes, RowTypes, NEW r \in Rows, sock[r] # NoLink, RowDrops(r)
  PROVE  /\ LinkTypes' /\ sock' \in [Rows -> Links \cup {NoLink}]
         /\ welcomed' \in [Rows -> BOOLEAN] /\ logOn' \in [Rows -> BOOLEAN]
<1>1. sock[r] \in Links /\ link[sock[r]] \in Connections
  BY DEF RowTypes, LinkTypes
<1>2. DialerLetsGo(link[sock[r]]) \in Connections
  BY <1>1, HelperTypes
<1> QED BY <1>1, <1>2 DEF RowDrops, LinkTypes, RowTypes

LEMMA RowStepTypes ==
  ASSUME TypeOK, NEW r \in Rows, RowStep(r)
  PROVE  TypeOK'
<1> USE DEF TypeOK
<1>0. Busy(r) \in BOOLEAN
  BY DEF Busy
<1>1. CASE RowWelcomed(r)
  <2>1. LinkTypes'
    BY <1>0, <1>1, RowReads, SaidTypes DEF RowWelcomed
  <2> QED BY <1>0, <1>1, <2>1 DEF RowWelcomed, MasterTypes, RowTypes, HistoryTypes
<1>2. CASE RowTakesText(r)
  <2>1. FromMaster(r).id \in Nat /\ FromMaster(r).body \in Texts \cup {Blank}
    BY <1>2, RowReads, MessageTypes DEF RowTakesText
  <2>2. LinkTypes'
    BY <1>2, <2>1, RowReads, SaidTypes DEF RowTakesText
  <2> QED BY <1>2, <2>1, <2>2 DEF RowTakesText, MasterTypes, RowTypes, HistoryTypes
<1>3. CASE RowTakesSetting(r)
  <2>1. FromMaster(r).kind \in Kinds /\ FromMaster(r).value \in Nat
    BY <1>3, RowReads, MessageTypes DEF RowTakesSetting
  <2>2. LinkTypes'
    BY <1>3, RowReads DEF RowTakesSetting
  <2> QED BY <1>3, <2>1, <2>2 DEF RowTakesSetting, MasterTypes, RowTypes, HistoryTypes
<1>4. CASE RowTakesLogCtl(r)
  <2>1. FromMaster(r).on \in BOOLEAN
    BY <1>4, RowReads, MessageTypes DEF RowTakesLogCtl
  <2>2. LinkTypes'
    BY <1>4, RowReads DEF RowTakesLogCtl
  <2> QED BY <1>4, <2>1, <2>2 DEF RowTakesLogCtl, MasterTypes, RowTypes, HistoryTypes
<1>5. CASE RowTakesOp(r)
  <2>1. FromMaster(r).job \in Jobs /\ FromMaster(r).id \in 1..MaxJobs
    BY <1>5, RowReads, MessageTypes DEF RowTakesOp, Jobs
  <2>2. LinkTypes'
    BY <1>5, <2>1, RowReads, SaidTypes DEF RowTakesOp
  <2>3. op' \in [Rows -> {NoOp} \cup [st : {"staged", "running", "ok", "failed"}, job : Jobs]]
    BY <1>5, <2>1 DEF RowTakesOp, RowTypes
  <2> QED BY <1>5, <2>2, <2>3 DEF RowTakesOp, MasterTypes, RowTypes, HistoryTypes
<1>6. CASE UnitJobStarts(r)
  <2>1. op[r] \in [st : {"staged", "running", "ok", "failed"}, job : Jobs]
    BY <1>6 DEF UnitJobStarts, RowTypes, NoOp
  <2>2. op[r].job \in Jobs /\ op'[r] \in [st : {"staged", "running", "ok", "failed"}, job : Jobs]
    BY <1>6, <2>1 DEF UnitJobStarts, RowTypes
  <2>3. op' \in [Rows -> {NoOp} \cup [st : {"staged", "running", "ok", "failed"}, job : Jobs]]
    BY <1>6, <2>2 DEF UnitJobStarts, RowTypes
  <2> QED BY <1>6, <2>2, <2>3 DEF UnitJobStarts, MasterTypes, RowTypes, LinkTypes, HistoryTypes
<1>7. CASE \E how \in {"ok", "failed"} : UnitJobEnds(r, how)
  <2>1. op[r] \in [st : {"staged", "running", "ok", "failed"}, job : Jobs]
    BY <1>7 DEF UnitJobEnds, RowTypes, NoOp
  <2>2. op[r].job \in Jobs /\ op'[r] \in [st : {"staged", "running", "ok", "failed"}, job : Jobs]
    BY <1>7, <2>1 DEF UnitJobEnds, RowTypes
  <2>3. op' \in [Rows -> {NoOp} \cup [st : {"staged", "running", "ok", "failed"}, job : Jobs]]
    BY <1>7, <2>2 DEF UnitJobEnds, RowTypes
  <2> QED BY <1>7, <2>2, <2>3, SMTT(30) DEF UnitJobEnds, MasterTypes, RowTypes, LinkTypes, HistoryTypes
<1>8. CASE RowReportsEnd(r)
  <2>1. op[r].job[2] \in 1..MaxJobs /\ op[r].st \in {"ok", "failed"}
    BY <1>8 DEF RowReportsEnd, RowTypes, NoOp, Jobs
  <2>2. LinkTypes'
    BY <1>8, <2>1, RowSays, SaidTypes DEF RowReportsEnd, Writes
  <2> QED BY <1>8, <2>2 DEF RowReportsEnd, MasterTypes, RowTypes, HistoryTypes
<1>9. CASE RowSaysStatus(r)
  <2>1. LinkTypes'
    BY <1>0, <1>9, RowSays, SaidTypes DEF RowSaysStatus, Writes
  <2> QED BY <1>0, <1>9, <2>1 DEF RowSaysStatus, MasterTypes, RowTypes, HistoryTypes
<1>10. CASE RowSeesClosed(r)
  BY <1>10, RowLetsGo DEF RowSeesClosed, MasterTypes, RowTypes, HistoryTypes
<1> QED BY <1>1, <1>2, <1>3, <1>4, <1>5, <1>6, <1>7, <1>8, <1>9, <1>10 DEF RowStep

\* The network, requests, and what ends a connection.
LEMMA ClosedTypes ==
  ASSUME MasterTypes, NEW l \in Links, Closed(l)
  PROVE  /\ conn' \in [Rows -> Links \cup {NoLink}] /\ busy' \in [Rows -> BOOLEAN]
         /\ nobodies' \in Seq(Links)
BY WithoutType DEF Closed, MasterTypes

LEMMA OnLinkTypes ==
  ASSUME TypeOK, NEW l \in Links, OnLink(l)
  PROVE  TypeOK'
<1> USE DEF TypeOK
<1>0. link[l] \in Connections /\ MasterLetsGo(link[l]) \in Connections
      /\ DialerLetsGo(link[l]) \in Connections
  BY HelperTypes DEF LinkTypes
<1>1. CASE Accept(l)
  <2>1. [link[l] EXCEPT !.m = "open"] \in Connections
    BY <1>0, EditTypes
  <2>2. CASE /\ link' = [link EXCEPT ![l].m = "open"]
             /\ nobodies' = Append(nobodies, l)
    <3>1. LinkTypes'
      BY <2>1, <2>2 DEF LinkTypes
    <3>2. nobodies' \in Seq(Links)
      BY <2>2 DEF MasterTypes
    <3> QED BY <1>1, <3>1, <3>2 DEF Accept, MasterTypes, RowTypes, HistoryTypes
  <2>3. CASE /\ nobodies # <<>>
             /\ link' = [[link EXCEPT ![Head(nobodies)] = MasterLetsGo(@)]
                           EXCEPT ![l].m = "open"]
             /\ nobodies' = Append(Tail(nobodies), l)
    <3>1. Head(nobodies) \in Links /\ Tail(nobodies) \in Seq(Links)
      BY <2>3 DEF MasterTypes
    <3>2. \A c \in Connections : MasterLetsGo(c) \in Connections
      BY HelperTypes
    <3>4. LinkTypes'
      <4> DEFINE lk == [link EXCEPT ![Head(nobodies)] = MasterLetsGo(@)]
      <4>1. lk \in [Links -> Connections]
        BY <3>1, <3>2 DEF LinkTypes
      <4>2. link' = [lk EXCEPT ![l].m = "open"]
        BY <2>3
      <4> HIDE DEF lk
      <4>3. [lk[l] EXCEPT !.m = "open"] \in Connections
        BY <4>1, EditTypes
      <4> QED BY <4>1, <4>2, <4>3 DEF LinkTypes
    <3>5. nobodies' \in Seq(Links)
      BY <2>3, <3>1
    <3> QED BY <1>1, <3>4, <3>5 DEF Accept, MasterTypes, RowTypes, HistoryTypes
  <2>4. CASE /\ link' = [link EXCEPT ![l] = MasterLetsGo(@)]
             /\ UNCHANGED nobodies
    <3>1. LinkTypes'
      BY <1>0, <2>4 DEF LinkTypes
    <3> QED BY <1>1, <2>4, <3>1 DEF Accept, MasterTypes, RowTypes, HistoryTypes
  <2> QED BY <1>1, <2>2, <2>3, <2>4 DEF Accept
<1>2. CASE HelloTimeout(l)
  <2>1. LinkTypes'
    BY <1>0, <1>2 DEF HelloTimeout, LinkTypes
  <2> QED BY <1>2, <2>1, ClosedTypes DEF HelloTimeout, MasterTypes, RowTypes, HistoryTypes
<1>3. CASE SeesClosed(l)
  <2>1. LinkTypes'
    BY <1>0, <1>3 DEF SeesClosed, LinkTypes
  <2> QED BY <1>3, <2>1, ClosedTypes DEF SeesClosed, MasterTypes, RowTypes, HistoryTypes
<1>5. CASE StrangerCloses(l)
  <2>1. LinkTypes'
    BY <1>0, <1>5 DEF StrangerCloses, LinkTypes
  <2> QED BY <1>5, <2>1 DEF StrangerCloses, MasterTypes, RowTypes, HistoryTypes
<1>6. CASE \E a \in Addrs : StrangerDials(l, a)
  <2>1. PICK a \in Addrs : StrangerDials(l, a)
    BY <1>6
  <2>2. Fresh(Stranger, a, <<>>) \in Connections
    BY DEF Fresh, Connections
  <2>3. LinkTypes'
    BY <2>1, <2>2 DEF StrangerDials, LinkTypes
  <2> QED BY <2>1, <2>3 DEF StrangerDials, Fault, MasterTypes, RowTypes, HistoryTypes
<1>7. CASE \E u, d \in 0..Room : Break(l, u, d)
  <2>1. PICK u \in 0..Room, d \in 0..Room : Break(l, u, d)
    BY <1>7
  <2>2. /\ u \in 0..Len(link[l].up) /\ d \in 0..Len(link[l].down)
    BY <1>0, <2>1 DEF Break, Connections
  <2>3. [link[l] EXCEPT !.cut = TRUE, !.up = SubSeq(@, 1, u), !.down = SubSeq(@, 1, d)]
          \in Connections
    BY <1>0, <2>2, EditTypes
  <2>4. LinkTypes'
    BY <2>1, <2>3 DEF Break, LinkTypes
  <2> QED BY <2>1, <2>4, SMTT(30) DEF Break, Fault, MasterTypes, RowTypes, HistoryTypes
<1>4. CASE ReadHello(l)
  <2>1. /\ Head(link[l].up) \in ToMaster
        /\ ReadUp(link[l]) \in Connections
    BY <1>0, <1>4, EditTypes DEF ReadHello
  <2> DEFINE hello == Head(link[l].up)
             popped == ReadUp(link[l])
             replaced == [k \in Links |-> IF k = conn[hello.row] THEN MasterLetsGo(link[k])
                                          ELSE link[k]]
  <2>2. hello.row \in Rows /\ hello.boot \in Nat
    BY <1>4, <2>1, MessageTypes DEF ReadHello
  <2>3. replaced \in [Links -> Connections]
    BY HelperTypes DEF LinkTypes
  <2>4. /\ MasterLetsGo(popped) \in Connections
        /\ [Down(popped, Welcome) EXCEPT !.of = hello.row] \in Connections
    BY <2>1, <2>2, HelperTypes, EditTypes, SaidTypes
  <2>5. Without(nobodies, l) \in Seq(Links)
    BY WithoutType DEF MasterTypes
  <2>6. CASE link' = [link EXCEPT ![l] = MasterLetsGo(popped)] /\ Closed(l)
             /\ UNCHANGED masterButConns
    <3>1. LinkTypes'
      BY <2>4, <2>6 DEF LinkTypes
    <3> QED BY <1>4, <2>6, <3>1, ClosedTypes DEF ReadHello, MasterTypes, RowTypes, HistoryTypes
  <2>7. CASE /\ link' = [replaced EXCEPT ![l] = MasterLetsGo(popped)]
             /\ conn' = [conn EXCEPT ![hello.row] = NoLink]
             /\ busy' = [busy EXCEPT ![hello.row] = FALSE]
             /\ nobodies' = Without(nobodies, l)
             /\ UNCHANGED masterButConns
    <3> HIDE DEF popped, replaced
    <3>1. LinkTypes'
      BY <2>3, <2>4, <2>7 DEF LinkTypes
    <3> QED BY <1>4, <2>2, <2>5, <2>7, <3>1 DEF ReadHello, MasterTypes, RowTypes, HistoryTypes
  <2>8. CASE /\ link' = [replaced EXCEPT ![l] = [Down(popped, Welcome) EXCEPT !.of = hello.row]]
             /\ conn' = [conn EXCEPT ![hello.row] = l]
             /\ busy' = [busy EXCEPT ![hello.row] = FALSE]
             /\ nobodies' = Without(nobodies, l)
             /\ knownBoot' = [knownBoot EXCEPT ![hello.row] = hello.boot]
             /\ text' = [text EXCEPT ![hello.row] = Resend(@)]
             /\ told' = [told EXCEPT ![hello.row] = {}]
             /\ logTold' = [logTold EXCEPT ![hello.row] = FALSE]
             /\ \/ /\ job' = [job EXCEPT ![hello.row] = NoJob]
                   /\ \/ result' = result
                      \/ result' = [result EXCEPT ![<<life, job[hello.row].id>>] = "restarted"]
                \/ UNCHANGED <<job, result>>
             /\ UNCHANGED <<life, wish, logWanted, nextId>>
    <3> HIDE DEF popped, replaced, hello
    <3>1. LinkTypes'
      BY <2>3, <2>4, <2>8 DEF LinkTypes
    <3>2. text' \in [Rows -> [id : Nat, shown : Nat, pending : BOOLEAN,
                              body : Texts \cup {Blank}]]
        <4> DEFINE T == [id : Nat, shown : Nat, pending : BOOLEAN, body : Texts \cup {Blank}]
      <4>1. \A t \in T : Resend(t) \in T
        BY DEF Resend, ToSend
      <4>2. text \in [Rows -> T]
        BY DEF MasterTypes
      <4> QED BY <2>8, <4>1, <4>2
    <3>3. result' \in [Jobs -> Results]
      BY <2>8 DEF MasterTypes, Results, Ends
    <3>4. job' \in [Rows -> {NoJob} \cup [stage : {"waiting", "sent"}, id : 1..MaxJobs]]
      BY <2>8 DEF MasterTypes
    <3>5. MasterTypes'
      BY <2>2, <2>5, <2>8, <3>2, <3>3, <3>4 DEF MasterTypes
    <3> QED BY <1>4, <3>1, <3>5 DEF ReadHello, RowTypes, HistoryTypes
  <2> QED BY <1>4, <2>6, <2>7, <2>8 DEF ReadHello
<1> QED BY <1>1, <1>2, <1>3, <1>4, <1>5, <1>6, <1>7 DEF OnLink

\* What the rest of the master asks, time, and the rows' faults.
LEMMA ForgetsTypes ==
  ASSUME MasterTypes, LinkTypes, NEW how \in Ends, ForgetsRows(how), nextId' \in 1..(MaxJobs + 1),
         life' \in 1..MasterLives, wish' = wish
  PROVE  MasterTypes' /\ LinkTypes'
<1>1. LinkTypes'
  BY HelperTypes DEF ForgetsRows, LinkTypes
<1>2. result' \in [Jobs -> Results]
  BY DEF ForgetsRows, MasterTypes, Results
<1>3. text' \in [Rows -> [id : Nat, shown : Nat, pending : BOOLEAN, body : Texts \cup {Blank}]]
  BY DEF ForgetsRows, NoText
<1>4. nobodies' \in Seq(Links)
  BY DEF ForgetsRows
<1> QED BY <1>1, <1>2, <1>3, <1>4 DEF ForgetsRows, MasterTypes

LEMMA OtherTypes ==
  ASSUME TypeOK,
         \/ \E r \in Rows : JobOverdue(r) \/ Asked(r) \/ Faulty(r)
         \/ \E r \in Rows, l \in Links, a \in Addrs : Dial(r, l, a)
         \/ \E k \in Kinds : ChangeSetting(k)
         \/ RowsChanged \/ MasterRestarts
  PROVE  TypeOK'
<1> USE DEF TypeOK
<1>1. ASSUME NEW r \in Rows, JobOverdue(r) PROVE TypeOK'
  <2>1. result' \in [Jobs -> Results]
    BY <1>1 DEF JobOverdue, MasterTypes, Results, Ends
  <2> QED BY <1>1, <2>1 DEF JobOverdue, MasterTypes, RowTypes, LinkTypes, HistoryTypes
<1>2. ASSUME NEW r \in Rows, AskJob(r) PROVE TypeOK'
  <2>1. nextId \in 1..MaxJobs /\ nextId' \in 1..(MaxJobs + 1)
    BY <1>2, CountsAreNaturals DEF AskJob, MasterTypes
  <2>2. result' \in [Jobs -> Results]
    BY <1>2 DEF AskJob, MasterTypes, Results
  <2>3. job' \in [Rows -> {NoJob} \cup [stage : {"waiting", "sent"}, id : 1..MaxJobs]]
    BY <1>2, <2>1 DEF AskJob, MasterTypes
  <2> QED BY <1>2, <2>1, <2>2, <2>3 DEF AskJob, MasterTypes, RowTypes, LinkTypes, HistoryTypes
<1>3. ASSUME NEW r \in Rows, WantLog(r) PROVE TypeOK'
  <2>1. logWanted' \in [Rows -> BOOLEAN]
    BY <1>3 DEF WantLog, MasterTypes
  <2>2. HistoryTypes'
    BY <1>3 DEF WantLog, HistoryTypes
  <2>3. MasterTypes'
    BY <1>3, <2>1 DEF WantLog, MasterTypes
  <2> QED BY <1>3, <2>2, <2>3 DEF WantLog, RowTypes, LinkTypes
<1>4. ASSUME NEW r \in Rows, NEW body \in Texts, SetText(r, body) PROVE TypeOK'
  <2>1. text' \in [Rows -> [id : Nat, shown : Nat, pending : BOOLEAN,
                            body : Texts \cup {Blank}]]
    BY <1>4 DEF SetText, ToSend, MasterTypes
  <2>2. HistoryTypes'
    BY <1>4 DEF SetText, HistoryTypes
  <2>3. MasterTypes'
    BY <1>4, <2>1 DEF SetText, MasterTypes
  <2> QED BY <1>4, <2>2, <2>3 DEF SetText, RowTypes, LinkTypes
<1>5. ASSUME NEW r \in Rows, DropSilent(r) PROVE TypeOK'
  <2>1. conn[r] \in Links
    BY <1>5 DEF DropSilent, MasterTypes
  <2>2. LinkTypes'
    BY <1>5, <2>1, HelperTypes DEF DropSilent, LinkTypes
  <2>3. HistoryTypes'
    BY <1>5 DEF DropSilent, Fault, HistoryTypes
  <2>4. MasterTypes'
    BY <1>5, <2>1, ClosedTypes DEF DropSilent, MasterTypes
  <2> QED BY <1>5, <2>2, <2>3, <2>4 DEF DropSilent, RowTypes
<1>6. ASSUME NEW r \in Rows, RowGivesUp(r) PROVE TypeOK'
  <2>1. HistoryTypes'
    BY <1>6 DEF RowGivesUp, Fault, HistoryTypes
  <2>2. RowTypes' /\ LinkTypes'
    BY <1>6, RowLetsGo DEF RowGivesUp, RowTypes
  <2> QED BY <1>6, <2>1, <2>2 DEF RowGivesUp, MasterTypes
<1>7. ASSUME NEW r \in Rows, RowRestarts(r) PROVE TypeOK'
  <2>1. LinkTypes'
    <3>1. CASE sock[r] = NoLink
      BY <1>7, <3>1 DEF RowRestarts, LinkTypes
    <3>2. CASE sock[r] # NoLink
      BY <1>7, <3>2, HelperTypes DEF RowRestarts, RowTypes, LinkTypes
    <3> QED BY <3>1, <3>2
  <2>2. /\ boot' \in [Rows -> Nat \ {0}]
        /\ known' \in [Rows -> [Kinds -> Nat]]
    BY <1>7 DEF RowRestarts, RowTypes
  <2>3. HistoryTypes'
    BY <1>7 DEF RowRestarts, Fault, HistoryTypes
  <2>4. RowTypes'
    BY <1>7, <2>2 DEF RowRestarts, RowTypes
  <2> QED BY <1>7, <2>1, <2>3, <2>4 DEF RowRestarts, MasterTypes
<1>8. ASSUME NEW r \in Rows, NEW l \in Links, NEW a \in Addrs, Dial(r, l, a) PROVE TypeOK'
  <2>1. Hello(r) \in ToMaster
    BY DEF Hello, ToMaster, RowTypes
  <2>2. Fresh(r, a, <<Hello(r)>>) \in Connections
    BY <2>1 DEF Fresh, Connections
  <2>3. LinkTypes'
    BY <1>8, <2>2 DEF Dial, LinkTypes
  <2> QED BY <1>8, <2>3 DEF Dial, MasterTypes, RowTypes, HistoryTypes
<1>9. ASSUME NEW k \in Kinds, ChangeSetting(k) PROVE TypeOK'
  <2>1. HistoryTypes'
    BY <1>9 DEF ChangeSetting, HistoryTypes
  <2>2. wish' \in [Kinds -> Nat] /\ told' \in [Rows -> SUBSET Kinds]
    BY <1>9 DEF ChangeSetting, MasterTypes
  <2>3. MasterTypes'
    BY <1>9, <2>2 DEF ChangeSetting, MasterTypes
  <2> QED BY <1>9, <2>1, <2>3 DEF ChangeSetting, RowTypes, LinkTypes
<1>10. CASE RowsChanged
  <2>1. MasterTypes' /\ LinkTypes'
    BY <1>10, ForgetsTypes DEF RowsChanged, Ends, MasterTypes
  <2> QED BY <1>10, <2>1 DEF RowsChanged, Fault, RowTypes, HistoryTypes
<1>11. CASE MasterRestarts
  <2>1. life' \in 1..MasterLives /\ nextId' \in 1..(MaxJobs + 1)
    BY <1>11, CountsAreNaturals DEF MasterRestarts, MasterTypes
  <2>2. MasterTypes' /\ LinkTypes'
    BY <1>11, <2>1, ForgetsTypes DEF MasterRestarts, Ends
  <2> QED BY <1>11, <2>2 DEF MasterRestarts, RowTypes, HistoryTypes
<1> QED BY <1>1, <1>2, <1>3, <1>4, <1>5, <1>6, <1>7, <1>8, <1>9, <1>10, <1>11 DEF Asked, Faulty

LEMMA StepTypes == TypeOK /\ [Next]_vars => TypeOK'
<1> SUFFICES ASSUME TypeOK, [Next]_vars PROVE TypeOK'
  OBVIOUS
<1>1. CASE UNCHANGED vars
  BY <1>1 DEF vars, TypeOK, MasterTypes, RowTypes, LinkTypes, HistoryTypes
<1>2. CASE Next
  BY <1>2, MasterStepTypes, RowStepTypes, OnLinkTypes, OtherTypes DEF Next
<1> QED BY <1>1, <1>2

\* Every handler of master and row keeps every variable to its type.
THEOREM TypesHold == Spec => []TypeOK
<1>1. Init => TypeOK
  BY InitTypes
<1>2. TypeOK /\ [Next]_vars => TypeOK'
  BY StepTypes
<1> QED BY <1>1, <1>2, PTL DEF Spec

-----------------------------------------------------------------------------
(* The tables of rows and connections *)

Opened(lk) == {l \in Links : lk[l].m = "open"}
Members(s) == {s[i] : i \in DOMAIN s}
Once(s)    == \A i, k \in DOMAIN s : i # k => s[i] # s[k]

\* TablesAgree of the connections lk, the rows' connections cn and the nobodies nb.
Agree(lk, cn, nb) ==
  /\ \A r \in Rows : cn[r] # NoLink =>
       lk[cn[r]].m = "open" /\ lk[cn[r]].of = r /\ lk[cn[r]].by = r
  /\ \A l \in Links : lk[l].of # Nobody => cn[lk[l].of] = l
  /\ Members(nb) = {l \in Opened(lk) : lk[l].of = Nobody}
  /\ Once(nb)
  /\ IsFiniteSet(Opened(lk)) /\ Cardinality(Opened(lk)) <= MaxConns

Tables(lk, cn, nb) ==
  /\ lk \in [Links -> Connections] /\ cn \in [Rows -> Links \cup {NoLink}]
  /\ nb \in Seq(Links)

\* One connection less among the nobodies.
LEMMA WithoutOne ==
  ASSUME NEW S, NEW s \in Seq(S), Once(s), NEW x
  PROVE  Members(Without(s, x)) = Members(s) \ {x} /\ Once(Without(s, x))
<1>1. CASE ~\E i \in DOMAIN s : s[i] = x
  BY <1>1 DEF Without, Members
<1>2. CASE \E i \in DOMAIN s : s[i] = x
  <2> DEFINE k == CHOOSE i \in DOMAIN s : s[i] = x
             t == Without(s, x)
  <2>1. k \in 1..Len(s) /\ s[k] = x
    BY <1>2
  <2>2. t = RemoveAt(s, k)
    BY <1>2, Zenon DEF Without
  <2> HIDE DEF k
  <2>3. t = SubSeq(s, 1, k - 1) \o SubSeq(s, k + 1, Len(s))
    BY <2>2 DEF RemoveAt
  <2> HIDE DEF t
  <2>4. /\ Len(s) \in Nat /\ DOMAIN s = 1..Len(s)
        /\ Len(t) = Len(s) - 1 /\ DOMAIN t = 1..(Len(s) - 1)
        /\ \A i \in 1..(Len(s) - 1) : t[i] = IF i < k THEN s[i] ELSE s[i + 1]
    <3> DEFINE a == SubSeq(s, 1, k - 1)
               b == SubSeq(s, k + 1, Len(s))
    <3>1. k \in Nat /\ 1 <= k /\ k <= Len(s) /\ Len(s) \in Nat /\ DOMAIN s = 1..Len(s)
      BY <2>1
    <3>2. (\A i \in 1..(k - 1) : s[i] \in S) /\ \A i \in (k + 1)..Len(s) : s[i] \in S
      BY <3>1
    <3>3. /\ a \in Seq(S) /\ Len(a) = (IF 1 <= k - 1 THEN (k - 1) - 1 + 1 ELSE 0)
          /\ \A i \in 1..((k - 1) - 1 + 1) : a[i] = s[1 + i - 1]
      BY <3>1, <3>2, SubSeqProperties
    <3>4. /\ b \in Seq(S)
          /\ Len(b) = (IF k + 1 <= Len(s) THEN Len(s) - (k + 1) + 1 ELSE 0)
          /\ \A i \in 1..(Len(s) - (k + 1) + 1) : b[i] = s[(k + 1) + i - 1]
      BY <3>1, <3>2, SubSeqProperties
    <3>5. t = a \o b
      BY <2>3
    <3> HIDE DEF a, b
    <3>6. /\ t \in Seq(S) /\ Len(t) = Len(a) + Len(b)
          /\ \A i \in 1..(Len(a) + Len(b)) : t[i] = IF i <= Len(a) THEN a[i] ELSE b[i - Len(a)]
      BY <3>3, <3>4, <3>5, ConcatProperties, Zenon
    <3>7. Len(a) = k - 1 /\ Len(b) = Len(s) - k
      <4>1. Len(a) = k - 1
        <5>1. CASE 1 <= k - 1
          BY <3>1, <3>3, <5>1
        <5>2. CASE ~(1 <= k - 1)
          <6>1. k = 1
            BY <3>1, <5>2
          <6> QED BY <3>3, <6>1
        <5> QED BY <5>1, <5>2
      <4>2. Len(b) = Len(s) - k
        <5>1. CASE k + 1 <= Len(s)
          BY <3>1, <3>4, <5>1
        <5>2. CASE ~(k + 1 <= Len(s))
          <6>0. \A i, n \in Nat : i <= n /\ ~(i + 1 <= n) => i = n
            OBVIOUS
          <6>1. k = Len(s)
            BY <3>1, <5>2, <6>0
          <6>2. Len(b) = 0
            BY <3>4, <5>2
          <6> QED BY <3>1, <6>1, <6>2
        <5> QED BY <5>1, <5>2
      <4> QED BY <4>1, <4>2
    <3>8. Len(t) = Len(s) - 1 /\ DOMAIN t = 1..(Len(s) - 1)
      BY <3>1, <3>6, <3>7
    <3>9. ASSUME NEW i \in 1..(Len(s) - 1), i < k PROVE t[i] = s[i]
      <4>1. i \in 1..((k - 1) - 1 + 1) /\ 1 + i - 1 = i /\ i \in 1..(Len(a) + Len(b)) /\ i <= Len(a)
        BY <3>1, <3>7, <3>9
      <4> QED BY <3>3, <3>6, <4>1
    <3>10. ASSUME NEW i \in 1..(Len(s) - 1), ~(i < k) PROVE t[i] = s[i + 1]
      <4> DEFINE n == i - (k - 1)
      <4>1. /\ n \in 1..(Len(s) - (k + 1) + 1) /\ (k + 1) + n - 1 = i + 1
            /\ i \in 1..(Len(a) + Len(b)) /\ ~(i <= Len(a)) /\ i - Len(a) = n
        BY <3>1, <3>7, <3>10
      <4> HIDE DEF n
      <4> QED BY <3>4, <3>6, <4>1
    <3> QED BY <3>1, <3>8, <3>9, <3>10
  <2>5. Once(t)
    <3> SUFFICES ASSUME NEW i \in DOMAIN t, NEW n \in DOMAIN t, i # n PROVE t[i] # t[n]
      BY DEF Once
    <3>1. \E a, b \in DOMAIN s : a # b /\ t[i] = s[a] /\ t[n] = s[b]
      <4> DEFINE a == IF i < k THEN i ELSE i + 1
                 b == IF n < k THEN n ELSE n + 1
      <4>1. a \in DOMAIN s /\ b \in DOMAIN s /\ a # b
        BY <2>1, <2>4
      <4>2. t[i] = s[a] /\ t[n] = s[b]
        BY <2>1, <2>4
      <4> QED BY <4>1, <4>2
    <3> QED BY <3>1 DEF Once
  <2>6. ASSUME NEW i \in DOMAIN t PROVE t[i] \in Members(s) \ {x}
    <3>1. \E a \in DOMAIN s : a # k /\ t[i] = s[a]
      <4> DEFINE a == IF i < k THEN i ELSE i + 1
      <4>1. a \in DOMAIN s /\ a # k /\ t[i] = s[a]
        BY <2>1, <2>4
      <4> QED BY <4>1
    <3> QED BY <2>1, <2>4, <3>1 DEF Once, Members
  <2>7. ASSUME NEW a \in DOMAIN s, s[a] # x PROVE s[a] \in Members(t)
    <3> DEFINE i == IF a < k THEN a ELSE a - 1
    <3>1. i \in DOMAIN t /\ t[i] = s[a]
      BY <2>1, <2>4, <2>7
    <3> QED BY <3>1 DEF Members
  <2>8. Members(t) \subseteq Members(s) \ {x} /\ Members(s) \ {x} \subseteq Members(t)
    BY <2>6, <2>7 DEF Members
  <2> QED BY <2>5, <2>8 DEF t
<1> QED BY <1>1, <1>2

\* What one end does alone leaves the tables as they are.
LEMMA AgreeSame ==
  ASSUME NEW lk, NEW lk2, NEW cn, NEW nb, Tables(lk, cn, nb), Agree(lk, cn, nb),
         \A l \in Links : /\ lk2[l].m = "open" <=> lk[l].m = "open"
                          /\ lk2[l].of = lk[l].of
                          /\ lk[l].m = "open" => lk2[l].by = lk[l].by
  PROVE  Agree(lk2, cn, nb)
<1>1. Opened(lk2) = Opened(lk)
  BY DEF Opened
<1>2. \A r \in Rows : cn[r] # NoLink => cn[r] \in Links
  BY DEF Tables
<1>3. {l \in Opened(lk2) : lk2[l].of = Nobody} = {l \in Opened(lk) : lk[l].of = Nobody}
  BY <1>1 DEF Opened
<1> QED BY <1>1, <1>2, <1>3 DEF Agree

\* The master lets go of the connections D.
LEMMA AgreeDrop ==
  ASSUME NEW lk, NEW lk2, NEW cn, NEW cn2, NEW nb, NEW nb2, NEW D,
         Tables(lk, cn, nb), Agree(lk, cn, nb),
         \A l \in Links : IF l \in D THEN lk2[l].m # "open" /\ lk2[l].of = Nobody
                          ELSE lk2[l] = lk[l],
         \A r \in Rows : cn2[r] = IF cn[r] \in D THEN NoLink ELSE cn[r],
         Members(nb2) = Members(nb) \ D, Once(nb2)
  PROVE  Agree(lk2, cn2, nb2)
<1>1. Opened(lk2) \subseteq Opened(lk)
  BY DEF Opened
<1>2. IsFiniteSet(Opened(lk2)) /\ Cardinality(Opened(lk2)) <= MaxConns
  <2>1. IsFiniteSet(Opened(lk2)) /\ Cardinality(Opened(lk2)) <= Cardinality(Opened(lk))
    BY <1>1, FS_Subset DEF Agree
  <2> QED BY <2>1, FS_CardinalityType, CountsAreNaturals DEF Agree
<1>3. \A r \in Rows : cn2[r] # NoLink => cn[r] \in Links /\ cn[r] \notin D
  BY DEF Tables
<1>4. \A l \in Links : lk2[l].of # Nobody => l \notin D /\ lk[l].of \in Rows /\ lk2[l].of = lk[l].of
  BY DEF Tables, Connections
<1>5. Members(nb2) = {l \in Opened(lk2) : lk2[l].of = Nobody}
  BY DEF Agree, Opened
<1>6. ASSUME NEW r \in Rows, cn2[r] # NoLink
      PROVE  lk2[cn2[r]].m = "open" /\ lk2[cn2[r]].of = r /\ lk2[cn2[r]].by = r
  <2>1. cn2[r] = cn[r] /\ cn[r] \in Links /\ cn[r] \notin D
    BY <1>3, <1>6
  <2> QED BY <1>6, <2>1 DEF Agree
<1>7. ASSUME NEW l \in Links, lk2[l].of # Nobody PROVE cn2[lk2[l].of] = l
  BY <1>4, <1>7 DEF Agree
<1> QED BY <1>2, <1>5, <1>6, <1>7 DEF Agree

\* The master takes a connection up ...
LEMMA AgreeOpen ==
  ASSUME NEW lk, NEW lk2, NEW cn, NEW nb, NEW l \in Links,
         Tables(lk, cn, nb), Agree(lk, cn, nb), lk[l].m # "open",
         Cardinality(Opened(lk)) < MaxConns,
         \A k \in Links \ {l} : lk2[k] = lk[k],
         lk2[l].m = "open" /\ lk2[l].of = Nobody
  PROVE  Agree(lk2, cn, Append(nb, l))
<1>1. Opened(lk2) = Opened(lk) \cup {l} /\ l \notin Opened(lk)
  BY DEF Opened
<1>2. IsFiniteSet(Opened(lk2)) /\ Cardinality(Opened(lk2)) = Cardinality(Opened(lk)) + 1
  BY <1>1, FS_AddElement DEF Agree
<1>3. Cardinality(Opened(lk2)) <= MaxConns
  BY <1>2, FS_CardinalityType, CountsAreNaturals DEF Agree
<1>4. lk[l].of = Nobody
  BY NamesAreDistinct DEF Agree, Tables, Connections
<1>5. Members(Append(nb, l)) = Members(nb) \cup {l} /\ l \notin Members(nb)
  <2>1. Members(Append(nb, l)) = Members(nb) \cup {l}
    <3>1. /\ nb \in Seq(Links) /\ Len(nb) \in Nat /\ DOMAIN nb = 1..Len(nb)
          /\ DOMAIN Append(nb, l) = 1..(Len(nb) + 1)
          /\ \A i \in 1..Len(nb) : Append(nb, l)[i] = nb[i]
          /\ Append(nb, l)[Len(nb) + 1] = l
      BY DEF Tables
    <3> QED BY <3>1 DEF Members
  <2> QED BY <2>1, <1>1 DEF Agree
<1>6. Once(Append(nb, l))
  <2>1. /\ nb \in Seq(Links) /\ Len(nb) \in Nat /\ DOMAIN nb = 1..Len(nb)
        /\ DOMAIN Append(nb, l) = 1..(Len(nb) + 1)
        /\ \A i \in 1..Len(nb) : Append(nb, l)[i] = nb[i] /\ nb[i] # l
        /\ Append(nb, l)[Len(nb) + 1] = l
    BY <1>5 DEF Tables, Members
  <2> QED BY <2>1 DEF Agree, Once
<1>7. \A r \in Rows : cn[r] # NoLink => cn[r] \in Links /\ cn[r] # l
  BY DEF Agree, Tables
<1>8. \A k \in Links : lk2[k].of # Nobody => k # l
  OBVIOUS
<1>9. {k \in Opened(lk2) : lk2[k].of = Nobody} = {k \in Opened(lk) : lk[k].of = Nobody} \cup {l}
  BY <1>1 DEF Opened
<1> QED BY <1>2, <1>3, <1>5, <1>6, <1>7, <1>8, <1>9 DEF Agree

\* ... and takes it for row r, which has none.
LEMMA AgreeTaken ==
  ASSUME NEW lk, NEW lk2, NEW cn, NEW nb, NEW l \in Links, NEW r \in Rows,
         Tables(lk, cn, nb), Agree(lk, cn, nb),
         lk[l].m = "open" /\ lk[l].of = Nobody /\ cn[r] = NoLink,
         \A k \in Links \ {l} : lk2[k] = lk[k],
         lk2[l].m = "open" /\ lk2[l].of = r /\ lk2[l].by = r
  PROVE  Agree(lk2, [cn EXCEPT ![r] = l], Without(nb, l))
<1>1. Opened(lk2) = Opened(lk)
  BY DEF Opened
<1>2. Members(Without(nb, l)) = Members(nb) \ {l} /\ Once(Without(nb, l))
  BY WithoutOne DEF Agree, Tables
<1>3. r # Nobody
  BY NamesAreDistinct
<1>4. {k \in Opened(lk2) : lk2[k].of = Nobody} = {k \in Opened(lk) : lk[k].of = Nobody} \ {l}
  BY <1>1, <1>3 DEF Opened
<1>5. \A q \in Rows : cn[q] # NoLink => cn[q] \in Links /\ cn[q] # l /\ q # r
  BY NamesAreDistinct DEF Agree, Tables
<1>6. \A k \in Links : lk[k].of # Nobody => lk[k].of \in Rows /\ lk[k].of # r
  BY NamesAreDistinct DEF Agree, Tables, Connections
<1>7. cn \in [Rows -> Links \cup {NoLink}]
  BY DEF Tables
<1>8. \A q \in Rows : [cn EXCEPT ![r] = l][q] = IF q = r THEN l ELSE cn[q]
  BY <1>7
<1> HIDE DEF Tables
<1> QED BY <1>1, <1>2, <1>3, <1>4, <1>5, <1>6, <1>8 DEF Agree

-----------------------------------------------------------------------------
\* What is inductive about TablesAgree: the tables agree, both ends' ideas of a connection
\* agree, a Hello is the first message and names its sender, and the boot id the master
\* knows of a row is none that the row still has to come to.
SocksAgree ==
  /\ \A r \in Rows : sock[r] # NoLink => link[sock[r]].held /\ link[sock[r]].by = r
  /\ \A l \in Links : link[l].held /\ link[l].by \in Rows => sock[link[l].by] = l
  /\ \A l \in Links : link[l].m = "gone" => link[l].up = <<>>
HellosAgree ==
  \A l \in Links : \A i \in DOMAIN link[l].up : link[l].up[i].t = "Hello" =>
    LET h == link[l].up[i]
    IN  /\ i = 1 /\ h.row = link[l].by
        /\ knownBoot[h.row] <= h.boot /\ h.boot <= boot[h.row]
        /\ link[l].held => h.boot = boot[h.row]
BootsAgree ==
  \A r \in Rows : /\ knownBoot[r] <= boot[r]
                  /\ conn[r] # NoLink /\ sock[r] = conn[r] => knownBoot[r] = boot[r]
EndsAgree == SocksAgree /\ HellosAgree /\ BootsAgree
TableInv  == Agree(link, conn, nobodies) /\ EndsAgree

\* Connection d is c but for messages that are no Hello, or the master let go of it.
Milder(c, d) ==
  /\ d.held = c.held /\ (c.held => d.by = c.by)
  /\ d.m = "gone" => d.up = <<>> \/ (c.m = "gone" /\ (c.up = <<>> => d.up = <<>>))
  /\ \A i \in DOMAIN d.up : d.up[i].t = "Hello" =>
       i \in DOMAIN c.up /\ c.up[i] = d.up[i] /\ d.by = c.by
\* ... and the master has it as before.
Quiet(c, d) == Milder(c, d) /\ d.m = c.m /\ d.of = c.of /\ d.by = c.by
HelloFirst(c) == \A i \in DOMAIN c.up : c.up[i].t = "Hello" => i = 1

LEMMA MilderTrans ==
  ASSUME NEW c, NEW d, NEW e, Milder(c, d), Milder(d, e)
  PROVE  Milder(c, e)
BY DEF Milder

LEMMA QuietTrans ==
  ASSUME NEW c, NEW d, NEW e, Quiet(c, d), Quiet(d, e)
  PROVE  Quiet(c, e)
BY MilderTrans DEF Quiet

LEMMA QuietSelf == ASSUME NEW c PROVE Quiet(c, c)
BY DEF Quiet, Milder

LEMMA LetGoFields ==
  ASSUME NEW c \in Connections
  PROVE  /\ MasterLetsGo(c).m = "gone" /\ MasterLetsGo(c).up = <<>>
         /\ MasterLetsGo(c).of = Nobody /\ MasterLetsGo(c).held = c.held
         /\ c.held => MasterLetsGo(c).by = c.by
         /\ Milder(c, MasterLetsGo(c))
<1>1. /\ MasterLetsGo(c).m = "gone" /\ MasterLetsGo(c).up = <<>>
      /\ MasterLetsGo(c).of = Nobody /\ MasterLetsGo(c).held = c.held
      /\ c.held => MasterLetsGo(c).by = c.by
  <2>1. CASE c.held
    BY <2>1 DEF MasterLetsGo, Connections
  <2>2. CASE ~c.held
    BY <2>2 DEF MasterLetsGo, Free, Connections
  <2> QED BY <2>1, <2>2
<1> QED BY <1>1 DEF Milder

LEMMA QuietDown ==
  ASSUME NEW c \in Connections
  PROVE  /\ c.down # <<>> => Quiet(c, ReadDown(c))
         /\ \A msg : Quiet(c, Down(c, msg))
<1>1. /\ ReadDown(c).up = c.up /\ ReadDown(c).m = c.m /\ ReadDown(c).of = c.of
      /\ ReadDown(c).by = c.by /\ ReadDown(c).held = c.held
  BY DEF ReadDown, Connections
<1>2. ASSUME NEW msg
      PROVE  /\ Down(c, msg).up = c.up /\ Down(c, msg).m = c.m /\ Down(c, msg).of = c.of
             /\ Down(c, msg).by = c.by /\ Down(c, msg).held = c.held
  BY DEF Down, Connections
<1> QED BY <1>1, <1>2 DEF Quiet, Milder

LEMMA QuietUp ==
  ASSUME NEW c \in Connections
  PROVE  /\ c.up # <<>> /\ HelloFirst(c) => /\ Quiet(c, ReadUp(c))
                                            /\ \A i \in DOMAIN ReadUp(c).up : ReadUp(c).up[i].t # "Hello"
         /\ \A msg \in ToMaster : msg.t # "Hello" => Quiet(c, Up(c, msg))
<1>1. ASSUME c.up # <<>>, HelloFirst(c)
      PROVE  Quiet(c, ReadUp(c)) /\ \A i \in DOMAIN ReadUp(c).up : ReadUp(c).up[i].t # "Hello"
  <2>1. /\ ReadUp(c).up = Tail(c.up) /\ ReadUp(c).m = c.m /\ ReadUp(c).of = c.of
        /\ ReadUp(c).by = c.by /\ ReadUp(c).held = c.held /\ c.up \in Seq(ToMaster)
    BY DEF ReadUp, Connections
  <2>2. \A i \in DOMAIN Tail(c.up) : i \in Nat \ {0} /\ i + 1 \in DOMAIN c.up /\ Tail(c.up)[i] = c.up[i + 1]
    BY <1>1, <2>1
  <2>3. \A i \in DOMAIN ReadUp(c).up : ReadUp(c).up[i].t # "Hello"
    BY <1>1, <2>1, <2>2 DEF HelloFirst
  <2> QED BY <1>1, <2>1, <2>3 DEF Quiet, Milder
<1>2. ASSUME NEW msg \in ToMaster, msg.t # "Hello" PROVE Quiet(c, Up(c, msg))
  <2>1. CASE c.cut \/ c.m = "gone"
    BY <2>1, QuietSelf DEF Up
  <2>2. CASE ~(c.cut \/ c.m = "gone")
    <3>1. /\ Up(c, msg).up = Append(c.up, msg) /\ Up(c, msg).m = c.m /\ Up(c, msg).of = c.of
          /\ Up(c, msg).by = c.by /\ Up(c, msg).held = c.held /\ c.up \in Seq(ToMaster)
      BY <2>2 DEF Up, Connections
    <3>2. \A i \in DOMAIN Append(c.up, msg) :
            \/ i \in DOMAIN c.up /\ Append(c.up, msg)[i] = c.up[i]
            \/ Append(c.up, msg)[i] = msg
      BY <3>1
    <3> QED BY <1>2, <2>2, <3>1, <3>2 DEF Quiet, Milder
  <2> QED BY <2>1, <2>2
<1> QED BY <1>1, <1>2

LEMMA QuietCut ==
  ASSUME NEW c \in Connections, NEW u \in 0..Len(c.up), NEW d \in 0..Len(c.down)
  PROVE  Quiet(c, [c EXCEPT !.cut = TRUE, !.up = SubSeq(@, 1, u), !.down = SubSeq(@, 1, d)])
<1> DEFINE e == [c EXCEPT !.cut = TRUE, !.up = SubSeq(@, 1, u), !.down = SubSeq(@, 1, d)]
<1>1. /\ e.up = SubSeq(c.up, 1, u) /\ e.m = c.m /\ e.of = c.of /\ e.by = c.by
      /\ e.held = c.held /\ c.up \in Seq(ToMaster)
  BY DEF Connections
<1> HIDE DEF e
<1>2. \A i \in DOMAIN e.up : i \in DOMAIN c.up /\ e.up[i] = c.up[i]
  BY <1>1
<1>3. c.up = <<>> => e.up = <<>>
  BY <1>1
<1>4. Quiet(c, e)
  BY <1>1, <1>2, <1>3 DEF Quiet, Milder
<1> QED BY <1>4 DEF e

-----------------------------------------------------------------------------
LEMMA EndsKept ==
  ASSUME TypeOK, TypeOK', EndsAgree, BootsAgree',
         \A l \in Links : Milder(link[l], link'[l]),
         UNCHANGED <<sock, boot>>,
         \A l \in Links : \A i \in DOMAIN link'[l].up : link'[l].up[i].t = "Hello" =>
           knownBoot'[link'[l].up[i].row] <= link'[l].up[i].boot
  PROVE  EndsAgree'
<1>0. /\ \A r \in Rows : sock[r] \in Links \cup {NoLink}
      /\ \A l \in Links : /\ link'[l].held = link[l].held
                          /\ link[l].held => link'[l].by = link[l].by
  BY DEF Milder, TypeOK, RowTypes
<1>1. SocksAgree'
  <2>1. ASSUME NEW r \in Rows, sock[r] # NoLink
        PROVE  link'[sock[r]].held /\ link'[sock[r]].by = r
    BY <1>0, <2>1 DEF EndsAgree, SocksAgree
  <2>2. ASSUME NEW l \in Links, link'[l].held, link'[l].by \in Rows PROVE sock[link'[l].by] = l
    BY <1>0, <2>2 DEF EndsAgree, SocksAgree
  <2>3. \A l \in Links : link'[l].m = "gone" => link'[l].up = <<>>
    BY DEF EndsAgree, SocksAgree, Milder
  <2> QED BY <1>0, <2>1, <2>2, <2>3 DEF SocksAgree
<1>2. HellosAgree'
  <2> SUFFICES ASSUME NEW l \in Links, NEW i \in DOMAIN link'[l].up, link'[l].up[i].t = "Hello"
               PROVE  LET h == link'[l].up[i]
                      IN  /\ i = 1 /\ h.row = link'[l].by
                          /\ knownBoot'[h.row] <= h.boot /\ h.boot <= boot[h.row]
                          /\ link'[l].held => h.boot = boot[h.row]
    BY DEF HellosAgree
  <2>1. /\ i \in DOMAIN link[l].up /\ link[l].up[i] = link'[l].up[i]
        /\ link'[l].by = link[l].by /\ link'[l].held = link[l].held
    BY DEF Milder
  <2>2. LET h == link[l].up[i]
        IN  /\ i = 1 /\ h.row = link[l].by /\ h.boot <= boot[h.row]
            /\ link[l].held => h.boot = boot[h.row]
    BY <2>1 DEF EndsAgree, HellosAgree
  <2> QED BY <2>1, <2>2
<1> QED BY <1>1, <1>2 DEF EndsAgree

LEMMA EndsMilder ==
  ASSUME TypeOK, TypeOK', EndsAgree,
         \A l \in Links : Milder(link[l], link'[l]),
         UNCHANGED <<sock, boot>>,
         \A r \in Rows : \/ conn'[r] \in {conn[r], NoLink} /\ knownBoot'[r] = knownBoot[r]
                         \/ conn'[r] = NoLink /\ knownBoot'[r] = 0
  PROVE  EndsAgree'
<1>1. \A r \in Rows : knownBoot'[r] <= knownBoot[r] /\ knownBoot[r] \in Nat /\ knownBoot'[r] \in Nat
  <2> TAKE r \in Rows
  <2>1. knownBoot[r] \in Nat /\ knownBoot'[r] \in Nat
    BY DEF TypeOK, MasterTypes
  <2>2. knownBoot'[r] = knownBoot[r] \/ knownBoot'[r] = 0
    OBVIOUS
  <2> QED BY <2>1, <2>2
<1>2. BootsAgree'
  <2> SUFFICES ASSUME NEW r \in Rows
               PROVE  /\ knownBoot'[r] <= boot[r]
                      /\ conn'[r] # NoLink /\ sock[r] = conn'[r] => knownBoot'[r] = boot[r]
    BY DEF BootsAgree
  <2>1. boot[r] \in Nat /\ knownBoot[r] <= boot[r]
    BY DEF EndsAgree, BootsAgree, TypeOK, RowTypes
  <2>2. conn'[r] # NoLink => conn'[r] = conn[r] /\ knownBoot'[r] = knownBoot[r]
    OBVIOUS
  <2> QED BY <1>1, <2>1, <2>2 DEF EndsAgree, BootsAgree
<1>3. ASSUME NEW l \in Links, NEW i \in DOMAIN link'[l].up, link'[l].up[i].t = "Hello"
      PROVE  knownBoot'[link'[l].up[i].row] <= link'[l].up[i].boot
  <2> DEFINE h == link'[l].up[i]
  <2>1. i \in DOMAIN link[l].up /\ link[l].up[i] = h
    BY <1>3 DEF Milder
  <2>2. h \in ToMaster
    <3>1. link[l].up \in Seq(ToMaster)
      BY DEF TypeOK, LinkTypes, Connections
    <3> QED BY <2>1, <3>1
  <2>3. h.row \in Rows /\ h.boot \in Nat
    BY <1>3, <2>2, MessageTypes
  <2>4. knownBoot[h.row] <= h.boot
    BY <1>3, <2>1 DEF EndsAgree, HellosAgree
  <2> QED BY <1>1, <2>3, <2>4
<1> QED BY <1>2, <1>3, EndsKept

LEMMA TablesQuiet ==
  ASSUME TypeOK, TypeOK', TableInv, \A l \in Links : Quiet(link[l], link'[l]),
         UNCHANGED <<sock, boot, conn, nobodies, knownBoot>>
  PROVE  TableInv'
<1>1. EndsAgree'
  BY EndsMilder DEF TableInv, Quiet
<1>2. Tables(link, conn, nobodies)
  BY DEF Tables, TypeOK, LinkTypes, MasterTypes
<1>3. Agree(link', conn, nobodies)
  BY <1>2, AgreeSame DEF TableInv, Quiet
<1> QED BY <1>1, <1>3 DEF TableInv, Agree, Opened

-----------------------------------------------------------------------------
\* Steps in which neither end opens or closes a connection.
LEMMA QuietOne ==
  ASSUME LinkTypes, NEW l \in Links, NEW c, Quiet(link[l], c), link' = [link EXCEPT ![l] = c]
  PROVE  \A k \in Links : Quiet(link[k], link'[k])
BY QuietSelf DEF LinkTypes

LEMMA HelloIsFirst ==
  ASSUME HellosAgree, NEW l \in Links PROVE HelloFirst(link[l])
BY DEF HellosAgree, HelloFirst

LEMMA QuietMasterReads ==
  ASSUME LinkTypes, MasterTypes, HellosAgree, NEW r \in Rows, NEW t, Arrived(r, t), ReadOff(r)
  PROVE  \A k \in Links : Quiet(link[k], link'[k])
<1>1. conn[r] \in Links /\ link[conn[r]] \in Connections /\ link[conn[r]].up # <<>>
  BY DEF Arrived, MasterTypes, LinkTypes
<1>2. Quiet(link[conn[r]], ReadUp(link[conn[r]]))
  BY <1>1, HelloIsFirst, QuietUp
<1> QED BY <1>1, <1>2, QuietOne DEF ReadOff

LEMMA QuietMasterWrites ==
  ASSUME LinkTypes, MasterTypes, NEW r \in Rows, Takes(r), NEW msg, Write(r, msg)
  PROVE  \A k \in Links : Quiet(link[k], link'[k])
<1>1. conn[r] \in Links /\ link[conn[r]] \in Connections
  BY DEF Takes, MasterTypes, LinkTypes
<1> QED BY <1>1, QuietDown, QuietOne DEF Write

LEMMA QuietRowReads ==
  ASSUME LinkTypes, RowTypes, NEW r \in Rows, NEW t, Told(r, t)
  PROVE  /\ Reads(r) => \A k \in Links : Quiet(link[k], link'[k])
         /\ \A msg \in ToMaster : msg.t # "Hello" /\ Replies(r, msg) =>
              \A k \in Links : Quiet(link[k], link'[k])
<1>1. sock[r] \in Links /\ link[sock[r]] \in Connections /\ link[sock[r]].down # <<>>
  BY DEF Told, RowTypes, LinkTypes
<1>2. ReadDown(link[sock[r]]) \in Connections /\ Quiet(link[sock[r]], ReadDown(link[sock[r]]))
  BY <1>1, EditTypes, QuietDown
<1>3. ASSUME NEW msg \in ToMaster, msg.t # "Hello"
      PROVE  Quiet(link[sock[r]], Up(ReadDown(link[sock[r]]), msg))
  BY <1>2, <1>3, QuietUp, QuietTrans
<1> QED BY <1>1, <1>2, <1>3, QuietOne DEF Reads, Replies

LEMMA QuietRowSays ==
  ASSUME LinkTypes, RowTypes, NEW r \in Rows, sock[r] # NoLink, NEW msg \in ToMaster,
         msg.t # "Hello", Says(r, msg)
  PROVE  \A k \in Links : Quiet(link[k], link'[k])
<1>1. sock[r] \in Links /\ link[sock[r]] \in Connections
  BY DEF RowTypes, LinkTypes
<1> QED BY <1>1, QuietUp, QuietOne DEF Says

LEMMA NotHello ==
  /\ \A b : Status(b).t # "Hello"
  /\ \A n : Shown(n).t # "Hello"
  /\ \A n, ph : OpState(n, ph).t # "Hello"
BY DEF Status, Shown, OpState

LEMMA MasterStepTables ==
  ASSUME TypeOK, TypeOK', TableInv, NEW r \in Rows, MasterStep(r) \/ JobOverdue(r) \/ Asked(r)
  PROVE  TableInv'
<1> USE DEF TypeOK
<1>1. UNCHANGED <<sock, boot, conn, nobodies, knownBoot>>
  BY DEF MasterStep, ReadStatus, ReadShown, ReadOpState, TellSetting, TellLog, SendShow, SendOp,
         Ping, JobOverdue, Asked, AskJob, WantLog, SetText, vars
<1>2. \A k \in Links : Quiet(link[k], link'[k])
  <2>0. HellosAgree
    BY DEF TableInv, EndsAgree
  <2>1. CASE ReadStatus(r)
    BY <2>0, <2>1, QuietMasterReads DEF ReadStatus
  <2>2. CASE ReadShown(r)
    BY <2>0, <2>2, QuietMasterReads DEF ReadShown
  <2>3. CASE ReadOpState(r)
    BY <2>0, <2>3, QuietMasterReads DEF ReadOpState
  <2>4. CASE TellSetting(r)
    BY <2>4, QuietMasterWrites DEF TellSetting
  <2>5. CASE TellLog(r)
    BY <2>5, QuietMasterWrites DEF TellLog
  <2>6. CASE SendShow(r)
    BY <2>6, QuietMasterWrites DEF SendShow
  <2>7. CASE SendOp(r)
    BY <2>7, QuietMasterWrites DEF SendOp
  <2>8. CASE Ping(r) \/ JobOverdue(r) \/ Asked(r)
    <3>1. link' = link
      BY <2>8 DEF Ping, JobOverdue, Asked, AskJob, WantLog, SetText, vars
    <3> QED BY <3>1, QuietSelf
  <2> QED BY <2>1, <2>2, <2>3, <2>4, <2>5, <2>6, <2>7, <2>8 DEF MasterStep
<1> QED BY <1>1, <1>2, TablesQuiet

LEMMA RowStepTables ==
  ASSUME TypeOK, TypeOK', TableInv, NEW r \in Rows, RowStep(r), ~RowSeesClosed(r)
  PROVE  TableInv'
<1> USE DEF TypeOK
<1>1. UNCHANGED <<sock, boot, conn, nobodies, knownBoot>>
  BY DEF RowStep, RowWelcomed, RowTakesText, RowTakesSetting, RowTakesLogCtl, RowTakesOp,
         UnitJobStarts, UnitJobEnds, RowReportsEnd, RowSaysStatus
<1>2. \A k \in Links : Quiet(link[k], link'[k])
  <2>0. Busy(r) \in BOOLEAN
    BY DEF Busy
  <2>1. CASE RowWelcomed(r)
    BY <2>0, <2>1, QuietRowReads, NotHello, SaidTypes DEF RowWelcomed
  <2>2. CASE RowTakesText(r)
    <3>1. FromMaster(r).id \in Nat
      BY <2>2, RowReads, MessageTypes DEF RowTakesText
    <3> QED BY <2>2, <3>1, QuietRowReads, NotHello, SaidTypes DEF RowTakesText
  <2>3. CASE RowTakesSetting(r)
    BY <2>3, QuietRowReads DEF RowTakesSetting
  <2>4. CASE RowTakesLogCtl(r)
    BY <2>4, QuietRowReads DEF RowTakesLogCtl
  <2>5. CASE RowTakesOp(r)
    <3>1. FromMaster(r).id \in 1..MaxJobs
      BY <2>5, RowReads, MessageTypes DEF RowTakesOp, Jobs
    <3> QED BY <2>5, <3>1, QuietRowReads, NotHello, SaidTypes DEF RowTakesOp
  <2>6. CASE RowReportsEnd(r)
    <3>1. op[r].job[2] \in 1..MaxJobs /\ op[r].st \in {"ok", "failed"}
      BY <2>6 DEF RowReportsEnd, RowTypes, NoOp, Jobs
    <3> QED BY <2>6, <3>1, QuietRowSays, NotHello, SaidTypes DEF RowReportsEnd, Writes
  <2>7. CASE RowSaysStatus(r)
    BY <2>0, <2>7, QuietRowSays, NotHello, SaidTypes DEF RowSaysStatus, Writes
  <2>8. CASE UnitJobStarts(r) \/ \E how \in {"ok", "failed"} : UnitJobEnds(r, how)
    <3>1. link' = link
      BY <2>8 DEF UnitJobStarts, UnitJobEnds
    <3> QED BY <3>1, QuietSelf
  <2> QED BY <2>1, <2>2, <2>3, <2>4, <2>5, <2>6, <2>7, <2>8 DEF RowStep
<1> QED BY <1>1, <1>2, TablesQuiet

-----------------------------------------------------------------------------
\* The end that dialled opens a connection or lets go of it.
LEMMA HangUpFields ==
  ASSUME NEW c \in Connections, c.m = "gone" => c.up = <<>> /\ c.of = Nobody
  PROVE  /\ DialerLetsGo(c).m = c.m /\ DialerLetsGo(c).of = c.of
         /\ DialerLetsGo(c).up = c.up /\ DialerLetsGo(c).held = FALSE
         /\ c.m # "gone" => DialerLetsGo(c).by = c.by
<1>1. CASE c.m = "gone"
  BY <1>1 DEF DialerLetsGo, Free
<1>2. CASE c.m # "gone"
  BY <1>2 DEF DialerLetsGo, Connections
<1> QED BY <1>1, <1>2

LEMMA HangUpTables ==
  ASSUME TypeOK, TypeOK', TableInv, NEW l \in Links,
         link' = [link EXCEPT ![l] = DialerLetsGo(@)],
         UNCHANGED <<conn, nobodies, knownBoot>>,
         \/ link[l].by \notin Rows /\ UNCHANGED <<sock, boot>>
         \/ \E r \in Rows : /\ sock[r] = l /\ sock' = [sock EXCEPT ![r] = NoLink]
                            /\ boot' = boot \/ boot' = [boot EXCEPT ![r] = @ + 1]
  PROVE  TableInv'
<1> DEFINE lk == link'
<1>1. /\ link \in [Links -> Connections] /\ Tables(link, conn, nobodies)
      /\ \A r \in Rows : /\ sock[r] \in Links \cup {NoLink} /\ conn[r] \in Links \cup {NoLink}
                         /\ knownBoot[r] \in Nat /\ boot[r] \in Nat
  BY DEF TypeOK, LinkTypes, MasterTypes, RowTypes, Tables
<1>2. link[l].m = "gone" => link[l].up = <<>> /\ link[l].of = Nobody
  <2>1. link[l].of \in Rows \cup {Nobody}
    BY <1>1 DEF Connections
  <2>2. link[l].of # Nobody => link[l].m = "open"
    <3> SUFFICES ASSUME link[l].of # Nobody PROVE link[l].m = "open"
      OBVIOUS
    <3>1. conn[link[l].of] = l
      BY DEF TableInv, Agree
    <3>2. l # NoLink
      BY NamesAreDistinct
    <3> QED BY <2>1, <3>1, <3>2 DEF TableInv, Agree
  <2> QED BY <2>2 DEF TableInv, EndsAgree, SocksAgree
<1>3. /\ \A k \in Links \ {l} : lk[k] = link[k]
      /\ lk[l].m = link[l].m /\ lk[l].of = link[l].of /\ lk[l].up = link[l].up
      /\ lk[l].held = FALSE /\ (link[l].m # "gone" => lk[l].by = link[l].by)
  <2>1. lk[l] = DialerLetsGo(link[l]) /\ link[l] \in Connections
    BY <1>1
  <2> QED BY <1>1, <1>2, <2>1, HangUpFields
<1> HIDE DEF lk
<1>4. Agree(lk, conn, nobodies)
  BY <1>1, <1>3, AgreeSame DEF TableInv
<1>5. \A q \in Rows : /\ (sock'[q] # NoLink => sock'[q] = sock[q] /\ sock[q] # l)
                      /\ (sock[q] # l => sock'[q] = sock[q] /\ boot'[q] = boot[q])
                      /\ boot[q] <= boot'[q]
  <2>1. CASE link[l].by \notin Rows /\ UNCHANGED <<sock, boot>>
    <3>1. \A r \in Rows : sock[r] # l
      BY <2>1, NamesAreDistinct DEF TableInv, EndsAgree, SocksAgree
    <3> QED BY <1>1, <2>1, <3>1
  <2>2. ASSUME NEW r \in Rows, sock[r] = l, sock' = [sock EXCEPT ![r] = NoLink],
               boot' = boot \/ boot' = [boot EXCEPT ![r] = @ + 1]
        PROVE  \A q \in Rows : /\ (sock'[q] # NoLink => sock'[q] = sock[q] /\ sock[q] # l)
                               /\ (sock[q] # l => sock'[q] = sock[q] /\ boot'[q] = boot[q])
                               /\ boot[q] <= boot'[q]
    <3>0. sock \in [Rows -> Links \cup {NoLink}] /\ boot \in [Rows -> Nat \ {0}]
      BY DEF TypeOK, RowTypes
    <3>1. \A q \in Rows \ {r} : sock[q] # l
      BY <2>2, NamesAreDistinct DEF TableInv, EndsAgree, SocksAgree
    <3>2. sock'[r] = NoLink /\ \A q \in Rows \ {r} : sock'[q] = sock[q] /\ boot'[q] = boot[q]
      BY <2>2, <3>0
    <3>3. boot[r] <= boot'[r]
      BY <2>2, <3>0
    <3> QED BY <1>1, <2>2, <3>1, <3>2, <3>3
  <2> QED BY <2>1, <2>2
<1>6. SocksAgree'
  <2>1. ASSUME NEW r \in Rows, sock'[r] # NoLink PROVE lk[sock'[r]].held /\ lk[sock'[r]].by = r
    <3>1. sock'[r] = sock[r] /\ sock[r] \in Links \ {l}
      BY <1>1, <1>5, <2>1
    <3> QED BY <1>3, <2>1, <3>1 DEF TableInv, EndsAgree, SocksAgree
  <2>2. ASSUME NEW k \in Links, lk[k].held, lk[k].by \in Rows PROVE sock'[lk[k].by] = k
    <3>1. k # l /\ lk[k] = link[k]
      BY <1>3, <2>2
    <3>2. sock[link[k].by] = k
      BY <2>2, <3>1 DEF TableInv, EndsAgree, SocksAgree
    <3> QED BY <1>5, <2>2, <3>1, <3>2
  <2>3. \A k \in Links : lk[k].m = "gone" => lk[k].up = <<>>
    BY <1>3 DEF TableInv, EndsAgree, SocksAgree
  <2> QED BY <2>1, <2>2, <2>3 DEF SocksAgree, lk
<1>7. HellosAgree'
  <2> SUFFICES ASSUME NEW k \in Links, NEW i \in DOMAIN lk[k].up, lk[k].up[i].t = "Hello"
               PROVE  LET h == lk[k].up[i]
                      IN  /\ i = 1 /\ h.row = lk[k].by
                          /\ knownBoot[h.row] <= h.boot /\ h.boot <= boot'[h.row]
                          /\ lk[k].held => h.boot = boot'[h.row]
    BY DEF HellosAgree, lk
  <2>1. lk[k].up = link[k].up /\ (lk[k].held => k # l /\ link[k].held)
    BY <1>3
  <2>2. lk[k].by = link[k].by
    <3>1. link[k].m # "gone"
      BY <2>1 DEF TableInv, EndsAgree, SocksAgree
    <3> QED BY <1>3, <3>1
  <2> DEFINE h == link[k].up[i]
  <2>3. h \in ToMaster /\ h.row \in Rows /\ h.boot \in Nat
    <3>1. link[k].up \in Seq(ToMaster)
      BY <1>1 DEF Connections
    <3>2. h \in ToMaster
      BY <2>1, <3>1
    <3> QED BY <2>1, <3>2, MessageTypes
  <2>4. /\ i = 1 /\ h.row = link[k].by /\ knownBoot[h.row] <= h.boot /\ h.boot <= boot[h.row]
        /\ link[k].held => h.boot = boot[h.row] /\ sock[h.row] = k
    BY <2>1, <2>3 DEF TableInv, EndsAgree, HellosAgree, SocksAgree
  <2>5. h.boot <= boot'[h.row]
    <3>1. boot[h.row] <= boot'[h.row] /\ boot'[h.row] \in Nat
      BY <1>5, <2>3 DEF TypeOK, RowTypes
    <3> QED BY <1>1, <2>3, <2>4, <3>1
  <2>6. lk[k].held => h.boot = boot'[h.row]
    BY <1>5, <2>1, <2>3, <2>4
  <2> QED BY <2>1, <2>2, <2>4, <2>5, <2>6
<1>8. BootsAgree'
  <2> SUFFICES ASSUME NEW r \in Rows
               PROVE  /\ knownBoot[r] <= boot'[r]
                      /\ conn[r] # NoLink /\ sock'[r] = conn[r] => knownBoot[r] = boot'[r]
    BY DEF BootsAgree
  <2>1. knownBoot[r] <= boot[r] /\ boot[r] <= boot'[r] /\ boot'[r] \in Nat
    BY <1>5 DEF TableInv, EndsAgree, BootsAgree, TypeOK, RowTypes
  <2>2. conn[r] # NoLink /\ sock'[r] = conn[r] => knownBoot[r] = boot'[r]
    BY <1>5 DEF TableInv, EndsAgree, BootsAgree
  <2> QED BY <1>1, <2>1, <2>2
<1> QED BY <1>4, <1>6, <1>7, <1>8 DEF TableInv, EndsAgree, Agree, Opened, lk

LEMMA DialTables ==
  ASSUME TypeOK, TypeOK', TableInv, NEW l \in Links, NEW a, link[l] = Free,
         UNCHANGED <<conn, nobodies, knownBoot, boot>>,
         \/ link' = [link EXCEPT ![l] = Fresh(Stranger, a, <<>>)] /\ sock' = sock
         \/ \E r \in Rows : /\ sock[r] = NoLink /\ sock' = [sock EXCEPT ![r] = l]
                            /\ link' = [link EXCEPT ![l] = Fresh(r, a, <<Hello(r)>>)]
  PROVE  TableInv'
<1> DEFINE lk == link'
<1>1. /\ link \in [Links -> Connections] /\ Tables(link, conn, nobodies)
      /\ sock \in [Rows -> Links \cup {NoLink}]
      /\ \A r \in Rows : knownBoot[r] \in Nat /\ boot[r] \in Nat
  BY DEF TypeOK, LinkTypes, MasterTypes, RowTypes, Tables
<1>2. /\ \A k \in Links \ {l} : lk[k] = link[k]
      /\ lk[l].m = "backlog" /\ lk[l].of = Nobody /\ lk[l].held
      /\ link[l].m = "gone" /\ link[l].of = Nobody /\ ~link[l].held
  BY <1>1 DEF Fresh, Free
<1>3. \/ lk[l].by = Stranger /\ lk[l].up = <<>> /\ sock' = sock
      \/ \E r \in Rows : /\ lk[l].by = r /\ lk[l].up = <<Hello(r)>>
                         /\ sock[r] = NoLink /\ sock' = [sock EXCEPT ![r] = l]
  BY <1>1 DEF Fresh
<1> HIDE DEF lk
<1>4. Agree(lk, conn, nobodies)
  BY <1>1, <1>2, AgreeSame DEF TableInv
<1>5. \A q \in Rows : \/ lk[l].by # q /\ sock'[q] = sock[q]
                      \/ lk[l].by = q /\ sock[q] = NoLink /\ sock'[q] = l
  <2>1. CASE lk[l].by = Stranger /\ sock' = sock
    BY <2>1, NamesAreDistinct
  <2>2. ASSUME NEW r \in Rows, lk[l].by = r, sock[r] = NoLink, sock' = [sock EXCEPT ![r] = l]
        PROVE  \A q \in Rows : \/ lk[l].by # q /\ sock'[q] = sock[q]
                               \/ lk[l].by = q /\ sock[q] = NoLink /\ sock'[q] = l
    BY <1>1, <2>2
  <2> QED BY <1>3, <2>1, <2>2
<1>6. \A q \in Rows : sock[q] # l
  BY <1>2, NamesAreDistinct DEF TableInv, EndsAgree, SocksAgree
<1>7. SocksAgree'
  <2>1. ASSUME NEW r \in Rows, sock'[r] # NoLink PROVE lk[sock'[r]].held /\ lk[sock'[r]].by = r
    <3>1. CASE lk[l].by = r
      BY <1>2, <1>5, <2>1, <3>1
    <3>2. CASE lk[l].by # r
      <4>1. sock'[r] = sock[r] /\ sock[r] \in Links \ {l}
        BY <1>1, <1>5, <1>6, <2>1, <3>2
      <4> QED BY <1>2, <2>1, <4>1 DEF TableInv, EndsAgree, SocksAgree
    <3> QED BY <3>1, <3>2
  <2>2. ASSUME NEW k \in Links, lk[k].held, lk[k].by \in Rows PROVE sock'[lk[k].by] = k
    <3>1. CASE k = l
      BY <1>5, <2>2, <3>1
    <3>2. CASE k # l
      <4>1. sock[lk[k].by] = k
        BY <1>2, <2>2, <3>2 DEF TableInv, EndsAgree, SocksAgree
      <4> QED BY <1>5, <2>2, <4>1, NamesAreDistinct
    <3> QED BY <3>1, <3>2
  <2>3. \A k \in Links : lk[k].m = "gone" => lk[k].up = <<>>
    BY <1>2 DEF TableInv, EndsAgree, SocksAgree
  <2> QED BY <2>1, <2>2, <2>3 DEF SocksAgree, lk
<1>8. HellosAgree'
  <2> SUFFICES ASSUME NEW k \in Links, NEW i \in DOMAIN lk[k].up, lk[k].up[i].t = "Hello"
               PROVE  LET h == lk[k].up[i]
                      IN  /\ i = 1 /\ h.row = lk[k].by
                          /\ knownBoot[h.row] <= h.boot /\ h.boot <= boot[h.row]
                          /\ lk[k].held => h.boot = boot[h.row]
    BY DEF HellosAgree, lk
  <2>1. CASE k # l
    BY <1>2, <2>1 DEF TableInv, EndsAgree, HellosAgree
  <2>2. CASE k = l
    <3>1. PICK r \in Rows : lk[l].by = r /\ lk[l].up = <<Hello(r)>>
      BY <1>3, <2>2
    <3>2. i = 1 /\ lk[k].up[i] = Hello(r)
      BY <2>2, <3>1
    <3>3. Hello(r).row = r /\ Hello(r).boot = boot[r]
      BY DEF Hello
    <3>4. knownBoot[r] <= boot[r]
      BY DEF TableInv, EndsAgree, BootsAgree
    <3> QED BY <1>1, <2>2, <3>1, <3>2, <3>3, <3>4
  <2> QED BY <2>1, <2>2
<1>9. BootsAgree'
  <2> SUFFICES ASSUME NEW r \in Rows
               PROVE  /\ knownBoot[r] <= boot[r]
                      /\ conn[r] # NoLink /\ sock'[r] = conn[r] => knownBoot[r] = boot[r]
    BY DEF BootsAgree
  <2>1. conn[r] # NoLink => conn[r] # l
    BY <1>2 DEF TableInv, Agree
  <2> QED BY <1>5, <2>1 DEF TableInv, EndsAgree, BootsAgree
<1> QED BY <1>4, <1>7, <1>8, <1>9 DEF TableInv, EndsAgree, Agree, Opened, lk

-----------------------------------------------------------------------------
\* The master takes connections up and lets go of them.
LEMMA DropTables ==
  ASSUME TypeOK, TypeOK', TableInv, NEW D \in SUBSET Links,
         \A l \in Links : IF l \in D THEN link'[l].m = "gone" /\ link'[l].of = Nobody
                                          /\ Milder(link[l], link'[l])
                          ELSE link'[l] = link[l],
         \A r \in Rows : conn'[r] = IF conn[r] \in D THEN NoLink ELSE conn[r],
         Members(nobodies') = Members(nobodies) \ D, Once(nobodies'),
         UNCHANGED <<sock, boot>>,
         \A r \in Rows : \/ knownBoot'[r] = knownBoot[r]
                         \/ conn'[r] = NoLink /\ knownBoot'[r] = 0
  PROVE  TableInv'
<1>1. Tables(link, conn, nobodies)
  BY DEF TypeOK, LinkTypes, MasterTypes, Tables
<1>2. Agree(link', conn', nobodies')
  BY <1>1, AgreeDrop DEF TableInv
<1>3. \A l \in Links : Milder(link[l], link'[l])
  BY QuietSelf DEF Quiet
<1>4. EndsAgree'
  BY <1>3, EndsMilder DEF TableInv
<1> QED BY <1>2, <1>4 DEF TableInv, Agree, Opened

LEMMA ClosedTables ==
  ASSUME TypeOK, TypeOK', TableInv, NEW l \in Links,
         \A k \in Links \ {l} : link'[k] = link[k],
         link'[l].m = "gone" /\ link'[l].of = Nobody /\ Milder(link[l], link'[l]),
         Closed(l), UNCHANGED <<sock, boot, knownBoot>>
  PROVE  TableInv'
<1>1. Members(nobodies') = Members(nobodies) \ {l} /\ Once(nobodies')
  BY WithoutOne DEF Closed, TableInv, Agree, TypeOK, MasterTypes
<1>2. \A r \in Rows : conn'[r] = IF conn[r] \in {l} THEN NoLink ELSE conn[r]
  BY DEF Closed
<1>3. \A k \in Links : IF k \in {l} THEN link'[k].m = "gone" /\ link'[k].of = Nobody
                                         /\ Milder(link[k], link'[k])
                       ELSE link'[k] = link[k]
  OBVIOUS
<1> QED BY <1>1, <1>2, <1>3, DropTables

LEMMA ForgetsTables ==
  ASSUME TypeOK, TypeOK', TableInv, NEW how, ForgetsRows(how), UNCHANGED <<sock, boot>>
  PROVE  TableInv'
<1>1. \A l \in Links : link'[l].m = "gone" /\ link'[l].of = Nobody /\ Milder(link[l], link'[l])
  <2> TAKE l \in Links
  <2>1. link[l] \in Connections /\ link'[l] = MasterLetsGo(link[l])
    BY DEF ForgetsRows, TypeOK, LinkTypes
  <2> QED BY <2>1, LetGoFields
<1>2. \A r \in Rows : /\ conn'[r] = NoLink /\ knownBoot'[r] = 0
                      /\ conn[r] \in Links \cup {NoLink}
  BY DEF ForgetsRows, TypeOK, MasterTypes
<1>3. Members(nobodies) \subseteq Links /\ Members(nobodies') = {} /\ Once(nobodies')
  BY DEF ForgetsRows, TypeOK, MasterTypes, Members, Once
<1> QED BY <1>1, <1>2, <1>3, DropTables

LEMMA AcceptTables ==
  ASSUME TypeOK, TypeOK', TableInv, NEW l \in Links, Accept(l)
  PROVE  TableInv'
<1>1. /\ link \in [Links -> Connections] /\ conn \in [Rows -> Links \cup {NoLink}]
      /\ nobodies \in Seq(Links) /\ Tables(link, conn, nobodies)
      /\ Agree(link, conn, nobodies) /\ OpenConns = Opened(link)
  BY DEF TypeOK, LinkTypes, MasterTypes, Tables, TableInv, OpenConns, Opened
<1>2. link[l].m = "backlog" /\ link[l].of = Nobody /\ l \notin Opened(link)
  <2>1. link[l].m = "backlog"
    BY DEF Accept
  <2>2. link[l].of \in Rows \cup {Nobody}
    BY <1>1 DEF Connections
  <2> QED BY <1>1, <2>1, <2>2, NamesAreDistinct DEF Agree, Opened
<1>3. UNCHANGED <<sock, boot, conn, knownBoot>>
  BY DEF Accept
<1>4. \A c \in Connections : c.m = "backlog" => Milder(c, [c EXCEPT !.m = "open"])
  BY DEF Connections, Milder
<1>5. CASE /\ Cardinality(OpenConns) < MaxConns
           /\ link' = [link EXCEPT ![l].m = "open"]
           /\ nobodies' = Append(nobodies, l)
  <2>1. /\ \A k \in Links \ {l} : link'[k] = link[k]
        /\ link'[l] = [link[l] EXCEPT !.m = "open"]
    BY <1>1, <1>5
  <2>2. link'[l].m = "open" /\ link'[l].of = Nobody
    BY <1>1, <1>2, <2>1 DEF Connections
  <2>3. Agree(link', conn, nobodies')
    BY <1>1, <1>2, <1>5, <2>1, <2>2, AgreeOpen
  <2>4. \A k \in Links : Milder(link[k], link'[k])
    BY <1>1, <1>2, <1>4, <2>1, QuietSelf DEF Quiet
  <2>5. EndsAgree'
    BY <1>3, <2>4, EndsMilder DEF TableInv
  <2> QED BY <1>3, <2>3, <2>5 DEF TableInv, Agree, Opened
<1>6. CASE /\ nobodies # <<>>
           /\ link' = [[link EXCEPT ![Head(nobodies)] = MasterLetsGo(@)]
                         EXCEPT ![l].m = "open"]
           /\ nobodies' = Append(Tail(nobodies), l)
  <2> DEFINE h == Head(nobodies)
             lk == [link EXCEPT ![h] = MasterLetsGo(@)]
             nb == Tail(nobodies)
  <2>1. /\ h \in Links /\ nb \in Seq(Links)
        /\ h = nobodies[1] /\ Len(nobodies) \in Nat \ {0} /\ DOMAIN nobodies = 1..Len(nobodies)
        /\ DOMAIN nb = 1..(Len(nobodies) - 1)
        /\ \A i \in 1..(Len(nobodies) - 1) : nb[i] = nobodies[i + 1]
    BY <1>1, <1>6
  <2> HIDE DEF h, nb
  <2>2. Members(nb) = Members(nobodies) \ {h} /\ Once(nb) /\ h \in Members(nobodies)
    <3>1. \A i \in DOMAIN nb : i + 1 \in DOMAIN nobodies /\ i + 1 # 1 /\ nb[i] = nobodies[i + 1]
      BY <2>1
    <3>2. \A i \in DOMAIN nobodies : i # 1 => i - 1 \in DOMAIN nb /\ nb[i - 1] = nobodies[i]
      BY <2>1
    <3>3. Once(nb)
      <4> SUFFICES ASSUME NEW i \in DOMAIN nb, NEW k \in DOMAIN nb, i # k PROVE nb[i] # nb[k]
        BY DEF Once
      <4>1. i + 1 # k + 1
        BY <2>1
      <4> QED BY <1>1, <3>1, <4>1 DEF Agree, Once
    <3>4. 1 \in DOMAIN nobodies
      BY <2>1
    <3>5. ASSUME NEW x \in Members(nb) PROVE x \in Members(nobodies) \ {h}
      BY <1>1, <2>1, <3>1, <3>4, <3>5 DEF Agree, Once, Members
    <3>6. ASSUME NEW x \in Members(nobodies) \ {h} PROVE x \in Members(nb)
      BY <2>1, <3>2, <3>6 DEF Members
    <3> QED BY <2>1, <3>3, <3>4, <3>5, <3>6 DEF Members
  <2>3. h \in Opened(link) /\ link[h].of = Nobody /\ h # l
    BY <1>1, <1>2, <2>2 DEF Agree
  <2>4. /\ \A k \in Links \ {h} : lk[k] = link[k]
        /\ lk[h].m = "gone" /\ lk[h].of = Nobody /\ Milder(link[h], lk[h])
        /\ lk \in [Links -> Connections]
    BY <1>1, <2>1, LetGoFields, HelperTypes
  <2>5. \A k \in Links : link'[k] = IF k = l THEN [lk[l] EXCEPT !.m = "open"] ELSE lk[k]
    BY <1>6, <2>4 DEF h
  <2> HIDE DEF lk
  <2>6. Agree(lk, conn, nb)
    <3>1. \A r \in Rows : conn[r] \notin {h}
      BY <2>1, <2>3, NamesAreDistinct DEF TableInv, Agree
    <3> QED BY <1>1, <2>2, <2>4, <3>1, AgreeDrop
  <2>7. Tables(lk, conn, nb)
    BY <1>1, <2>1, <2>4 DEF Tables
  <2>8. Opened(lk) = Opened(link) \ {h}
    BY <2>4 DEF Opened
  <2>9. Cardinality(Opened(lk)) < MaxConns
    <3>1. Cardinality(Opened(lk)) = Cardinality(Opened(link)) - 1
      BY <1>1, <2>3, <2>8, FS_RemoveElement DEF Agree
    <3>2. Cardinality(Opened(link)) \in Nat /\ Cardinality(Opened(link)) <= MaxConns
      BY <1>1, FS_CardinalityType DEF Agree
    <3> QED BY <3>1, <3>2, CountsAreNaturals
  <2>10. lk[l] = link[l] /\ link'[l].m = "open" /\ link'[l].of = Nobody
    BY <1>1, <1>2, <2>3, <2>4, <2>5 DEF Connections
  <2>11. Agree(link', conn, nobodies')
    <3>1. \A k \in Links \ {l} : link'[k] = lk[k]
      BY <2>5
    <3>2. nobodies' = Append(nb, l)
      BY <1>6 DEF nb
    <3> QED BY <1>2, <2>6, <2>7, <2>9, <2>10, <3>1, <3>2, AgreeOpen
  <2>12. \A k \in Links : Milder(link[k], link'[k])
    <3>1. Milder(link[l], link'[l])
      BY <1>1, <1>2, <1>4, <2>5, <2>10
    <3>2. \A k \in Links \ {l, h} : link'[k] = link[k]
      BY <2>4, <2>5
    <3>3. link'[h] = lk[h]
      BY <2>1, <2>3, <2>5
    <3> QED BY <2>4, <3>1, <3>2, <3>3, QuietSelf DEF Quiet
  <2>13. EndsAgree'
    BY <1>3, <2>12, EndsMilder DEF TableInv
  <2> QED BY <1>3, <2>11, <2>13 DEF TableInv, Agree, Opened
<1>7. CASE /\ link' = [link EXCEPT ![l] = MasterLetsGo(@)]
           /\ UNCHANGED nobodies
  <2>1. /\ \A k \in Links \ {l} : link'[k] = link[k]
        /\ link'[l].m = "gone" /\ link'[l].of = Nobody /\ Milder(link[l], link'[l])
    BY <1>1, <1>7, LetGoFields
  <2>2. \A r \in Rows : conn[r] # l
    BY <1>2, NamesAreDistinct DEF TableInv, Agree
  <2>3. l \notin Members(nobodies)
    BY <1>1, <1>2 DEF Agree
  <2>4. \A k \in Links : IF k \in {l} THEN link'[k].m = "gone" /\ link'[k].of = Nobody
                                           /\ Milder(link[k], link'[k])
                         ELSE link'[k] = link[k]
    BY <2>1
  <2>5. Members(nobodies') = Members(nobodies) \ {l} /\ Once(nobodies')
    BY <1>1, <1>7, <2>3 DEF Agree
  <2>6. \A r \in Rows : conn'[r] = IF conn[r] \in {l} THEN NoLink ELSE conn[r]
    BY <1>3, <2>2
  <2> QED BY <1>3, <2>4, <2>5, <2>6, DropTables
<1> QED BY <1>5, <1>6, <1>7 DEF Accept

LEMMA HelloTables ==
  ASSUME TypeOK, TypeOK', TableInv, NEW l \in Links, ReadHello(l)
  PROVE  TableInv'
<1> DEFINE hello == Head(link[l].up)
           r == hello.row
           popped == ReadUp(link[l])
           replaced == [k \in Links |-> IF k = conn[r] THEN MasterLetsGo(link[k]) ELSE link[k]]
           D == {k \in Links : k = conn[r]}
           nb == Without(nobodies, l)
<1>1. /\ link \in [Links -> Connections] /\ conn \in [Rows -> Links \cup {NoLink}]
      /\ nobodies \in Seq(Links) /\ Tables(link, conn, nobodies)
      /\ Agree(link, conn, nobodies) /\ EndsAgree
  BY DEF TypeOK, LinkTypes, MasterTypes, Tables, TableInv
<1>2. /\ link[l].m = "open" /\ link[l].of = Nobody /\ link[l].up # <<>>
      /\ hello.t = "Hello" /\ NoOlderHello(l) /\ UNCHANGED <<sock, boot>>
      /\ link[l] \in Connections
  BY <1>1 DEF ReadHello
<1>3. /\ hello \in ToMaster /\ r \in Rows /\ hello.boot \in Nat
      /\ 1 \in DOMAIN link[l].up /\ hello = link[l].up[1]
  <2>1. link[l].up \in Seq(ToMaster)
    BY <1>2 DEF Connections
  <2>2. 1 \in DOMAIN link[l].up /\ hello = link[l].up[1] /\ hello \in ToMaster
    BY <1>2, <2>1
  <2> QED BY <1>2, <2>2, MessageTypes
<1>4. /\ r = link[l].by /\ hello.boot <= boot[r] /\ (link[l].held => hello.boot = boot[r])
  BY <1>1, <1>2, <1>3 DEF EndsAgree, HellosAgree
<1>5. /\ popped \in Connections /\ Quiet(link[l], popped)
      /\ \A i \in DOMAIN popped.up : popped.up[i].t # "Hello"
  <2>1. HelloFirst(link[l])
    BY <1>1, HelloIsFirst DEF EndsAgree
  <2> QED BY <1>2, <2>1, EditTypes, QuietUp
<1>6. \A q \in Rows : conn[q] # l /\ (q # r => conn[q] \notin D)
  BY <1>1, <1>2, <1>3, NamesAreDistinct DEF Agree
<1>7. Members(nb) = Members(nobodies) \ {l} /\ Once(nb) /\ Members(nobodies) \cap D = {}
  <2>1. Members(nb) = Members(nobodies) \ {l} /\ Once(nb)
    BY <1>1, WithoutOne DEF Agree
  <2>2. ASSUME NEW k \in D PROVE k \notin Members(nobodies)
    <3>1. link[k].of = r
      BY <1>1, <1>3, <2>2, NamesAreDistinct DEF Agree
    <3> QED BY <1>1, <1>3, <3>1, NamesAreDistinct DEF Agree
  <2> QED BY <2>1, <2>2
<1>8. /\ MasterLetsGo(popped).m = "gone" /\ MasterLetsGo(popped).of = Nobody
      /\ Milder(link[l], MasterLetsGo(popped))
  BY <1>5, LetGoFields, MilderTrans DEF Quiet
<1>9. /\ replaced \in [Links -> Connections] /\ l \notin D
      /\ \A k \in Links : k \notin D => replaced[k] = link[k]
      /\ \A k \in D : /\ replaced[k].m = "gone" /\ replaced[k].of = Nobody
                      /\ Milder(link[k], replaced[k])
  BY <1>1, <1>3, <1>6, HelperTypes, LetGoFields
<1>10. /\ Down(popped, Welcome) \in Connections /\ Quiet(link[l], Down(popped, Welcome))
       /\ Down(popped, Welcome).up = popped.up
  <2>1. Welcome \in ToRow
    BY SaidTypes
  <2>2. Down(popped, Welcome).up = popped.up
    BY <1>5 DEF Down, Connections
  <2> QED BY <1>5, <2>1, <2>2, HelperTypes, QuietDown, QuietTrans
<1> HIDE DEF hello, popped, replaced, D, nb
<1>11. CASE link' = [link EXCEPT ![l] = MasterLetsGo(popped)] /\ Closed(l)
            /\ UNCHANGED masterButConns
  <2>1. (\A k \in Links \ {l} : link'[k] = link[k]) /\ link'[l] = MasterLetsGo(popped)
    BY <1>1, <1>11
  <2> QED BY <1>2, <1>8, <1>11, <2>1, ClosedTables
<1>12. CASE /\ link' = [replaced EXCEPT ![l] = MasterLetsGo(popped)]
            /\ conn' = [conn EXCEPT ![r] = NoLink]
            /\ nobodies' = nb
            /\ UNCHANGED masterButConns
  <2> DEFINE E == D \cup {l}
  <2>1. \A k \in Links : IF k \in E THEN link'[k].m = "gone" /\ link'[k].of = Nobody
                                          /\ Milder(link[k], link'[k])
                         ELSE link'[k] = link[k]
    BY <1>8, <1>9, <1>12
  <2>2. \A q \in Rows : conn'[q] = IF conn[q] \in E THEN NoLink ELSE conn[q]
    BY <1>1, <1>3, <1>6, <1>12 DEF D
  <2>3. E \in SUBSET Links
    BY DEF D
  <2>4. Members(nobodies') = Members(nobodies) \ E /\ Once(nobodies')
    BY <1>7, <1>12
  <2> QED BY <1>2, <1>12, <2>1, <2>2, <2>3, <2>4, DropTables
<1>13. CASE /\ link' = [replaced EXCEPT ![l] = [Down(popped, Welcome) EXCEPT !.of = r]]
            /\ conn' = [conn EXCEPT ![r] = l]
            /\ nobodies' = nb
            /\ knownBoot' = [knownBoot EXCEPT ![r] = hello.boot]
  <2> DEFINE cn == [conn EXCEPT ![r] = NoLink]
  <2>1. \A q \in Rows : cn[q] = IF conn[q] \in D THEN NoLink ELSE conn[q]
    BY <1>1, <1>3, <1>6 DEF D
  <2>2. Agree(replaced, cn, nobodies)
    <3>1. \A k \in Links : IF k \in D THEN replaced[k].m # "open" /\ replaced[k].of = Nobody
                           ELSE replaced[k] = link[k]
      BY <1>9
    <3>2. Members(nobodies) = Members(nobodies) \ D /\ Once(nobodies)
      BY <1>1, <1>7 DEF Agree
    <3> HIDE DEF cn
    <3> QED BY <1>1, <2>1, <3>1, <3>2, AgreeDrop
  <2>3. Tables(replaced, cn, nobodies) /\ cn[r] = NoLink
    BY <1>1, <1>3, <1>9 DEF Tables
  <2>4. conn' = [cn EXCEPT ![r] = l]
    BY <1>1, <1>3, <1>13
  <2> HIDE DEF cn
  <2>5. /\ \A k \in Links \ {l} : link'[k] = replaced[k]
        /\ link'[l] = [Down(popped, Welcome) EXCEPT !.of = r]
    BY <1>9, <1>13
  <2>6. /\ link'[l].m = "open" /\ link'[l].of = r /\ link'[l].by = r /\ link'[l].up = popped.up
        /\ Milder(link[l], link'[l])
    <3>1. /\ link'[l].m = Down(popped, Welcome).m /\ link'[l].of = r
          /\ link'[l].by = Down(popped, Welcome).by /\ link'[l].held = Down(popped, Welcome).held
          /\ link'[l].up = Down(popped, Welcome).up
      BY <1>10, <2>5 DEF Connections
    <3> QED BY <1>2, <1>4, <1>10, <3>1 DEF Quiet, Milder
  <2>7. replaced[l].m = "open" /\ replaced[l].of = Nobody
    BY <1>2, <1>9
  <2>8. Agree(link', conn', nobodies')
    <3>1. Agree(link', [cn EXCEPT ![r] = l], Without(nobodies, l))
      BY <1>3, <2>2, <2>3, <2>5, <2>6, <2>7, AgreeTaken
    <3> QED BY <1>13, <2>4, <3>1 DEF nb
  <2>9. \A k \in Links : Milder(link[k], link'[k])
    BY <1>9, <2>5, <2>6, QuietSelf DEF Quiet
  <2>10. BootsAgree'
    <3> SUFFICES ASSUME NEW q \in Rows
                 PROVE  /\ knownBoot'[q] <= boot[q]
                        /\ conn'[q] # NoLink /\ sock[q] = conn'[q] => knownBoot'[q] = boot[q]
      BY <1>2 DEF BootsAgree
    <3>1. CASE q # r
      <4>1. knownBoot'[q] = knownBoot[q] /\ conn'[q] = conn[q]
        BY <1>1, <1>13, <3>1 DEF TypeOK, MasterTypes
      <4> QED BY <1>1, <4>1 DEF EndsAgree, BootsAgree
    <3>2. CASE q = r
      <4>1. knownBoot'[r] = hello.boot /\ conn'[r] = l
        BY <1>1, <1>3, <1>13 DEF TypeOK, MasterTypes
      <4>2. sock[r] = l => link[l].held
        BY <1>1, <1>3, NamesAreDistinct DEF EndsAgree, SocksAgree
      <4> QED BY <1>4, <3>2, <4>1, <4>2
    <3> QED BY <3>1, <3>2
  <2>11. ASSUME NEW k \in Links, NEW i \in DOMAIN link'[k].up, link'[k].up[i].t = "Hello"
         PROVE  knownBoot'[link'[k].up[i].row] <= link'[k].up[i].boot
    <3> DEFINE h == link'[k].up[i]
    <3>1. k # l
      BY <1>5, <2>6, <2>11
    <3>2. /\ i \in DOMAIN link[k].up /\ link[k].up[i] = h
      BY <2>9, <2>11 DEF Milder
    <3>3. /\ h \in ToMaster /\ h.row \in Rows
      <4>1. link[k].up \in Seq(ToMaster)
        BY <1>1 DEF Connections
      <4>2. h \in ToMaster
        BY <3>2, <4>1
      <4> QED BY <2>11, <4>2, MessageTypes
    <3>4. i = 1 /\ knownBoot[h.row] <= h.boot
      BY <1>1, <2>11, <3>2 DEF EndsAgree, HellosAgree
    <3>5. CASE h.row # r
      <4>1. knownBoot'[h.row] = knownBoot[h.row]
        BY <1>13, <3>3, <3>5 DEF TypeOK, MasterTypes
      <4> QED BY <3>4, <4>1
    <3>6. CASE h.row = r
      <4>1. knownBoot'[h.row] = hello.boot
        BY <1>3, <1>13, <3>6 DEF TypeOK, MasterTypes
      <4>2. link[k].up # <<>> /\ Head(link[k].up) = h /\ link[k].m # "gone"
        <5>1. link[k].up \in Seq(ToMaster)
          BY <1>1 DEF Connections
        <5>2. link[k].up # <<>> /\ Head(link[k].up) = h
          BY <3>2, <3>4, <5>1
        <5> QED BY <1>1, <5>2 DEF EndsAgree, SocksAgree
      <4>3. h.boot >= hello.boot
        BY <1>2, <2>11, <3>1, <3>6, <4>2 DEF NoOlderHello, hello
      <4>4. h.boot \in Nat
        BY <2>11, <3>3, MessageTypes
      <4> QED BY <1>3, <4>1, <4>3, <4>4
    <3> QED BY <3>5, <3>6
  <2>12. EndsAgree'
    BY <1>1, <1>2, <2>9, <2>10, <2>11, EndsKept
  <2> QED BY <2>8, <2>12 DEF TableInv, Agree, Opened
<1> QED BY <1>11, <1>12, <1>13 DEF ReadHello, hello, popped, replaced, nb

LEMMA OnLinkTables ==
  ASSUME TypeOK, TypeOK', TableInv, NEW l \in Links, OnLink(l)
  PROVE  TableInv'
<1> USE DEF TypeOK
<1>0. link[l] \in Connections
  BY DEF LinkTypes
<1>1. CASE Accept(l)
  BY <1>1, AcceptTables
<1>2. CASE HelloTimeout(l) \/ SeesClosed(l)
  <2>1. /\ \A k \in Links \ {l} : link'[k] = link[k]
        /\ link'[l] = MasterLetsGo(link[l])
    BY <1>2 DEF HelloTimeout, SeesClosed, LinkTypes
  <2>2. Closed(l) /\ UNCHANGED <<sock, boot, knownBoot>>
    BY <1>2 DEF HelloTimeout, SeesClosed
  <2> QED BY <1>0, <2>1, <2>2, LetGoFields, ClosedTables
<1>3. CASE ReadHello(l)
  BY <1>3, HelloTables
<1>4. CASE StrangerCloses(l)
  BY <1>4, NamesAreDistinct, HangUpTables DEF StrangerCloses
<1>5. CASE \E a \in Addrs : StrangerDials(l, a)
  BY <1>5, DialTables DEF StrangerDials
<1>6. CASE \E u, d \in 0..Room : Break(l, u, d)
  <2>1. PICK u \in 0..Room, d \in 0..Room : Break(l, u, d)
    BY <1>6
  <2>2. u \in 0..Len(link[l].up) /\ d \in 0..Len(link[l].down)
    BY <1>0, <2>1 DEF Break, Connections
  <2> DEFINE e == [link[l] EXCEPT !.cut = TRUE, !.up = SubSeq(@, 1, u), !.down = SubSeq(@, 1, d)]
  <2>3. \A k \in Links : Quiet(link[k], link'[k])
    <3>1. Quiet(link[l], e)
      BY <1>0, <2>2, QuietCut
    <3>2. link' = [link EXCEPT ![l] = e]
      BY <2>1 DEF Break, LinkTypes
    <3> QED BY <3>1, <3>2, QuietOne
  <2> QED BY <2>1, <2>3, TablesQuiet DEF Break
<1> QED BY <1>1, <1>2, <1>3, <1>4, <1>5, <1>6 DEF OnLink

LEMMA FaultTables ==
  ASSUME TypeOK, TypeOK', TableInv, NEW r \in Rows, Faulty(r) \/ RowSeesClosed(r)
  PROVE  TableInv'
<1> USE DEF TypeOK
<1>1. CASE DropSilent(r)
  <2>1. conn[r] \in Links /\ link[conn[r]] \in Connections
    BY <1>1 DEF DropSilent, MasterTypes, LinkTypes
  <2>2. /\ \A k \in Links \ {conn[r]} : link'[k] = link[k]
        /\ link'[conn[r]] = MasterLetsGo(link[conn[r]])
    BY <1>1, <2>1 DEF DropSilent, LinkTypes
  <2>3. Closed(conn[r]) /\ UNCHANGED <<sock, boot, knownBoot>>
    BY <1>1 DEF DropSilent
  <2> QED BY <2>1, <2>2, <2>3, LetGoFields, ClosedTables
<1>2. CASE RowSeesClosed(r) \/ RowGivesUp(r)
  <2>1. sock[r] \in Links
    BY <1>2 DEF RowSeesClosed, RowGivesUp, RowTypes
  <2> QED BY <1>2, <2>1, HangUpTables DEF RowSeesClosed, RowGivesUp, RowDrops
<1>3. CASE RowRestarts(r)
  <2>1. CASE sock[r] # NoLink
    <3>1. sock[r] \in Links
      BY <2>1 DEF RowTypes
    <3> QED BY <1>3, <2>1, <3>1, HangUpTables DEF RowRestarts
  <2>2. CASE sock[r] = NoLink
    <3>1. /\ UNCHANGED <<link, conn, nobodies, knownBoot, sock>>
          /\ boot' = [boot EXCEPT ![r] = @ + 1]
      BY <1>3, <2>2 DEF RowRestarts, RowTypes
    <3>2. /\ \A q \in Rows : boot[q] \in Nat /\ knownBoot[q] \in Nat /\ boot'[q] \in Nat
          /\ \A q \in Rows : boot[q] <= boot'[q]
          /\ \A q \in Rows \ {r} : boot'[q] = boot[q]
      <4>1. boot \in [Rows -> Nat \ {0}] /\ knownBoot \in [Rows -> Nat]
        BY DEF RowTypes, MasterTypes
      <4>2. boot'[r] = boot[r] + 1 /\ \A q \in Rows \ {r} : boot'[q] = boot[q]
        BY <3>1, <4>1
      <4> QED BY <4>1, <4>2
    <3>3. HellosAgree'
      <4> SUFFICES ASSUME NEW k \in Links, NEW i \in DOMAIN link[k].up, link[k].up[i].t = "Hello"
                   PROVE  LET h == link[k].up[i]
                          IN  /\ i = 1 /\ h.row = link[k].by
                              /\ knownBoot[h.row] <= h.boot /\ h.boot <= boot'[h.row]
                              /\ link[k].held => h.boot = boot'[h.row]
        BY <3>1 DEF HellosAgree
      <4> DEFINE h == link[k].up[i]
      <4>1. h \in ToMaster
        <5>1. link[k].up \in Seq(ToMaster)
          BY DEF LinkTypes, Connections
        <5> QED BY <5>1
      <4>2. h.row \in Rows /\ h.boot \in Nat
        BY <4>1, MessageTypes
      <4>3. /\ i = 1 /\ h.row = link[k].by
            /\ knownBoot[h.row] <= h.boot /\ h.boot <= boot[h.row]
            /\ link[k].held => h.boot = boot[h.row]
        BY DEF TableInv, EndsAgree, HellosAgree
      <4>4. h.boot <= boot'[h.row]
        <5>1. \A x, y, z \in Nat : x <= y /\ y <= z => x <= z
          OBVIOUS
        <5> QED BY <3>2, <4>2, <4>3, <5>1
      <4>5. link[k].held => h.row # r
        <5>1. link[k].held => sock[h.row] = k
          BY <4>2, <4>3 DEF TableInv, EndsAgree, SocksAgree
        <5> QED BY <2>2, <5>1, NamesAreDistinct
      <4> QED BY <3>2, <4>2, <4>3, <4>4, <4>5
    <3>4. BootsAgree'
      <4> SUFFICES ASSUME NEW q \in Rows
                   PROVE  /\ knownBoot[q] <= boot'[q]
                          /\ conn[q] # NoLink /\ sock[q] = conn[q] => knownBoot[q] = boot'[q]
        BY <3>1 DEF BootsAgree
      <4>1. knownBoot[q] <= boot[q]
        BY DEF TableInv, EndsAgree, BootsAgree
      <4>2. knownBoot[q] <= boot'[q]
        BY <3>2, <4>1
      <4>3. conn[q] # NoLink /\ sock[q] = conn[q] => q # r /\ knownBoot[q] = boot[q]
        BY <2>2 DEF TableInv, EndsAgree, BootsAgree
      <4> QED BY <3>2, <4>2, <4>3
    <3> QED BY <3>1, <3>3, <3>4 DEF TableInv, EndsAgree, SocksAgree, Agree, Opened
  <2> QED BY <2>1, <2>2
<1> QED BY <1>1, <1>2, <1>3 DEF Faulty

LEMMA InitTables == Init => TableInv
<1> SUFFICES ASSUME Init PROVE TableInv
  OBVIOUS
<1>1. \A l \in Links : link[l].m = "gone" /\ link[l].of = Nobody /\ ~link[l].held /\ link[l].up = <<>>
  BY DEF Init, Free
<1>2. Opened(link) = {}
  BY <1>1 DEF Opened
<1>3. IsFiniteSet(Opened(link)) /\ Cardinality(Opened(link)) <= MaxConns
  BY <1>2, FS_EmptySet, CountsAreNaturals
<1>4. Members(nobodies) = {} /\ Once(nobodies)
  BY DEF Init, Members, Once
<1>5. Agree(link, conn, nobodies)
  BY <1>1, <1>2, <1>3, <1>4 DEF Agree, Init
<1>6. SocksAgree
  BY <1>1 DEF SocksAgree, Init
<1>7. HellosAgree
  BY <1>1 DEF HellosAgree
<1>8. BootsAgree
  BY DEF BootsAgree, Init
<1> QED BY <1>5, <1>6, <1>7, <1>8 DEF TableInv, EndsAgree

LEMMA StepTables ==
  ASSUME TypeOK, TypeOK', TableInv, [Next]_vars
  PROVE  TableInv'
<1>1. CASE UNCHANGED vars
  <2>1. /\ \A l \in Links : Quiet(link[l], link'[l])
        /\ UNCHANGED <<sock, boot, conn, nobodies, knownBoot>>
    BY <1>1, QuietSelf DEF vars
  <2> QED BY <2>1, TablesQuiet
<1>2. ASSUME NEW r \in Rows, MasterStep(r) \/ RowStep(r) \/ JobOverdue(r) \/ Asked(r) \/ Faulty(r)
      PROVE  TableInv'
  BY <1>2, MasterStepTables, RowStepTables, FaultTables
<1>3. ASSUME NEW r \in Rows, NEW l \in Links, NEW a \in Addrs, Dial(r, l, a) PROVE TableInv'
  BY <1>3, DialTables DEF Dial
<1>4. ASSUME NEW l \in Links, OnLink(l) PROVE TableInv'
  BY <1>4, OnLinkTables
<1>5. ASSUME NEW k \in Kinds, ChangeSetting(k) PROVE TableInv'
  <2>1. /\ \A l \in Links : Quiet(link[l], link'[l])
        /\ UNCHANGED <<sock, boot, conn, nobodies, knownBoot>>
    BY <1>5, QuietSelf DEF ChangeSetting
  <2> QED BY <2>1, TablesQuiet
<1>6. CASE RowsChanged \/ MasterRestarts
  <2>1. UNCHANGED <<sock, boot>> /\ (ForgetsRows("wallChanged") \/ ForgetsRows("forgotten"))
    BY <1>6 DEF RowsChanged, MasterRestarts
  <2> QED BY <2>1, ForgetsTables
<1> QED BY <1>1, <1>2, <1>3, <1>4, <1>5, <1>6 DEF Next

\* The tables' and the two ends' agreement, in the form that every step keeps.
LEMMA TableInvHolds == Spec => []TableInv
<1>1. Init => TypeOK /\ TableInv
  BY InitTypes, InitTables
<1>2. TypeOK /\ TableInv /\ [Next]_vars => (TypeOK /\ TableInv)'
  BY StepTypes, StepTables
<1> QED BY <1>1, <1>2, PTL DEF Spec

\* closed(), hello() and accept() keep the table of rows and the table of connections in
\* step: whatever is lost, cut, refused or restarted, each names the other.
THEOREM TablesStayInStep == Spec => []TablesAgree
<1>1. TableInv => TablesAgree
  <2> SUFFICES ASSUME TableInv PROVE TablesAgree
    OBVIOUS
  <2>1. Opened(link) = OpenConns
    BY DEF Opened, OpenConns
  <2> QED BY <2>1 DEF TableInv, Agree, TablesAgree, Members, Once
<1> QED BY <1>1, TableInvHolds, PTL

\* The boot id the master has for a connected row is the one of the row's present life,
\* and a Hello still on its way tells of no life before the one the master knows.
THEOREM EndsStayInStep == Spec => []EndsAgree
<1>1. TableInv => EndsAgree
  BY DEF TableInv
<1> QED BY <1>1, TableInvHolds, PTL
=============================================================================
