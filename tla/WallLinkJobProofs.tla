-------------------------- MODULE WallLinkJobProofs --------------------------
(***************************************************************************)
(* What becomes of a unit job on its way between master and row, for any   *)
(* number of rows, connections, jobs, faults and lives of the master.      *)
(***************************************************************************)
EXTENDS WallLinkProofs

USE DEF masterVars, rowVars, ghostVars, bounds, masterButConns

\* Connection d carries no job that c did not carry ...
OpsCalm(c, d) ==
  /\ \E k \in Nat : \A j \in Jobs : \A i \in OpsOn(d, j) : i + k \in OpsOn(c, j)
  /\ (\E j \in Jobs : OpsOn(d, j) # {}) => d.held = c.held /\ (d.m # "gone" => c.m # "gone")
\* ... and no answer to a job either.
Words(c)  == {c.up[i] : i \in DOMAIN c.up}
Answer(m) == m.t = "OpState" /\ m.phase # "running"
Calmer(c, d) == OpsCalm(c, d) /\ \A m \in Words(d) : Answer(m) => m \in Words(c)

LEMMA Places ==
  ASSUME NEW c \in Connections, NEW j
  PROVE  OpsOn(c, j) \subseteq 1..Len(c.down) /\ OpsOn(c, j) \subseteq Nat \ {0}
BY DEF OpsOn, Connections

\* A connection whose job messages and refusals are those of another.
LEMMA CalmerSame ==
  ASSUME NEW c \in Connections, NEW d \in Connections,
         d.up = c.up, d.down = <<>> \/ (d.down = c.down /\ d.held = c.held),
         d.m # "gone" => c.m # "gone"
  PROVE  Calmer(c, d)
<1>1. \A j \in Jobs : \A i \in OpsOn(d, j) : i + 0 \in OpsOn(c, j)
  BY DEF OpsOn, Connections
<1>2. (\E j \in Jobs : OpsOn(d, j) # {}) => d.held = c.held
  BY DEF OpsOn
<1> QED BY <1>1, <1>2 DEF Calmer, OpsCalm, Words

LEMMA CalmerQuiet ==
  ASSUME NEW c \in Connections, NEW d \in Connections, d.down = <<>>,
         d.up = <<>> \/ d.up = c.up \/ \E r \in Rows : d.up = <<Hello(r)>>
  PROVE  Calmer(c, d)
<1>1. \A j \in Jobs : OpsOn(d, j) = {}
  BY DEF OpsOn
<1>2. \A m \in Words(d) : Answer(m) => m \in Words(c)
  <2>1. CASE d.up = c.up
    BY <2>1 DEF Words
  <2>2. CASE d.up = <<>>
    BY <2>2 DEF Words
  <2>3. ASSUME NEW r \in Rows, d.up = <<Hello(r)>>
        PROVE  \A m \in Words(d) : ~Answer(m)
    <3>1. \A i \in DOMAIN d.up : d.up[i] = Hello(r)
      BY <2>3
    <3> QED BY <3>1 DEF Words, Answer, Hello
  <2> QED BY <2>1, <2>2, <2>3
<1> QED BY <1>1, <1>2 DEF Calmer, OpsCalm

LEMMA CalmerTrans ==
  ASSUME NEW c, NEW d, NEW e \in Connections, Calmer(c, d), Calmer(d, e)
  PROVE  Calmer(c, e)
<1>1. PICK k \in Nat : \A j \in Jobs : \A i \in OpsOn(d, j) : i + k \in OpsOn(c, j)
  BY DEF Calmer, OpsCalm
<1>2. PICK n \in Nat : \A j \in Jobs : \A i \in OpsOn(e, j) : i + n \in OpsOn(d, j)
  BY DEF Calmer, OpsCalm
<1>3. \A j \in Jobs : \A i \in OpsOn(e, j) : i + (n + k) \in OpsOn(c, j)
  <2> TAKE j \in Jobs
  <2> TAKE i \in OpsOn(e, j)
  <2>1. i + n \in OpsOn(d, j)
    BY <1>2
  <2>2. (i + n) + k \in OpsOn(c, j)
    BY <1>1, <2>1
  <2>3. i \in Nat
    BY Places
  <2> QED BY <2>2, <2>3
<1>4. n + k \in Nat
  OBVIOUS
<1>5. \A j \in Jobs : OpsOn(e, j) # {} => OpsOn(d, j) # {}
  BY <1>2
<1>6. (\E j \in Jobs : OpsOn(e, j) # {}) => e.held = c.held /\ (e.m # "gone" => c.m # "gone")
  BY <1>5 DEF Calmer, OpsCalm
<1> QED BY <1>3, <1>4, <1>6 DEF Calmer, OpsCalm

LEMMA CalmerGone ==
  ASSUME NEW c \in Connections
  PROVE  Calmer(c, MasterLetsGo(c)) /\ Calmer(c, DialerLetsGo(c)) /\ Calmer(c, c)
<1>1. /\ MasterLetsGo(c) \in Connections /\ DialerLetsGo(c) \in Connections
      /\ Free \in Connections
  BY HelperTypes
<1>2. Free.down = <<>> /\ Free.up = <<>> /\ Free.m = "gone"
  BY DEF Free
<1>3. Calmer(c, Free)
  BY <1>1, <1>2, CalmerQuiet
<1>4. Calmer(c, c)
  BY CalmerSame
<1>5. Calmer(c, DialerLetsGo(c))
  <2>1. CASE c.m = "gone"
    BY <1>3, <2>1 DEF DialerLetsGo
  <2>2. CASE c.m # "gone"
    <3>1. DialerLetsGo(c).down = <<>> /\ DialerLetsGo(c).up = c.up
      BY <2>2 DEF DialerLetsGo, Connections
    <3> QED BY <1>1, <3>1, CalmerQuiet
  <2> QED BY <2>1, <2>2
<1>6. Calmer(c, MasterLetsGo(c))
  <2>1. CASE ~c.held
    BY <1>3, <2>1 DEF MasterLetsGo
  <2>2. CASE c.held
    <3>1. /\ MasterLetsGo(c).down = c.down /\ MasterLetsGo(c).up = <<>>
          /\ MasterLetsGo(c).m = "gone" /\ MasterLetsGo(c).held = c.held
      BY <2>2 DEF MasterLetsGo, Connections
    <3>2. \A j \in Jobs : \A i \in OpsOn(MasterLetsGo(c), j) : i + 0 \in OpsOn(c, j)
      BY <1>1, <3>1, Places DEF OpsOn
    <3>3. Words(MasterLetsGo(c)) = {}
      BY <3>1 DEF Words
    <3> QED BY <3>1, <3>2, <3>3 DEF Calmer, OpsCalm
  <2> QED BY <2>1, <2>2
<1> QED BY <1>4, <1>5, <1>6

\* Reading a message, and writing one that is no job and no refusal.
LEMMA CalmerRead ==
  ASSUME NEW c \in Connections
  PROVE  /\ c.up # <<>> => Calmer(c, ReadUp(c))
         /\ c.down # <<>> => Calmer(c, ReadDown(c))
<1>1. ASSUME c.up # <<>> PROVE Calmer(c, ReadUp(c))
  <2>1. /\ ReadUp(c) \in Connections /\ ReadUp(c).down = c.down
        /\ ReadUp(c).m = c.m /\ ReadUp(c).up = Tail(c.up) /\ ReadUp(c).held = c.held
    BY <1>1, EditTypes DEF ReadUp, Connections
  <2>2. \A j \in Jobs : \A i \in OpsOn(ReadUp(c), j) : i + 0 \in OpsOn(c, j)
    BY <2>1, Places DEF OpsOn
  <2>3. c.up \in Seq(ToMaster)
    BY DEF Connections
  <2>4. \A i \in DOMAIN Tail(c.up) : i + 1 \in DOMAIN c.up /\ Tail(c.up)[i] = c.up[i + 1]
    BY <1>1, <2>3
  <2>5. Words(ReadUp(c)) \subseteq Words(c)
    BY <2>1, <2>4 DEF Words
  <2> QED BY <2>1, <2>2, <2>5 DEF Calmer, OpsCalm
<1>2. ASSUME c.down # <<>> PROVE Calmer(c, ReadDown(c))
  <2>1. /\ ReadDown(c) \in Connections /\ ReadDown(c).up = c.up
        /\ ReadDown(c).m = c.m /\ ReadDown(c).down = Tail(c.down)
        /\ ReadDown(c).held = c.held
    BY <1>2, EditTypes DEF ReadDown, Connections
  <2>2. c.down \in Seq(ToRow)
    BY DEF Connections
  <2>3. \A i \in DOMAIN Tail(c.down) :
          i + 1 \in DOMAIN c.down /\ Tail(c.down)[i] = c.down[i + 1]
    BY <1>2, <2>2
  <2>4. \A j \in Jobs : \A i \in OpsOn(ReadDown(c), j) : i + 1 \in OpsOn(c, j)
    BY <2>1, <2>3 DEF OpsOn
  <2>5. Words(ReadDown(c)) = Words(c)
    BY <2>1 DEF Words
  <2> QED BY <2>1, <2>4, <2>5 DEF Calmer, OpsCalm
<1> QED BY <1>1, <1>2

LEMMA CalmerWrite ==
  ASSUME NEW c \in Connections
  PROVE  /\ \A msg \in ToRow : msg.t # "Op" => Calmer(c, Down(c, msg))
         /\ \A msg \in ToMaster : ~Answer(msg) => Calmer(c, Up(c, msg))
<1>0. Calmer(c, c)
  BY CalmerGone
<1>1. ASSUME NEW msg \in ToRow, msg.t # "Op" PROVE Calmer(c, Down(c, msg))
  <2>1. CASE c.cut \/ ~c.held
    BY <1>0, <2>1 DEF Down
  <2>2. CASE ~(c.cut \/ ~c.held)
    <3>1. /\ Down(c, msg).down = Append(c.down, msg)
          /\ Down(c, msg).up = c.up /\ Down(c, msg).m = c.m /\ Down(c, msg).held = c.held
      BY <2>2 DEF Down, Connections
    <3>2. c.down \in Seq(ToRow)
      BY DEF Connections
    <3>3. \A i \in DOMAIN Append(c.down, msg) :
            \/ i \in DOMAIN c.down /\ i \in Nat /\ Append(c.down, msg)[i] = c.down[i]
            \/ Append(c.down, msg)[i] = msg
      BY <3>2
    <3>4. \A j \in Jobs : Op(j) # msg
      BY <1>1 DEF Op
    <3>5. \A j \in Jobs : \A i \in OpsOn(Down(c, msg), j) : i + 0 \in OpsOn(c, j)
      BY <3>1, <3>3, <3>4 DEF OpsOn
    <3> QED BY <3>1, <3>5 DEF Calmer, OpsCalm, Words
  <2> QED BY <2>1, <2>2
<1>2. ASSUME NEW msg \in ToMaster, ~Answer(msg)
      PROVE  Calmer(c, Up(c, msg))
  <2>1. CASE c.cut \/ c.m = "gone"
    BY <1>0, <2>1 DEF Up
  <2>2. CASE ~(c.cut \/ c.m = "gone")
    <3>1. /\ Up(c, msg).up = Append(c.up, msg) /\ Up(c, msg).down = c.down
          /\ Up(c, msg).m = c.m /\ Up(c, msg) \in Connections /\ Up(c, msg).held = c.held
      BY <1>2, <2>2, HelperTypes DEF Up, Connections
    <3>2. c.up \in Seq(ToMaster)
      BY DEF Connections
    <3>3. \A i \in DOMAIN Append(c.up, msg) :
            \/ i \in DOMAIN c.up /\ Append(c.up, msg)[i] = c.up[i]
            \/ Append(c.up, msg)[i] = msg
      BY <3>2
    <3>4. \A j \in Jobs : \A i \in OpsOn(Up(c, msg), j) : i + 0 \in OpsOn(c, j)
      BY <3>1, Places DEF OpsOn
    <3>5. \A m \in Words(Up(c, msg)) : Answer(m) => m \in Words(c)
      BY <1>2, <3>1, <3>3 DEF Words
    <3> QED BY <3>1, <3>4, <3>5 DEF Calmer, OpsCalm
  <2> QED BY <2>1, <2>2
<1> QED BY <1>1, <1>2

LEMMA CalmerCut ==
  ASSUME NEW c \in Connections, NEW u \in 0..Len(c.up), NEW d \in 0..Len(c.down)
  PROVE  Calmer(c, [c EXCEPT !.cut = TRUE, !.up = SubSeq(@, 1, u), !.down = SubSeq(@, 1, d)])
<1> DEFINE e == [c EXCEPT !.cut = TRUE, !.up = SubSeq(@, 1, u), !.down = SubSeq(@, 1, d)]
<1>1. /\ e.up = SubSeq(c.up, 1, u) /\ e.down = SubSeq(c.down, 1, d) /\ e.m = c.m
      /\ e.held = c.held /\ c.up \in Seq(ToMaster) /\ c.down \in Seq(ToRow)
  BY DEF Connections
<1> HIDE DEF e
<1>2. /\ \A i \in DOMAIN e.up : i \in DOMAIN c.up /\ e.up[i] = c.up[i]
      /\ \A i \in DOMAIN e.down : i \in DOMAIN c.down /\ i \in Nat /\ e.down[i] = c.down[i]
  BY <1>1
<1>3. \A j \in Jobs : \A i \in OpsOn(e, j) : i + 0 \in OpsOn(c, j)
  BY <1>2 DEF OpsOn
<1>4. Words(e) \subseteq Words(c)
  BY <1>2 DEF Words
<1>5. Calmer(c, e)
  BY <1>1, <1>3, <1>4 DEF Calmer, OpsCalm
<1> QED BY <1>5 DEF e

-----------------------------------------------------------------------------
\* A step that brings no job and no answer (or no refusal) onto a connection, gives no
\* row a job and reports none as not run.
CalmStep == \A l \in Links : Calmer(link[l], link'[l])
RefusesNone == \A l \in Links :
  /\ OpsCalm(link[l], link'[l])
  /\ \A id \in 1..MaxJobs : Refusal(link'[l], id) => Refusal(link[l], id)
RowsLetGo == \A r \in Rows : op'[r].st # "none" =>
  op[r].st # "none" /\ op'[r].job = op[r].job /\ (op'[r].st = "staged" => op[r].st = "staged")
JobsEndOnly ==
  /\ \A r \in Rows : job'[r] = job[r] \/ job'[r] = NoJob
  /\ \A j \in Jobs : result'[j] = result[j] \/ (result[j] = "open" /\ result'[j] \notin NotRun)
  /\ \A r \in Rows : job'[r].stage # "none" =>
       result'[<<life, job[r].id>>] = result[<<life, job[r].id>>]

LEMMA RefusalIsAnswer ==
  ASSUME NEW c, NEW d, Calmer(c, d)
  PROVE  \A id \in 1..MaxJobs : Refusal(d, id) => Refusal(c, id)
<1>1. \A id : Answer(OpState(id, "refused"))
  BY DEF Answer, OpState
<1> QED BY <1>1 DEF Calmer, Words, Refusal

LEMMA CalmRefusesNone == CalmStep => RefusesNone
BY RefusalIsAnswer DEF CalmStep, RefusesNone, Calmer

\* Where the jobs are after a calm step.
LEMMA CalmPlaces ==
  ASSUME TypeOK, TypeOK', RefusesNone, RowsLetGo, UNCHANGED <<life, ran>>
  PROVE  /\ \A j \in Jobs : /\ OnWire(j)' => OnWire(j)
                            /\ Held(j)' => Held(j)
                            /\ Refusing(j)' => Refusing(j)
         /\ \A j \in Jobs, l \in Links : /\ OpsOn(link[l], j)' # {} => OpsOn(link[l], j) # {}
                                         /\ OpsOn(link[l], j)' # {} /\ link'[l].m # "gone"
                                              => link[l].m # "gone"
<1>1. \A j \in Jobs, l \in Links :
        /\ OpsOn(link'[l], j) # {} => OpsOn(link[l], j) # {}
        /\ OpsOn(link'[l], j) # {} /\ link'[l].m # "gone" => link[l].m # "gone"
        /\ Refusal(link'[l], j[2]) => Refusal(link[l], j[2])
  <2> TAKE j \in Jobs, l \in Links
  <2>1. j[2] \in 1..MaxJobs
    BY DEF Jobs
  <2> QED BY <2>1 DEF RefusesNone, OpsCalm
<1>2. \A j \in Jobs, l \in Links : OpsOn(link[l], j)' = OpsOn(link'[l], j)
  BY DEF OpsOn
<1>3. \A j \in Jobs : OnWire(j)' => OnWire(j)
  BY <1>1, <1>2 DEF OnWire
<1>4. \A j \in Jobs : Held(j)' => Held(j)
  BY DEF Held, RowsLetGo
<1>5. \A j \in Jobs : Refusing(j)' => Refusing(j)
  BY <1>1 DEF Refusing, Refusal
<1> QED BY <1>1, <1>2, <1>3, <1>4, <1>5

LEMMA WireUnique ==
  ASSUME TypeOK, TypeOK', InOnePlace, \A l \in Links : OpsCalm(link[l], link'[l])
  PROVE  /\ \A j \in Jobs, l, k \in Links :
              \A i \in OpsOn(link'[l], j), n \in OpsOn(link'[k], j) : l = k /\ i = n
         /\ \A j \in Jobs : OnWire(j)' => OnWire(j)
<1>1. \A j \in Jobs : OnWire(j)' => OnWire(j)
  <2>1. \A j \in Jobs, l \in Links : OpsOn(link'[l], j) # {} => OpsOn(link[l], j) # {}
    BY DEF OpsCalm
  <2> QED BY <2>1 DEF OnWire, OpsOn
<1>2. ASSUME NEW j \in Jobs, NEW l \in Links, NEW k \in Links,
             NEW i \in OpsOn(link'[l], j), NEW n \in OpsOn(link'[k], j)
      PROVE  l = k /\ i = n
  <2>1. PICK x \in Nat : \A y \in OpsOn(link'[l], j) : y + x \in OpsOn(link[l], j)
    BY DEF OpsCalm
  <2>2. PICK z \in Nat : \A y \in OpsOn(link'[k], j) : y + z \in OpsOn(link[k], j)
    BY DEF OpsCalm
  <2>3. l = k /\ i + x = n + z
    BY <2>1, <2>2 DEF InOnePlace
  <2>4. i + x = n + x
    BY <2>1, <2>2, <2>3 DEF InOnePlace
  <2>5. i \in Nat /\ n \in Nat
    BY Places DEF TypeOK, LinkTypes
  <2> QED BY <2>3, <2>4, <2>5
<1> QED BY <1>1, <1>2

LEMMA CalmUnique ==
  ASSUME TypeOK, TypeOK', InOnePlace, \A l \in Links : OpsCalm(link[l], link'[l]),
         RowsLetGo, UNCHANGED ran
  PROVE  InOnePlace'
<1>1. \A j \in Jobs : Held(j)' => Held(j)
  BY DEF Held, RowsLetGo
<1>2. \A r, q \in Rows :
        op'[r].st # "none" /\ op'[q].st # "none" /\ op'[r].job = op'[q].job => r = q
  BY DEF InOnePlace, RowsLetGo
<1>3. NoJobRunsTwice'
  BY DEF InOnePlace, NoJobRunsTwice, RowsLetGo
<1> QED BY <1>1, <1>2, <1>3, WireUnique DEF InOnePlace, OpsOn

LEMMA RefusesNoneKeeps ==
  ASSUME TypeOK, TypeOK', JobsAreKept, RefusesNone, RowsLetGo, JobsEndOnly,
         UNCHANGED <<life, nextId, ran>>
  PROVE  JobsAreKept'
<1>1. InOnePlace'
  BY CalmUnique DEF JobsAreKept, RefusesNone
<1>2. \A j \in Jobs : Waiting(j)' => Waiting(j)
  BY DEF Waiting, JobsEndOnly, NoJob
<1>3. NowhereYet'
  BY <1>2, CalmPlaces DEF NowhereYet, JobsAreKept, JobsEndOnly
<1>4. IdsAreFresh'
  <2>1. \A r \in Rows : job'[r].stage # "none" => result'[<<life', job'[r].id>>] = "open"
    BY DEF JobsAreKept, IdsAreFresh, JobsEndOnly, NoJob
  <2>2. \A r, q \in Rows : job'[r].stage # "none" /\ job'[q].stage # "none"
                           /\ job'[r].id = job'[q].id => r = q
    BY DEF JobsAreKept, IdsAreFresh, JobsEndOnly, NoJob
  <2>3. \A j \in Jobs : j[1] > life' \/ (j[1] = life' /\ j[2] >= nextId') => result'[j] = "none"
    BY DEF JobsAreKept, IdsAreFresh, JobsEndOnly
  <2>4. \A j \in Jobs, l \in Links :
          OpsOn(link[l], j)' # {} /\ link'[l].m # "gone" => j[1] = life'
    BY CalmPlaces DEF JobsAreKept, IdsAreFresh
  <2>5. \A j \in Jobs : Refusing(j)' => result'[j] # "none" /\ ~Waiting(j)'
    BY <1>2, CalmPlaces DEF JobsAreKept, IdsAreFresh, JobsEndOnly, NotRun
  <2> QED BY <2>1, <2>2, <2>3, <2>4, <2>5 DEF IdsAreFresh
<1> QED BY <1>1, <1>3, <1>4 DEF JobsAreKept

LEMMA CalmKeeps ==
  ASSUME TypeOK, TypeOK', JobsAreKept, CalmStep, RowsLetGo, JobsEndOnly,
         UNCHANGED <<life, nextId, ran>>
  PROVE  JobsAreKept'
BY CalmRefusesNone, RefusesNoneKeeps

-----------------------------------------------------------------------------
\* The calm steps.
LEMMA CalmOne ==
  ASSUME LinkTypes, NEW l \in Links, NEW c, Calmer(link[l], c), link' = [link EXCEPT ![l] = c]
  PROVE  CalmStep
BY CalmerGone DEF LinkTypes, CalmStep

LEMMA CalmNone == ASSUME LinkTypes, link' = link PROVE CalmStep
BY CalmerGone DEF LinkTypes, CalmStep

LEMMA CalmDrop ==
  ASSUME LinkTypes, NEW l \in Links, link' = [link EXCEPT ![l] = MasterLetsGo(@)]
  PROVE  CalmStep
<1>1. link[l] \in Connections /\ Calmer(link[l], MasterLetsGo(link[l]))
  BY CalmerGone DEF LinkTypes
<1> QED BY <1>1, CalmOne

LEMMA CalmHangUp ==
  ASSUME LinkTypes, NEW l \in Links, link' = [link EXCEPT ![l] = DialerLetsGo(@)]
  PROVE  CalmStep
<1>1. link[l] \in Connections /\ Calmer(link[l], DialerLetsGo(link[l]))
  BY CalmerGone DEF LinkTypes
<1> QED BY <1>1, CalmOne

LEMMA CalmRead ==
  ASSUME LinkTypes, MasterTypes, NEW r \in Rows, NEW t, Arrived(r, t), ReadOff(r)
  PROVE  CalmStep
<1>1. conn[r] \in Links /\ link[conn[r]] \in Connections /\ link[conn[r]].up # <<>>
  BY DEF Arrived, MasterTypes, LinkTypes
<1> QED BY <1>1, CalmerRead, CalmOne DEF ReadOff

LEMMA CalmWrite ==
  ASSUME LinkTypes, MasterTypes, NEW r \in Rows, Takes(r), NEW msg \in ToRow, msg.t # "Op",
         Write(r, msg)
  PROVE  CalmStep
<1>1. conn[r] \in Links /\ link[conn[r]] \in Connections
  BY DEF Takes, MasterTypes, LinkTypes
<1> QED BY <1>1, CalmerWrite, CalmOne DEF Write

LEMMA CalmRowReads ==
  ASSUME LinkTypes, RowTypes, NEW r \in Rows, NEW t, Told(r, t)
  PROVE  /\ Reads(r) => CalmStep
         /\ \A msg \in ToMaster : Replies(r, msg) /\ ~Answer(msg) => CalmStep
<1>1. sock[r] \in Links /\ link[sock[r]] \in Connections /\ link[sock[r]].down # <<>>
  BY DEF Told, RowTypes, LinkTypes
<1>2. ReadDown(link[sock[r]]) \in Connections /\ Calmer(link[sock[r]], ReadDown(link[sock[r]]))
  BY <1>1, CalmerRead, EditTypes
<1>3. ASSUME NEW msg \in ToMaster, ~Answer(msg)
      PROVE  Calmer(link[sock[r]], Up(ReadDown(link[sock[r]]), msg))
  <2>1. Up(ReadDown(link[sock[r]]), msg) \in Connections
    BY <1>2, HelperTypes
  <2>2. Calmer(ReadDown(link[sock[r]]), Up(ReadDown(link[sock[r]]), msg))
    BY <1>2, <1>3, CalmerWrite
  <2> QED BY <1>2, <2>1, <2>2, CalmerTrans
<1>4. ASSUME Reads(r) PROVE CalmStep
  BY <1>1, <1>2, <1>4, CalmOne DEF Reads
<1>5. ASSUME NEW msg \in ToMaster, Replies(r, msg), ~Answer(msg) PROVE CalmStep
  BY <1>1, <1>3, <1>5, CalmOne DEF Replies
<1> QED BY <1>4, <1>5

LEMMA CalmRowSays ==
  ASSUME LinkTypes, RowTypes, NEW r \in Rows, sock[r] # NoLink, NEW msg \in ToMaster,
         Says(r, msg), ~Answer(msg)
  PROVE  CalmStep
<1>1. sock[r] \in Links /\ link[sock[r]] \in Connections
  BY DEF RowTypes, LinkTypes
<1> QED BY <1>1, CalmerWrite, CalmOne DEF Says

\* Messages that are neither a job nor an answer.
LEMMA CalmMessages ==
  /\ Welcome.t # "Op"
  /\ \A k, v : Setting(k, v).t # "Op"
  /\ \A on : LogCtl(on).t # "Op"
  /\ \A id, body : Show(id, body).t # "Op"
  /\ \A b : ~Answer(Status(b))
  /\ \A n : ~Answer(Shown(n))
BY DEF Welcome, Setting, LogCtl, Show, Status, Shown, Answer

LEMMA JobsUntouched ==
  ASSUME UNCHANGED <<op, job, result>> PROVE RowsLetGo /\ JobsEndOnly
BY DEF RowsLetGo, JobsEndOnly

LEMMA MasterStepCalm ==
  ASSUME TypeOK, NEW r \in Rows,
         ReadStatus(r) \/ ReadShown(r) \/ TellSetting(r) \/ TellLog(r) \/ SendShow(r) \/ Ping(r)
  PROVE  CalmStep
<1> USE DEF TypeOK
<1>1. CASE ReadStatus(r)
  BY <1>1, CalmRead DEF ReadStatus
<1>2. CASE ReadShown(r)
  BY <1>2, CalmRead DEF ReadShown
<1>3. CASE TellSetting(r)
  <2>1. PICK i \in DOMAIN Settings : Write(r, Setting(Settings[i], wish[Settings[i]]))
    BY <1>3 DEF TellSetting
  <2>2. Settings[i] \in Kinds /\ wish[Settings[i]] \in Nat
    BY DEF Kinds, MasterTypes
  <2> QED BY <1>3, <2>1, <2>2, SaidTypes, CalmMessages, CalmWrite DEF TellSetting
<1>4. CASE TellLog(r)
  BY <1>4, SaidTypes, CalmMessages, CalmWrite DEF TellLog, MasterTypes
<1>5. CASE SendShow(r)
  <2>1. text[r].id \in Nat /\ text[r].body \in Texts \cup {Blank}
    BY DEF MasterTypes
  <2> QED BY <1>5, <2>1, SaidTypes, CalmMessages, CalmWrite DEF SendShow
<1>6. CASE Ping(r)
  BY <1>6, CalmNone DEF Ping, vars
<1> QED BY <1>1, <1>2, <1>3, <1>4, <1>5, <1>6

LEMMA MasterStepKeeps ==
  ASSUME TypeOK, TypeOK', JobsAreKept, NEW r \in Rows,
         ReadStatus(r) \/ ReadShown(r) \/ TellSetting(r) \/ TellLog(r) \/ SendShow(r) \/ Ping(r)
  PROVE  JobsAreKept'
<1>1. UNCHANGED <<op, job, result, life, nextId, ran>>
  BY DEF ReadStatus, ReadShown, TellSetting, TellLog, SendShow, Ping, vars
<1>2. CalmStep
  BY MasterStepCalm
<1> QED BY <1>1, <1>2, JobsUntouched, CalmKeeps

LEMMA RowStepCalm ==
  ASSUME TypeOK, NEW r \in Rows,
         \/ RowWelcomed(r) \/ RowTakesText(r) \/ RowTakesSetting(r) \/ RowTakesLogCtl(r)
         \/ RowSaysStatus(r) \/ RowSeesClosed(r) \/ RowGivesUp(r)
  PROVE  CalmStep
<1> USE DEF TypeOK
<1>0. Busy(r) \in BOOLEAN
  BY DEF Busy
<1>1. CASE RowWelcomed(r)
  BY <1>0, <1>1, CalmRowReads, CalmMessages, SaidTypes DEF RowWelcomed
<1>2. CASE RowTakesText(r)
  <2>1. FromMaster(r).id \in Nat
    BY <1>2, RowReads, MessageTypes DEF RowTakesText
  <2> QED BY <1>2, <2>1, CalmRowReads, CalmMessages, SaidTypes DEF RowTakesText
<1>3. CASE RowTakesSetting(r)
  BY <1>3, CalmRowReads DEF RowTakesSetting
<1>4. CASE RowTakesLogCtl(r)
  BY <1>4, CalmRowReads DEF RowTakesLogCtl
<1>5. CASE RowSaysStatus(r)
  BY <1>0, <1>5, CalmRowSays, CalmMessages, SaidTypes DEF RowSaysStatus, Writes
<1>6. CASE RowSeesClosed(r) \/ RowGivesUp(r)
  <2>1. sock[r] \in Links
    BY <1>6 DEF RowSeesClosed, RowGivesUp, RowTypes
  <2> QED BY <1>6, <2>1, CalmHangUp DEF RowSeesClosed, RowGivesUp, RowDrops
<1> QED BY <1>1, <1>2, <1>3, <1>4, <1>5, <1>6

LEMMA RowStepKeeps ==
  ASSUME TypeOK, TypeOK', JobsAreKept, NEW r \in Rows,
         \/ RowWelcomed(r) \/ RowTakesText(r) \/ RowTakesSetting(r) \/ RowTakesLogCtl(r)
         \/ RowSaysStatus(r) \/ RowSeesClosed(r) \/ RowGivesUp(r)
  PROVE  JobsAreKept'
<1>1. UNCHANGED <<op, job, result, life, nextId, ran>>
  BY DEF RowWelcomed, RowTakesText, RowTakesSetting, RowTakesLogCtl, RowSaysStatus,
         RowSeesClosed, RowGivesUp
<1>2. CalmStep
  BY RowStepCalm
<1> QED BY <1>1, <1>2, JobsUntouched, CalmKeeps

LEMMA OpenAgain ==
  ASSUME NEW c \in Connections, c.m # "gone"
  PROVE  Calmer(c, [c EXCEPT !.m = "open"])
<1>1. /\ [c EXCEPT !.m = "open"] \in Connections
      /\ [c EXCEPT !.m = "open"].up = c.up /\ [c EXCEPT !.m = "open"].down = c.down
      /\ [c EXCEPT !.m = "open"].held = c.held
  BY EditTypes DEF Connections
<1> QED BY <1>1, CalmerSame

LEMMA FreshIsCalm ==
  ASSUME LinkTypes, RowTypes, NEW l \in Links, NEW d \in Rows \cup {Stranger}, NEW a \in Addrs,
         NEW first, first = <<>> \/ \E r \in Rows : first = <<Hello(r)>>,
         link' = [link EXCEPT ![l] = Fresh(d, a, first)]
  PROVE  CalmStep
<1>1. first \in Seq(ToMaster)
  <2>1. \A r \in Rows : Hello(r) \in ToMaster
    BY DEF Hello, ToMaster, RowTypes
  <2>2. \A m \in ToMaster : <<m>> \in Seq(ToMaster)
    OBVIOUS
  <2>3. <<>> \in Seq(ToMaster)
    OBVIOUS
  <2> QED BY <2>1, <2>2, <2>3
<1>2. Fresh(d, a, first) \in Connections
  BY <1>1 DEF Fresh, Connections
<1>3. Fresh(d, a, first).down = <<>> /\ Fresh(d, a, first).up = first
  BY DEF Fresh
<1>4. Calmer(link[l], Fresh(d, a, first))
  BY <1>2, <1>3, CalmerQuiet DEF LinkTypes
<1> QED BY <1>4, CalmOne

LEMMA OnLinkCalm ==
  ASSUME TypeOK, NEW l \in Links,
         \/ Accept(l) \/ HelloTimeout(l) \/ SeesClosed(l) \/ StrangerCloses(l)
         \/ \E a \in Addrs : StrangerDials(l, a)
         \/ \E u, d \in 0..Room : Break(l, u, d)
  PROVE  CalmStep
<1> USE DEF TypeOK
<1>1. CASE Accept(l)
  <2>0. link[l] \in Connections /\ link[l].m # "gone"
    BY <1>1 DEF Accept, LinkTypes
  <2>1. CASE link' = [link EXCEPT ![l].m = "open"]
    BY <2>0, <2>1, OpenAgain, CalmOne
  <2>2. CASE /\ nobodies # <<>>
             /\ link' = [[link EXCEPT ![Head(nobodies)] = MasterLetsGo(@)]
                           EXCEPT ![l].m = "open"]
    <3> DEFINE n == Head(nobodies)
               lk == [link EXCEPT ![n] = MasterLetsGo(@)]
    <3>1. n \in Links
      BY <2>2 DEF MasterTypes
    <3>2. link[n] \in Connections /\ MasterLetsGo(link[n]) \in Connections
          /\ Calmer(link[n], MasterLetsGo(link[n]))
      BY <3>1, HelperTypes, CalmerGone DEF LinkTypes
    <3>3. lk \in [Links -> Connections] /\ \A k \in Links : Calmer(link[k], lk[k])
      BY <3>2, CalmerGone DEF LinkTypes
    <3>4. link' = [lk EXCEPT ![l].m = "open"]
      BY <2>2
    <3> HIDE DEF lk, n
    <3>5. CASE l # n
      <4>1. lk[l].m # "gone"
        BY <2>0, <3>5 DEF lk, LinkTypes
      <4>2. Calmer(lk[l], [lk[l] EXCEPT !.m = "open"]) /\ [lk[l] EXCEPT !.m = "open"] \in Connections
        BY <3>3, <4>1, OpenAgain, EditTypes
      <4>3. Calmer(link[l], [lk[l] EXCEPT !.m = "open"])
        BY <3>3, <4>2, CalmerTrans
      <4> QED BY <3>3, <3>4, <4>3 DEF CalmStep
    <3>6. CASE l = n
      <4>1. lk[l] = MasterLetsGo(link[l])
        BY <3>6 DEF lk, LinkTypes
      <4>2. Calmer(link[l], lk[l])
        BY <3>3
      <4>3. [lk[l] EXCEPT !.m = "open"] \in Connections
        BY <3>3, EditTypes
      <4>4. Calmer(link[l], [lk[l] EXCEPT !.m = "open"])
        <5> DEFINE e == [lk[l] EXCEPT !.m = "open"]
        <5>1. e.up = lk[l].up /\ e.down = lk[l].down /\ e.held = lk[l].held
          BY <3>3 DEF Connections
        <5> HIDE DEF e
        <5>2. (\A j : OpsOn(e, j) = OpsOn(lk[l], j)) /\ Words(e) = Words(lk[l])
          BY <5>1 DEF OpsOn, Words
        <5>3. Calmer(link[l], e)
          BY <2>0, <4>2, <5>1, <5>2 DEF Calmer, OpsCalm
        <5> QED BY <5>3 DEF e
      <4> QED BY <3>3, <3>4, <4>4 DEF CalmStep
    <3> QED BY <3>5, <3>6
  <2>3. CASE link' = [link EXCEPT ![l] = MasterLetsGo(@)]
    BY <2>3, CalmDrop
  <2> QED BY <1>1, <2>1, <2>2, <2>3 DEF Accept
<1>2. CASE HelloTimeout(l) \/ SeesClosed(l)
  BY <1>2, CalmDrop DEF HelloTimeout, SeesClosed
<1>3. CASE StrangerCloses(l)
  BY <1>3, CalmHangUp DEF StrangerCloses
<1>4. ASSUME NEW a \in Addrs, StrangerDials(l, a) PROVE CalmStep
  <2>1. link' = [link EXCEPT ![l] = Fresh(Stranger, a, <<>>)]
    BY <1>4 DEF StrangerDials
  <2> QED BY <2>1, FreshIsCalm
<1>5. ASSUME NEW u \in 0..Room, NEW d \in 0..Room, Break(l, u, d) PROVE CalmStep
  <2>0. link[l] \in Connections
    BY DEF LinkTypes
  <2>1. u \in 0..Len(link[l].up) /\ d \in 0..Len(link[l].down)
    <3>1. Len(link[l].up) \in Nat /\ Len(link[l].down) \in Nat
      BY <2>0 DEF Connections
    <3>2. u \in Nat /\ d \in Nat
      BY CountsAreNaturals
    <3>3. u <= Len(link[l].up) /\ d <= Len(link[l].down)
      BY <1>5 DEF Break
    <3> QED BY <3>1, <3>2, <3>3
  <2>2. Calmer(link[l], [link[l] EXCEPT !.cut = TRUE, !.up = SubSeq(@, 1, u),
                                        !.down = SubSeq(@, 1, d)])
    BY <2>0, <2>1, CalmerCut
  <2>3. \A k \in Links \ {l} : link'[k] = link[k]
    BY <1>5 DEF Break, LinkTypes
  <2>4. link'[l] = [link[l] EXCEPT !.cut = TRUE, !.up = SubSeq(@, 1, u), !.down = SubSeq(@, 1, d)]
    BY <1>5 DEF Break, LinkTypes
  <2> QED BY <2>2, <2>3, <2>4, CalmerGone DEF CalmStep, LinkTypes
<1> QED BY <1>1, <1>2, <1>3, <1>4, <1>5

LEMMA OnLinkKeeps ==
  ASSUME TypeOK, TypeOK', JobsAreKept, NEW l \in Links, OnLink(l), ~ReadHello(l)
  PROVE  JobsAreKept'
<1>1. UNCHANGED <<op, job, result, life, nextId, ran>>
  BY DEF OnLink, Accept, HelloTimeout, SeesClosed, StrangerCloses, StrangerDials, Break
<1>2. CalmStep
  BY OnLinkCalm DEF OnLink
<1> QED BY <1>1, <1>2, JobsUntouched, CalmKeeps

\* An open job that ends as one that may have run.
LEMMA OneJobEnds ==
  ASSUME TypeOK, JobsAreKept, NEW r \in Rows, job[r].stage # "none", NEW how, how \notin NotRun,
         job' = [job EXCEPT ![r] = NoJob],
         result' = [result EXCEPT ![<<life, job[r].id>>] = how]
  PROVE  JobsEndOnly
<1> DEFINE it == <<life, job[r].id>>
<1>1. result[it] = "open" /\ result \in [Jobs -> Results]
  BY DEF JobsAreKept, IdsAreFresh, TypeOK, MasterTypes
<1>2. job \in [Rows -> {NoJob} \cup [stage : {"waiting", "sent"}, id : 1..MaxJobs]]
  BY DEF TypeOK, MasterTypes
<1>3. \A q \in Rows : job'[q] = job[q] \/ job'[q] = NoJob
  BY <1>2
<1>4. \A q \in Rows : job'[q].stage # "none" => q # r /\ job'[q] = job[q]
  BY <1>2 DEF NoJob
<1>5. \A q \in Rows : q # r /\ job[q].stage # "none" =>
        <<life, job[q].id>> # it /\ <<life, job[q].id>> \in Jobs
  BY <1>2, JobIsNamed DEF JobsAreKept, IdsAreFresh
<1> HIDE DEF it
<1>6. result' = [result EXCEPT ![it] = how]
  BY DEF it
<1>7. \A j \in Jobs : j # it => result'[j] = result[j]
  BY <1>1, <1>6
<1>8. \A j \in Jobs : result'[j] = result[j] \/ (result[j] = "open" /\ result'[j] \notin NotRun)
  BY <1>1, <1>6
<1> QED BY <1>3, <1>4, <1>5, <1>7, <1>8 DEF JobsEndOnly

\* A Hello replaces connections ...
LEMMA HelloCalm ==
  ASSUME TypeOK, NEW l \in Links, ReadHello(l)
  PROVE  CalmStep
<1> USE DEF TypeOK
<1> DEFINE hello == Head(link[l].up)
           popped == ReadUp(link[l])
           replaced == [k \in Links |-> IF k = conn[hello.row] THEN MasterLetsGo(link[k])
                                        ELSE link[k]]
           welcomedTo == [Down(popped, Welcome) EXCEPT !.of = hello.row]
<1>1. link[l] \in Connections /\ link[l].up # <<>> /\ link[l].m = "open"
  BY DEF ReadHello, LinkTypes
<1>2. hello.row \in Rows /\ popped \in Connections /\ Calmer(link[l], popped)
  <2>1. hello \in ToMaster /\ hello.t = "Hello"
    BY <1>1, EditTypes DEF ReadHello
  <2>2. hello.row \in Rows
    BY <2>1, MessageTypes
  <2> QED BY <1>1, <2>2, EditTypes, CalmerRead
<1>3. Calmer(link[l], MasterLetsGo(popped))
  <2>1. MasterLetsGo(popped) \in Connections /\ Calmer(popped, MasterLetsGo(popped))
    BY <1>2, HelperTypes, CalmerGone
  <2> HIDE DEF popped
  <2> QED BY <1>2, <2>1, CalmerTrans
<1>4. Calmer(link[l], welcomedTo)
  <2>1. /\ Down(popped, Welcome) \in Connections
        /\ Calmer(popped, Down(popped, Welcome))
    BY <1>2, HelperTypes, SaidTypes, CalmMessages, CalmerWrite
  <2>2. /\ welcomedTo \in Connections
        /\ welcomedTo.up = Down(popped, Welcome).up
        /\ welcomedTo.down = Down(popped, Welcome).down
        /\ welcomedTo.m = Down(popped, Welcome).m
        /\ welcomedTo.held = Down(popped, Welcome).held
    BY <1>2, <2>1, EditTypes DEF Connections
  <2> HIDE DEF welcomedTo
  <2>3. Calmer(Down(popped, Welcome), welcomedTo)
    BY <2>1, <2>2, CalmerSame
  <2> HIDE DEF popped
  <2> QED BY <1>2, <2>1, <2>2, <2>3, CalmerTrans
<1>5. replaced \in [Links -> Connections] /\ \A k \in Links : Calmer(link[k], replaced[k])
  BY HelperTypes, CalmerGone DEF LinkTypes
<1> HIDE DEF popped, replaced, welcomedTo
<1>6. CASE link' = [link EXCEPT ![l] = MasterLetsGo(popped)]
  BY <1>3, <1>6, CalmOne
<1>7. CASE link' = [replaced EXCEPT ![l] = MasterLetsGo(popped)]
  BY <1>3, <1>5, <1>7 DEF CalmStep
<1>8. CASE link' = [replaced EXCEPT ![l] = welcomedTo]
  BY <1>4, <1>5, <1>8 DEF CalmStep
<1> QED BY <1>6, <1>7, <1>8 DEF ReadHello, popped, replaced, welcomedTo

\* ... and, from a restarted row, ends its job.
LEMMA HelloKeeps ==
  ASSUME TypeOK, TypeOK', JobsAreKept, NEW l \in Links, ReadHello(l)
  PROVE  JobsAreKept'
<1> USE DEF TypeOK
<1> DEFINE hello == Head(link[l].up)
<1>1. hello.row \in Rows
  <2>1. link[l] \in Connections /\ link[l].up # <<>>
    BY DEF ReadHello, LinkTypes
  <2>2. hello \in ToMaster /\ hello.t = "Hello"
    BY <2>1, EditTypes DEF ReadHello
  <2> QED BY <2>2, MessageTypes
<1>2. CalmStep /\ RowsLetGo /\ UNCHANGED <<op, life, nextId, ran>>
  BY HelloCalm DEF ReadHello, RowsLetGo
<1>3. CASE UNCHANGED <<job, result>>
  BY <1>2, <1>3, JobsUntouched, CalmKeeps
<1>4. CASE /\ job' = [job EXCEPT ![hello.row] = NoJob]
           /\ result' = IF job[hello.row] = NoJob THEN result
                        ELSE [result EXCEPT ![<<life, job[hello.row].id>>] = "restarted"]
  <2>1. CASE job[hello.row] = NoJob
    <3>1. JobsEndOnly
      BY <1>1, <1>4, <2>1 DEF MasterTypes, JobsEndOnly, NoJob
    <3> QED BY <1>2, <3>1, CalmKeeps
  <2>2. CASE job[hello.row] # NoJob
    <3>1. job[hello.row].stage # "none" /\ "restarted" \notin NotRun
      BY <1>1, <2>2 DEF MasterTypes, NotRun
    <3> HIDE DEF hello
    <3>2. JobsEndOnly
      BY <1>1, <1>4, <2>2, <3>1, OneJobEnds
    <3> QED BY <1>2, <3>2, CalmKeeps
  <2> QED BY <2>1, <2>2
<1> QED BY <1>3, <1>4 DEF ReadHello

-----------------------------------------------------------------------------
\* The other calm steps: what is asked of the link, what ends a job on the row or
\* in time, a row that restarts, a rows table that changes.
LEMMA AskedCalm ==
  ASSUME TypeOK,
         \/ \E r \in Rows : WantLog(r) \/ DropSilent(r) \/ \E body \in Texts : SetText(r, body)
         \/ \E k \in Kinds : ChangeSetting(k)
         \/ \E r \in Rows, l \in Links, a \in Addrs : Dial(r, l, a)
  PROVE  CalmStep
<1> USE DEF TypeOK
<1>1. ASSUME NEW r \in Rows, DropSilent(r) PROVE CalmStep
  <2>1. conn[r] \in Links
    BY <1>1 DEF DropSilent, MasterTypes
  <2> QED BY <1>1, <2>1, CalmDrop DEF DropSilent
<1>2. ASSUME NEW r \in Rows, NEW l \in Links, NEW a \in Addrs, Dial(r, l, a) PROVE CalmStep
  <2>1. link' = [link EXCEPT ![l] = Fresh(r, a, <<Hello(r)>>)]
    BY <1>2 DEF Dial
  <2> QED BY <2>1, FreshIsCalm
<1>3. ASSUME link' = link PROVE CalmStep
  BY <1>3, CalmNone
<1> QED BY <1>1, <1>2, <1>3 DEF WantLog, SetText, ChangeSetting

LEMMA AskedKeeps ==
  ASSUME TypeOK, TypeOK', JobsAreKept,
         \/ \E r \in Rows : WantLog(r) \/ DropSilent(r) \/ \E body \in Texts : SetText(r, body)
         \/ \E k \in Kinds : ChangeSetting(k)
         \/ \E r \in Rows, l \in Links, a \in Addrs : Dial(r, l, a)
  PROVE  JobsAreKept'
<1>1. UNCHANGED <<op, job, result, life, nextId, ran>>
  BY DEF WantLog, SetText, DropSilent, ChangeSetting, Dial
<1>2. CalmStep
  BY AskedCalm
<1> QED BY <1>1, <1>2, JobsUntouched, CalmKeeps

LEMMA RestartCalm ==
  ASSUME TypeOK, NEW r \in Rows, RowRestarts(r) PROVE CalmStep
<1> USE DEF TypeOK
<1>1. CASE sock[r] = NoLink
  BY <1>1, CalmNone DEF RowRestarts
<1>2. CASE sock[r] # NoLink
  <2>1. sock[r] \in Links
    BY <1>2 DEF RowTypes
  <2> QED BY <1>2, <2>1, CalmHangUp DEF RowRestarts
<1> QED BY <1>1, <1>2

\* A message that goes up changes no job on its way down.
LEMMA UpWords ==
  ASSUME NEW c \in Connections, NEW msg \in ToMaster
  PROVE  /\ OpsCalm(c, Up(c, msg)) /\ Up(c, msg).down = c.down
         /\ Up(c, msg).m = c.m /\ Up(c, msg).held = c.held
         /\ Words(Up(c, msg)) \subseteq Words(c) \cup {msg}
<1>0. Calmer(c, c)
  BY CalmerGone
<1>1. CASE c.cut \/ c.m = "gone"
  BY <1>0, <1>1 DEF Up, Calmer
<1>2. CASE ~(c.cut \/ c.m = "gone")
  <2>1. /\ Up(c, msg).up = Append(c.up, msg) /\ Up(c, msg).down = c.down
        /\ Up(c, msg).m = c.m /\ Up(c, msg).held = c.held
    BY <1>2 DEF Up, Connections
  <2>2. c.up \in Seq(ToMaster)
    BY DEF Connections
  <2>3. \A i \in DOMAIN Append(c.up, msg) :
          \/ i \in DOMAIN c.up /\ Append(c.up, msg)[i] = c.up[i]
          \/ Append(c.up, msg)[i] = msg
    BY <2>2
  <2>4. \A j : OpsOn(Up(c, msg), j) = OpsOn(c, j)
    BY <2>1 DEF OpsOn
  <2>5. OpsCalm(c, Up(c, msg))
    BY <1>0, <2>1, <2>4 DEF Calmer, OpsCalm
  <2>6. Words(Up(c, msg)) \subseteq Words(c) \cup {msg}
    BY <2>1, <2>3 DEF Words
  <2> QED BY <2>1, <2>5, <2>6
<1> QED BY <1>1, <1>2

LEMMA ReportRefusesNone ==
  ASSUME TypeOK, NEW r \in Rows, RowReportsEnd(r) PROVE RefusesNone
<1> USE DEF TypeOK
<1> DEFINE msg == OpState(op[r].job[2], op[r].st)
           l0  == sock[r]
<1>1. op[r].job[2] \in 1..MaxJobs /\ op[r].st \in {"ok", "failed"}
  BY DEF RowReportsEnd, RowTypes, NoOp, Jobs
<1>2. msg \in ToMaster /\ \A id : msg # OpState(id, "refused")
  BY <1>1, SaidTypes DEF OpState
<1>3. l0 \in Links /\ link[l0] \in Connections /\ link' = [link EXCEPT ![l0] = Up(@, msg)]
  BY DEF RowReportsEnd, Writes, Says, RowTypes, LinkTypes
<1> HIDE DEF msg, l0
<1>4. \A l \in Links : link'[l] = IF l = l0 THEN Up(link[l], msg) ELSE link[l]
  BY <1>3 DEF LinkTypes
<1>5. \A l \in Links : OpsCalm(link[l], link'[l]) /\ Words(link'[l]) \subseteq Words(link[l]) \cup {msg}
  <2> TAKE l \in Links
  <2>1. link[l] \in Connections /\ OpsCalm(link[l], link[l])
    BY CalmerGone DEF LinkTypes, Calmer
  <2> QED BY <1>2, <1>4, <2>1, UpWords
<1>6. \A l \in Links, id \in 1..MaxJobs : Refusal(link'[l], id) => Refusal(link[l], id)
  BY <1>2, <1>5 DEF Refusal, Words
<1> QED BY <1>5, <1>6 DEF RefusesNone

LEMMA RowEndsKeep ==
  ASSUME TypeOK, TypeOK', JobsAreKept, NEW r \in Rows,
         \/ \E how \in {"ok", "failed"} : UnitJobEnds(r, how)
         \/ RowReportsEnd(r) \/ RowRestarts(r)
  PROVE  JobsAreKept'
<1> USE DEF TypeOK
<1>1. UNCHANGED <<job, result, life, nextId, ran>>
  BY DEF UnitJobEnds, RowReportsEnd, RowRestarts
<1>2. JobsEndOnly
  BY <1>1 DEF JobsEndOnly
<1>3. RowsLetGo
  <2>1. ASSUME NEW how \in {"ok", "failed"}, UnitJobEnds(r, how) PROVE RowsLetGo
    <3>1. /\ \A q \in Rows \ {r} : op'[q] = op[q]
          /\ op'[r].st = how /\ op'[r].job = op[r].job
      BY <2>1 DEF UnitJobEnds, RowTypes, NoOp
    <3> QED BY <2>1, <3>1 DEF UnitJobEnds, RowsLetGo
  <2>2. CASE RowReportsEnd(r) \/ RowRestarts(r)
    <3>1. op' = [op EXCEPT ![r] = NoOp]
      BY <2>2 DEF RowReportsEnd, RowRestarts
    <3> QED BY <3>1 DEF RowsLetGo, NoOp, RowTypes
  <2> QED BY <2>1, <2>2
<1>4. RefusesNone
  <2>1. CASE \E how \in {"ok", "failed"} : UnitJobEnds(r, how)
    BY <2>1, CalmNone, CalmRefusesNone DEF UnitJobEnds
  <2>2. CASE RowReportsEnd(r)
    BY <2>2, ReportRefusesNone
  <2>3. CASE RowRestarts(r)
    BY <2>3, RestartCalm, CalmRefusesNone
  <2> QED BY <2>1, <2>2, <2>3
<1> QED BY <1>1, <1>2, <1>3, <1>4, RefusesNoneKeeps

LEMMA GoneFields ==
  ASSUME NEW c \in Connections
  PROVE  MasterLetsGo(c).m = "gone" /\ MasterLetsGo(c).up = <<>>
<1>1. CASE c.held
  BY <1>1 DEF MasterLetsGo, Connections
<1>2. CASE ~c.held
  BY <1>2 DEF MasterLetsGo, Free
<1> QED BY <1>1, <1>2

LEMMA ForgetsCalm ==
  ASSUME TypeOK, NEW how \in Ends, how \notin NotRun, ForgetsRows(how)
  PROVE  /\ CalmStep /\ JobsEndOnly
         /\ \A l \in Links : link'[l].m = "gone" /\ link'[l].up = <<>>
<1>1. \A l \in Links : link[l] \in Connections /\ link'[l] = MasterLetsGo(link[l])
  BY DEF ForgetsRows, TypeOK, LinkTypes
<1>2. CalmStep
  BY <1>1, CalmerGone DEF CalmStep
<1>3. JobsEndOnly
  BY DEF ForgetsRows, JobsEndOnly, NoJob
<1>4. \A l \in Links : link'[l].m = "gone" /\ link'[l].up = <<>>
  <2> TAKE l \in Links
  <2> QED BY <1>1, GoneFields
<1> QED BY <1>2, <1>3, <1>4

LEMMA ForgetsKeeps ==
  ASSUME TypeOK, TypeOK', JobsAreKept, RowsChanged \/ MasterRestarts
  PROVE  JobsAreKept'
<1>0. "wallChanged" \in Ends \ NotRun /\ "forgotten" \in Ends \ NotRun
  BY DEF Ends, NotRun
<1>1. CASE RowsChanged
  <2>1. RowsLetGo /\ UNCHANGED <<life, nextId, ran>>
    BY <1>1 DEF RowsChanged, RowsLetGo
  <2> QED BY <1>0, <1>1, <2>1, ForgetsCalm, CalmKeeps DEF RowsChanged
<1>2. CASE MasterRestarts
  <2>1. /\ RowsLetGo /\ UNCHANGED ran
        /\ life' = life + 1 /\ nextId' = 1
    BY <1>2 DEF MasterRestarts, RowsLetGo
  <2>2. CalmStep /\ JobsEndOnly /\ \A l \in Links : link'[l].m = "gone" /\ link'[l].up = <<>>
    BY <1>0, <1>2, ForgetsCalm DEF MasterRestarts
  <2>3. \A r \in Rows : job'[r] = NoJob
    BY <1>2 DEF MasterRestarts, ForgetsRows
  <2>4. InOnePlace'
    BY <2>1, <2>2, CalmUnique DEF JobsAreKept, CalmStep, Calmer
  <2>5. \A j \in Jobs : ~Waiting(j)' /\ ~Refusing(j)'
    BY <2>2, <2>3 DEF Waiting, Refusing, Refusal, NoJob
  <2>6. \A j \in Jobs : (OnWire(j)' => OnWire(j)) /\ (Held(j)' => Held(j))
    <3>1. \A j \in Jobs, l \in Links : OpsOn(link'[l], j) # {} => OpsOn(link[l], j) # {}
      BY <2>2 DEF CalmStep, Calmer, OpsCalm
    <3> QED BY <2>1, <3>1 DEF OnWire, Held, RowsLetGo, OpsOn
  <2>7. \A j \in Jobs : result'[j] = result[j] \/ (result[j] = "open" /\ result'[j] \notin NotRun)
    BY <2>2 DEF JobsEndOnly
  <2>8. NowhereYet'
    BY <2>1, <2>5, <2>6, <2>7 DEF NowhereYet, JobsAreKept
  <2>9. IdsAreFresh'
    <3>1. \A j \in Jobs : j[1] > life' \/ (j[1] = life' /\ j[2] >= nextId') => result'[j] = "none"
      <4>1. \A j \in Jobs : j[1] \in Nat /\ life \in Nat
        BY DEF Jobs, TypeOK, MasterTypes
      <4>2. \A j \in Jobs : j[1] >= life + 1 => result[j] = "none"
        BY <4>1 DEF JobsAreKept, IdsAreFresh
      <4> QED BY <2>1, <2>7, <4>1, <4>2
    <3>2. \A r \in Rows : job'[r].stage = "none"
      BY <2>3 DEF NoJob
    <3> QED BY <2>2, <2>5, <3>1, <3>2 DEF IdsAreFresh, OpsOn
  <2> QED BY <2>4, <2>8, <2>9 DEF JobsAreKept
<1> QED BY <1>1, <1>2

-----------------------------------------------------------------------------
\* The steps a job takes.
LEMMA AskKeeps ==
  ASSUME TypeOK, TypeOK', JobsAreKept, NEW r \in Rows, AskJob(r)
  PROVE  JobsAreKept'
<1> DEFINE it == <<life, nextId>>
<1>1. /\ job' = [job EXCEPT ![r] = [stage |-> "waiting", id |-> nextId]]
      /\ result' = [result EXCEPT ![it] = "open"]
      /\ nextId' = nextId + 1 /\ nextId \in 1..MaxJobs
      /\ UNCHANGED <<life, link, op, ran>>
  BY DEF AskJob, TypeOK, MasterTypes
<1>2. it \in Jobs /\ it[1] = life /\ it[2] = nextId /\ nextId \in Nat /\ life \in Nat
  BY <1>1, JobNames DEF TypeOK, MasterTypes
<1>3. result[it] = "none"
  BY <1>2 DEF JobsAreKept, IdsAreFresh
<1>4. /\ job'[r] = [stage |-> "waiting", id |-> nextId]
      /\ \A q \in Rows \ {r} : job'[q] = job[q]
      /\ result'[it] = "open" /\ \A j \in Jobs \ {it} : result'[j] = result[j]
  BY <1>1, <1>2 DEF TypeOK, MasterTypes
<1>5. \A j \in Jobs : /\ OnWire(j)' <=> OnWire(j)
                      /\ Held(j)' <=> Held(j)
                      /\ Refusing(j)' <=> Refusing(j)
  BY <1>1 DEF OnWire, Held, Refusing, OpsOn, Refusal
<1>6. \A j \in Jobs : Waiting(j)' => Waiting(j) \/ j = it
  BY <1>1, <1>4 DEF Waiting
<1>7. InOnePlace'
  BY <1>1, <1>5 DEF JobsAreKept, InOnePlace, NoJobRunsTwice, OpsOn
<1>8. NowhereYet'
  BY <1>1, <1>2, <1>3, <1>4, <1>5, <1>6 DEF JobsAreKept, NowhereYet, NotRun
<1>9. \A q \in Rows : job[q].stage # "none" => job[q].id # nextId /\ <<life, job[q].id>> \in Jobs
  <2> TAKE q \in Rows
  <2>1. CASE job[q].stage # "none"
    <3>1. job[q].id \in 1..MaxJobs
      BY <2>1, SMTT(30) DEF TypeOK, MasterTypes, NoJob
    <3>2. <<life, job[q].id>> \in Jobs /\ result[<<life, job[q].id>>] = "open"
      BY <2>1, <3>1, JobNames DEF TypeOK, MasterTypes, JobsAreKept, IdsAreFresh
    <3> QED BY <1>3, <3>2
  <2> QED BY <2>1
<1>10. IdsAreFresh'
  <2>1. \A q \in Rows : job'[q].stage # "none" => result'[<<life', job'[q].id>>] = "open"
    BY <1>1, <1>4, <1>9 DEF JobsAreKept, IdsAreFresh
  <2>2. \A p, q \in Rows : job'[p].stage # "none" /\ job'[q].stage # "none"
                           /\ job'[p].id = job'[q].id => p = q
    BY <1>4, <1>9 DEF JobsAreKept, IdsAreFresh
  <2>3. \A j \in Jobs : j[1] > life' \/ (j[1] = life' /\ j[2] >= nextId') => result'[j] = "none"
    <3>1. \A j \in Jobs : j[1] \in Nat /\ j[2] \in Nat
      BY DEF Jobs
    <3>2. \A j \in Jobs : j[1] > life \/ (j[1] = life /\ j[2] >= nextId + 1)
                          => j # it /\ result[j] = "none"
      BY <1>2, <3>1 DEF JobsAreKept, IdsAreFresh
    <3> QED BY <1>1, <1>4, <3>2
  <2>4. \A j \in Jobs, l \in Links :
          OpsOn(link[l], j)' # {} /\ link'[l].m # "gone" => j[1] = life'
    BY <1>1 DEF JobsAreKept, IdsAreFresh, OpsOn
  <2>5. \A j \in Jobs : Refusing(j)' => result'[j] # "none" /\ ~Waiting(j)'
    BY <1>3, <1>4, <1>5, <1>6 DEF JobsAreKept, IdsAreFresh
  <2> QED BY <2>1, <2>2, <2>3, <2>4, <2>5 DEF IdsAreFresh
<1> QED BY <1>7, <1>8, <1>10 DEF JobsAreKept

LEMMA StartsKeep ==
  ASSUME TypeOK, TypeOK', JobsAreKept, NEW r \in Rows, UnitJobStarts(r)
  PROVE  JobsAreKept'
<1>1. /\ op[r].st = "staged" /\ op[r].job \in Jobs
      /\ op'[r].st = "running" /\ op'[r].job = op[r].job
      /\ \A q \in Rows \ {r} : op'[q] = op[q]
      /\ ran' = ran \cup {op[r].job}
      /\ UNCHANGED <<life, job, nextId, result, link>>
  BY DEF UnitJobStarts, TypeOK, RowTypes, NoOp
<1>2. \A j \in Jobs : /\ OnWire(j)' <=> OnWire(j)
                      /\ Held(j)' <=> Held(j)
                      /\ Refusing(j)' <=> Refusing(j)
                      /\ Waiting(j)' <=> Waiting(j)
  BY <1>1 DEF OnWire, Held, Refusing, OpsOn, Refusal, Waiting
<1>3. Held(op[r].job)
  BY <1>1 DEF Held
<1>4. NowhereYet'
  BY <1>1, <1>2, <1>3 DEF JobsAreKept, NowhereYet
<1>5. InOnePlace'
  <2>1. \A j \in Jobs : OnWire(j)' => ~Held(j)' /\ j \notin ran'
    BY <1>1, <1>2, <1>3 DEF JobsAreKept, InOnePlace
  <2>2. \A p, q \in Rows :
          op'[p].st # "none" /\ op'[q].st # "none" /\ op'[p].job = op'[q].job => p = q
    BY <1>1 DEF JobsAreKept, InOnePlace
  <2>3. NoJobRunsTwice'
    BY <1>1 DEF JobsAreKept, InOnePlace, NoJobRunsTwice
  <2> QED BY <1>1, <2>1, <2>2, <2>3 DEF JobsAreKept, InOnePlace, OpsOn
<1>6. IdsAreFresh'
  BY <1>1, <1>2 DEF JobsAreKept, IdsAreFresh, OpsOn
<1> QED BY <1>4, <1>5, <1>6 DEF JobsAreKept

\* An open job that is nowhere ends as one that did not run.
LEMMA OneJobReturns ==
  ASSUME TypeOK, TypeOK', JobsAreKept, CalmStep, NEW r \in Rows, job[r].stage # "none",
         ~OnWire(<<life, job[r].id>>), ~Held(<<life, job[r].id>>), <<life, job[r].id>> \notin ran,
         NEW how \in {"notHandedOver", "refused"},
         job' = [job EXCEPT ![r] = NoJob],
         result' = [result EXCEPT ![<<life, job[r].id>>] = how],
         UNCHANGED <<life, nextId, op, ran>>
  PROVE  JobsAreKept'
<1> DEFINE it == <<life, job[r].id>>
<1>1. it \in Jobs
  BY JobIsNamed
<1>2. /\ result[it] = "open" /\ result'[it] = how
      /\ \A j \in Jobs \ {it} : result'[j] = result[j]
  BY <1>1 DEF JobsAreKept, IdsAreFresh, TypeOK, MasterTypes
<1>3. \A q \in Rows : job'[q] = NoJob \/ (q # r /\ job'[q] = job[q])
  BY DEF TypeOK, MasterTypes
<1>4. RowsLetGo
  BY DEF RowsLetGo
<1>5. \A j \in Jobs : /\ OnWire(j)' => OnWire(j)
                      /\ Held(j)' => Held(j)
                      /\ Refusing(j)' => Refusing(j)
                      /\ Waiting(j)' => Waiting(j)
  BY <1>3, <1>4, CalmPlaces, CalmRefusesNone DEF Waiting, NoJob
<1>6. NowhereYet'
  BY <1>2, <1>5 DEF JobsAreKept, NowhereYet
<1>7. InOnePlace'
  BY <1>4, CalmUnique DEF JobsAreKept, CalmStep, Calmer
<1>8. IdsAreFresh'
  <2>1. \A q \in Rows : job'[q].stage # "none" => result'[<<life', job'[q].id>>] = "open"
    <3> SUFFICES ASSUME NEW q \in Rows, job'[q].stage # "none"
                 PROVE  result'[<<life, job[q].id>>] = "open" /\ job'[q] = job[q]
      OBVIOUS
    <3>1. q # r /\ job'[q] = job[q] /\ job[q].stage # "none"
      BY <1>3 DEF NoJob
    <3>2. job[q].id # job[r].id /\ result[<<life, job[q].id>>] = "open"
      BY <3>1 DEF JobsAreKept, IdsAreFresh
    <3>3. <<life, job[q].id>> \in Jobs
      BY <3>1, JobIsNamed
    <3> QED BY <1>2, <3>1, <3>2, <3>3
  <2>2. \A p, q \in Rows : job'[p].stage # "none" /\ job'[q].stage # "none"
                           /\ job'[p].id = job'[q].id => p = q
    BY <1>3 DEF JobsAreKept, IdsAreFresh, NoJob
  <2>3. \A j \in Jobs : j[1] > life' \/ (j[1] = life' /\ j[2] >= nextId') => result'[j] = "none"
    BY <1>1, <1>2 DEF JobsAreKept, IdsAreFresh
  <2>4. \A j \in Jobs, l \in Links :
          OpsOn(link[l], j)' # {} /\ link'[l].m # "gone" => j[1] = life'
    BY <1>4, CalmPlaces, CalmRefusesNone DEF JobsAreKept, IdsAreFresh
  <2>5. \A j \in Jobs : Refusing(j)' => result'[j] # "none" /\ ~Waiting(j)'
    BY <1>2, <1>5 DEF JobsAreKept, IdsAreFresh
  <2> QED BY <2>1, <2>2, <2>3, <2>4, <2>5 DEF IdsAreFresh
<1> QED BY <1>6, <1>7, <1>8 DEF JobsAreKept

LEMMA OverdueKeeps ==
  ASSUME TypeOK, TypeOK', JobsAreKept, NEW r \in Rows, JobOverdue(r)
  PROVE  JobsAreKept'
<1>1. /\ job[r].stage # "none" /\ job' = [job EXCEPT ![r] = NoJob]
      /\ UNCHANGED <<life, nextId, link, op, ran>>
  BY DEF JobOverdue
<1>2. job[r] \in [stage : {"waiting", "sent"}, id : 1..MaxJobs]
  BY <1>1 DEF TypeOK, MasterTypes, NoJob
<1>3. CalmStep /\ RowsLetGo
  BY <1>1, CalmNone DEF TypeOK, RowsLetGo
<1>4. CASE job[r].stage = "sent"
  <2>1. result' = [result EXCEPT ![<<life, job[r].id>>] = "noResult"]
    BY <1>4 DEF JobOverdue
  <2>2. "noResult" \notin NotRun
    BY DEF NotRun
  <2>3. JobsEndOnly
    BY <1>1, <2>1, <2>2, OneJobEnds
  <2> QED BY <1>1, <1>3, <2>3, CalmKeeps
<1>5. CASE job[r].stage = "waiting"
  <2>1. result' = [result EXCEPT ![<<life, job[r].id>>] = "notHandedOver"]
    BY <1>5 DEF JobOverdue
  <2>2. Waiting(<<life, job[r].id>>) /\ <<life, job[r].id>> \in Jobs
    BY <1>2, <1>5, JobNames DEF Waiting, TypeOK, MasterTypes
  <2>3. /\ ~OnWire(<<life, job[r].id>>) /\ ~Held(<<life, job[r].id>>)
        /\ <<life, job[r].id>> \notin ran
    BY <2>2 DEF JobsAreKept, NowhereYet
  <2> QED BY <1>1, <1>3, <2>1, <2>3, OneJobReturns
<1> QED BY <1>2, <1>4, <1>5

LEMMA AnswerKeeps ==
  ASSUME TypeOK, TypeOK', JobsAreKept, NEW r \in Rows, ReadOpState(r)
  PROVE  JobsAreKept'
<1> DEFINE it == <<life, job[r].id>>
<1>1. CalmStep /\ RowsLetGo /\ UNCHANGED <<life, nextId, op, ran>>
  BY CalmRead DEF ReadOpState, TypeOK, RowsLetGo
<1>2. /\ FromRow(r) \in ToMaster /\ FromRow(r).t = "OpState"
      /\ FromRow(r).phase \in {"running", "refused", "ok", "failed"}
  BY MasterReads, MessageTypes DEF ReadOpState, TypeOK
<1>3. CASE UNCHANGED <<job, result>>
  BY <1>1, <1>3, JobsUntouched, CalmKeeps
<1>4. CASE /\ Answers(r, FromRow(r)) /\ FromRow(r).phase # "running"
           /\ job' = [job EXCEPT ![r] = NoJob]
           /\ result' = [result EXCEPT ![<<life, job[r].id>>] = FromRow(r).phase]
  <2>1. job[r].stage # "none" /\ FromRow(r).id = job[r].id
    BY <1>4 DEF Answers
  <2>2. CASE FromRow(r).phase # "refused"
    <3>1. FromRow(r).phase \notin NotRun
      BY <1>2, <2>2 DEF NotRun
    <3>2. JobsEndOnly
      BY <1>4, <2>1, <3>1, OneJobEnds
    <3> QED BY <1>1, <3>2, CalmKeeps
  <2>3. CASE FromRow(r).phase = "refused"
    <3>1. it \in Jobs
      BY <2>1, JobNames DEF TypeOK, MasterTypes, NoJob
    <3>2. FromRow(r) = OpState(job[r].id, "refused")
      BY <1>2, <2>1, <2>3 DEF ToMaster, OpState
    <3>3. Refusal(link[conn[r]], job[r].id) /\ conn[r] \in Links
      <4>1. conn[r] \in Links /\ link[conn[r]].up # <<>> /\ link[conn[r]] \in Connections
        BY DEF ReadOpState, Arrived, TypeOK, MasterTypes, LinkTypes
      <4>2. link[conn[r]].up \in Seq(ToMaster)
        BY <4>1 DEF Connections
      <4>3. 1 \in DOMAIN link[conn[r]].up /\ link[conn[r]].up[1] = FromRow(r)
        BY <4>1, <4>2 DEF FromRow
      <4> QED BY <3>2, <4>1, <4>3 DEF Refusal
    <3>4. Refusing(it)
      BY <3>3 DEF Refusing
    <3>5. ~OnWire(it) /\ ~Held(it) /\ it \notin ran
      BY <3>1, <3>4 DEF JobsAreKept, NowhereYet
    <3> QED BY <1>1, <1>4, <2>1, <2>3, <3>5, OneJobReturns
  <2> QED BY <2>2, <2>3
<1> QED BY <1>3, <1>4 DEF ReadOpState

LEMMA OpsInjective == \A i, j \in Jobs : Op(i) = Op(j) => i = j
BY DEF Op

LEMMA DownOps ==
  ASSUME NEW c \in Connections, NEW it \in Jobs
  PROVE  /\ \A j \in Jobs \ {it} : OpsOn(Down(c, Op(it)), j) = OpsOn(c, j)
         /\ OpsOn(Down(c, Op(it)), it) \subseteq OpsOn(c, it) \cup {Len(c.down) + 1}
         /\ Down(c, Op(it)).up = c.up /\ Down(c, Op(it)).m = c.m
<1>1. CASE c.cut \/ ~c.held
  BY <1>1 DEF Down
<1>2. CASE ~(c.cut \/ ~c.held)
  <2>1. /\ Down(c, Op(it)).down = Append(c.down, Op(it))
        /\ Down(c, Op(it)).up = c.up /\ Down(c, Op(it)).m = c.m
    BY <1>2 DEF Down, Connections
  <2>2. c.down \in Seq(ToRow)
    BY DEF Connections
  <2>3. /\ DOMAIN Append(c.down, Op(it)) = 1..(Len(c.down) + 1) /\ Len(c.down) \in Nat
        /\ \A i \in 1..Len(c.down) : Append(c.down, Op(it))[i] = c.down[i]
        /\ Append(c.down, Op(it))[Len(c.down) + 1] = Op(it)
        /\ DOMAIN c.down = 1..Len(c.down)
    BY <2>2
  <2>4. ASSUME NEW j \in Jobs \ {it} PROVE OpsOn(Down(c, Op(it)), j) = OpsOn(c, j)
    <3>1. Op(it) # Op(j)
      BY OpsInjective
    <3> QED BY <2>1, <2>3, <3>1 DEF OpsOn
  <2>5. OpsOn(Down(c, Op(it)), it) \subseteq OpsOn(c, it) \cup {Len(c.down) + 1}
    BY <2>1, <2>3 DEF OpsOn
  <2> QED BY <2>1, <2>4, <2>5
<1> QED BY <1>1, <1>2

LEMMA SendKeeps ==
  ASSUME TypeOK, TypeOK', JobsAreKept, NEW r \in Rows, SendOp(r)
  PROVE  JobsAreKept'
<1> DEFINE it == <<life, job[r].id>>
           l0 == conn[r]
<1>1. /\ job[r].stage = "waiting" /\ job' = [job EXCEPT ![r].stage = "sent"]
      /\ l0 \in Links /\ link[l0] \in Connections
      /\ link' = [link EXCEPT ![l0] = Down(@, Op(it))]
      /\ UNCHANGED <<life, nextId, result, op, ran>>
  BY DEF SendOp, JobDue, Takes, Write, TypeOK, MasterTypes, LinkTypes
<1>2. it \in Jobs /\ Waiting(it)
  BY <1>1, JobNames DEF TypeOK, MasterTypes, NoJob, Waiting
<1>3. ~OnWire(it) /\ ~Held(it) /\ it \notin ran /\ result[it] \notin NotRun /\ ~Refusing(it)
  <2>1. result[it] = "open"
    BY <1>1 DEF JobsAreKept, IdsAreFresh
  <2>2. ~Refusing(it)
    BY <1>2 DEF JobsAreKept, IdsAreFresh
  <2> QED BY <1>2, <2>1, <2>2 DEF JobsAreKept, NowhereYet, NotRun
<1>4. job'[r].stage = "sent" /\ job'[r].id = job[r].id /\ \A q \in Rows \ {r} : job'[q] = job[q]
  <2>1. job[r] \in [stage : {"waiting", "sent"}, id : 1..MaxJobs]
    BY <1>1 DEF TypeOK, MasterTypes, NoJob
  <2> QED BY <1>1, <2>1 DEF TypeOK, MasterTypes
<1>5. /\ link'[l0] = Down(link[l0], Op(it)) /\ \A l \in Links \ {l0} : link'[l] = link[l]
  BY <1>1 DEF TypeOK, LinkTypes
<1>6. /\ \A l \in Links, j \in Jobs \ {it} : OpsOn(link'[l], j) = OpsOn(link[l], j)
      /\ \A l \in Links \ {l0} : OpsOn(link'[l], it) = {}
      /\ OpsOn(link'[l0], it) \subseteq {Len(link[l0].down) + 1}
      /\ \A l \in Links : link'[l].up = link[l].up /\ link'[l].m = link[l].m
  <2>1. \A l \in Links : OpsOn(link[l], it) = {}
    BY <1>3 DEF OnWire
  <2> HIDE DEF it, l0
  <2> QED BY <1>1, <1>2, <1>5, <2>1, DownOps, SMTT(30)
<1>7. \A j \in Jobs \ {it} : OnWire(j)' <=> OnWire(j)
  BY <1>6 DEF OnWire, OpsOn
<1>8. \A j \in Jobs : /\ Held(j)' <=> Held(j)
                      /\ Refusing(j)' <=> Refusing(j)
                      /\ Waiting(j)' => Waiting(j) /\ j # it
  <2>1. \A j \in Jobs : /\ Held(j)' <=> Held(j)
                        /\ Refusing(j)' <=> Refusing(j)
    BY <1>1, <1>6 DEF Held, Refusing, Refusal
  <2>2. \A q \in Rows : q # r /\ job[q].stage # "none" => job[q].id # job[r].id
    BY <1>1 DEF JobsAreKept, IdsAreFresh
  <2>3. \A j \in Jobs : Waiting(j)' => Waiting(j) /\ j # it
    BY <1>1, <1>4, <2>2 DEF Waiting
  <2> QED BY <2>1, <2>3
<1>9. NowhereYet'
  BY <1>1, <1>3, <1>7, <1>8 DEF JobsAreKept, NowhereYet
<1>10. InOnePlace'
  <2>1. \A j \in Jobs : OnWire(j)' => ~Held(j)' /\ j \notin ran'
    BY <1>1, <1>3, <1>7, <1>8 DEF JobsAreKept, InOnePlace
  <2>2. \A j \in Jobs, l, k \in Links :
          \A i \in OpsOn(link'[l], j), n \in OpsOn(link'[k], j) : l = k /\ i = n
    <3> HIDE DEF it, l0
    <3> SUFFICES ASSUME NEW j \in Jobs, NEW l \in Links, NEW k \in Links,
                        NEW i \in OpsOn(link'[l], j), NEW n \in OpsOn(link'[k], j)
                 PROVE  l = k /\ i = n
      OBVIOUS
    <3>1. CASE j = it
      BY <1>6, <3>1
    <3>2. CASE j # it
      BY <1>6, <3>2 DEF JobsAreKept, InOnePlace
    <3> QED BY <3>1, <3>2
  <2> QED BY <1>1, <2>1, <2>2 DEF JobsAreKept, InOnePlace, NoJobRunsTwice, OpsOn
<1>11. IdsAreFresh'
  <2>1. \A q \in Rows : /\ job'[q].stage # "none" => job[q].stage # "none"
                        /\ job'[q].id = job[q].id
    BY <1>1, <1>4
  <2>2. \A j \in Jobs, l \in Links : OpsOn(link'[l], j) # {} /\ link'[l].m # "gone" => j[1] = life
    BY <1>6 DEF JobsAreKept, IdsAreFresh
  <2> QED BY <1>1, <1>8, <2>1, <2>2, SMTT(30) DEF JobsAreKept, IdsAreFresh, OpsOn
<1> QED BY <1>9, <1>10, <1>11 DEF JobsAreKept

LEMMA TakesOpKeeps ==
  ASSUME TypeOK, TypeOK', JobsAreKept, NEW r \in Rows, RowTakesOp(r)
  PROVE  JobsAreKept'
<1> DEFINE it == FromMaster(r).job
           l0 == sock[r]
           read == ReadDown(link[l0])
<1>1. /\ l0 \in Links /\ link[l0] \in Connections /\ link[l0].down # <<>>
      /\ it \in Jobs /\ Head(link[l0].down) = Op(it) /\ FromMaster(r).id = it[2]
      /\ UNCHANGED <<life, nextId, result, job, ran>>
  <2>1. /\ l0 \in Links /\ link[l0] \in Connections
        /\ FromMaster(r) \in ToRow /\ FromMaster(r).t = "Op"
    BY RowReads DEF RowTakesOp, TypeOK
  <2> QED BY <2>1, MessageTypes DEF RowTakesOp, Told, FromMaster
<1>2. 1 \in OpsOn(link[l0], it) /\ OnWire(it)
  <2>1. link[l0].down \in Seq(ToRow)
    BY <1>1 DEF Connections
  <2>2. 1 \in DOMAIN link[l0].down /\ link[l0].down[1] = Op(it)
    BY <1>1, <2>1
  <2> QED BY <1>1, <2>2 DEF OpsOn, OnWire
<1>3. PICK ph \in {"running", "refused"} :
        /\ link' = [link EXCEPT ![l0] = Up(ReadDown(@), OpState(it[2], ph))]
        /\ \/ /\ ph = "running" /\ op[r].st = "none"
              /\ op' = [op EXCEPT ![r] = [st |-> "staged", job |-> it]]
           \/ ph = "refused" /\ UNCHANGED op
  BY <1>1 DEF RowTakesOp, Replies
<1> DEFINE answered == Up(read, OpState(it[2], ph))
<1>4. /\ read \in Connections /\ Calmer(link[l0], read) /\ read.down = Tail(link[l0].down)
      /\ answered \in Connections /\ answered.down = read.down /\ answered.m = read.m
      /\ answered.held = read.held
      /\ \A id \in 1..MaxJobs : Refusal(answered, id) =>
           Refusal(read, id) \/ (id = it[2] /\ ph = "refused" /\ read.m # "gone")
  <2>1. /\ read \in Connections /\ Calmer(link[l0], read) /\ read.down = Tail(link[l0].down)
    BY <1>1, EditTypes, CalmerRead DEF ReadDown, Connections
  <2>2. it[2] \in 1..MaxJobs
    BY <1>1 DEF Jobs
  <2>3. OpState(it[2], ph) \in ToMaster
    BY <2>2, SaidTypes
  <2> HIDE DEF read, it, l0
  <2>4. answered \in Connections
    BY <2>1, <2>3, HelperTypes
  <2>5. CASE read.cut \/ read.m = "gone"
    BY <2>1, <2>4, <2>5 DEF Up
  <2>6. CASE ~(read.cut \/ read.m = "gone")
    <3>1. /\ answered.up = Append(read.up, OpState(it[2], ph)) /\ answered.down = read.down
          /\ answered.m = read.m /\ read.up \in Seq(ToMaster) /\ answered.held = read.held
      BY <2>1, <2>6 DEF Up, Connections
    <3>2. \A i \in DOMAIN Append(read.up, OpState(it[2], ph)) :
            \/ i \in DOMAIN read.up /\ Append(read.up, OpState(it[2], ph))[i] = read.up[i]
            \/ Append(read.up, OpState(it[2], ph))[i] = OpState(it[2], ph)
      BY <3>1
    <3>3. \A id : OpState(it[2], ph) = OpState(id, "refused") => id = it[2] /\ ph = "refused"
      BY DEF OpState
    <3>4. \A id \in 1..MaxJobs : Refusal(answered, id) =>
             Refusal(read, id) \/ (id = it[2] /\ ph = "refused")
      BY <3>1, <3>2, <3>3 DEF Refusal
    <3> QED BY <2>1, <2>4, <2>6, <3>1, <3>4
  <2> QED BY <2>1, <2>5, <2>6
<1>5. /\ link'[l0] = answered /\ \A l \in Links \ {l0} : link'[l] = link[l]
  BY <1>1, <1>3 DEF TypeOK, LinkTypes
<1> HIDE DEF read, answered, it, l0
<1>6. \A l \in Links : OpsCalm(link[l], link'[l])
  <2>1. OpsCalm(link[l0], answered)
    BY <1>4 DEF Calmer, OpsCalm, OpsOn
  <2>2. \A l \in Links : OpsCalm(link[l], link[l])
    BY CalmerGone DEF Calmer, TypeOK, LinkTypes
  <2> QED BY <1>1, <1>5, <2>1, <2>2
<1>7. \A l \in Links : OpsOn(link'[l], it) = {}
  <2>1. \A l \in Links \ {l0} : OpsOn(link'[l], it) = {}
    BY <1>1, <1>2, <1>5 DEF JobsAreKept, InOnePlace
  <2>2. OpsOn(answered, it) = {}
    <3> SUFFICES ASSUME NEW i \in OpsOn(answered, it) PROVE FALSE
      OBVIOUS
    <3>1. link[l0].down \in Seq(ToRow)
      BY <1>1 DEF Connections
    <3>2. i \in DOMAIN Tail(link[l0].down) /\ Tail(link[l0].down)[i] = Op(it)
      BY <1>4 DEF OpsOn
    <3>3. i \in Nat \ {0} /\ i + 1 \in DOMAIN link[l0].down /\ link[l0].down[i + 1] = Op(it)
      BY <1>1, <3>1, <3>2
    <3>4. i + 1 \in OpsOn(link[l0], it)
      BY <3>3 DEF OpsOn
    <3>5. i + 1 = 1
      BY <1>1, <1>2, <3>4 DEF JobsAreKept, InOnePlace
    <3> QED BY <3>3, <3>5
  <2> QED BY <1>5, <2>1, <2>2
<1>8. \A j \in Jobs : OnWire(j)' => OnWire(j) /\ j # it
  BY <1>6, <1>7, WireUnique DEF JobsAreKept, OnWire, OpsOn
<1>9. ~Held(it) /\ it \notin ran /\ result[it] \notin NotRun /\ ~Waiting(it) /\ ~Refusing(it)
  BY <1>1, <1>2 DEF JobsAreKept, InOnePlace, NowhereYet
<1>10. \A j \in Jobs : Refusing(j)' => Refusing(j) \/ (j = it /\ ph = "refused")
  <2> TAKE j \in Jobs
  <2>1. j[2] \in 1..MaxJobs /\ j = <<j[1], j[2]>> /\ it = <<it[1], it[2]>>
    BY <1>1 DEF Jobs
  <2>2. ASSUME NEW l \in Links, j[1] = life, Refusal(link'[l], j[2])
        PROVE  Refusal(link[l], j[2]) \/ (j = it /\ ph = "refused")
    <3>1. CASE l # l0
      BY <1>5, <2>2, <3>1
    <3>2. CASE l = l0 /\ Refusal(read, j[2])
      BY <1>4, <2>1, <3>2, RefusalIsAnswer
    <3>3. CASE l = l0 /\ j[2] = it[2] /\ ph = "refused" /\ read.m # "gone"
      <4>1. read.m = link[l0].m
        BY <1>1 DEF read, ReadDown, Connections
      <4>2. it[1] = life
        BY <1>1, <1>2, <3>3, <4>1 DEF JobsAreKept, IdsAreFresh
      <4> QED BY <2>1, <2>2, <3>3, <4>2
    <3> QED BY <1>4, <1>5, <2>1, <2>2, <3>1, <3>2, <3>3
  <2> QED BY <1>1, <2>2 DEF Refusing, Refusal
<1>11. \A j \in Jobs : Waiting(j)' <=> Waiting(j)
  BY <1>1 DEF Waiting
<1>12. IdsAreFresh'
  <2>1. \A j \in Jobs, l \in Links :
          OpsOn(link'[l], j) # {} /\ link'[l].m # "gone" => j[1] = life
    BY <1>6 DEF JobsAreKept, IdsAreFresh, OpsCalm
  <2>2. \A j \in Jobs : Refusing(j)' => result'[j] # "none" /\ ~Waiting(j)'
    BY <1>1, <1>9, <1>10, <1>11 DEF JobsAreKept, IdsAreFresh, NotRun
  <2> QED BY <1>1, <2>1, <2>2 DEF JobsAreKept, IdsAreFresh, OpsOn
<1>13. CASE ph = "refused" /\ UNCHANGED op
  <2>1. \A j \in Jobs : Held(j)' <=> Held(j)
    BY <1>13 DEF Held
  <2>2. InOnePlace'
    BY <1>1, <1>6, <1>13, CalmUnique DEF JobsAreKept, RowsLetGo
  <2>3. NowhereYet'
    BY <1>1, <1>8, <1>9, <1>10, <1>11, <2>1 DEF JobsAreKept, NowhereYet
  <2> QED BY <1>12, <2>2, <2>3 DEF JobsAreKept
<1>14. CASE /\ ph = "running" /\ op[r].st = "none"
            /\ op' = [op EXCEPT ![r] = [st |-> "staged", job |-> it]]
  <2>1. /\ op'[r].st = "staged" /\ op'[r].job = it
        /\ \A q \in Rows \ {r} : op'[q] = op[q]
    BY <1>14 DEF TypeOK, RowTypes
  <2>2. \A j \in Jobs : Held(j)' => Held(j) \/ j = it
    BY <2>1 DEF Held
  <2>3. InOnePlace'
    <3>1. \A j \in Jobs : OnWire(j)' => ~Held(j)' /\ j \notin ran'
      BY <1>1, <1>8, <2>2 DEF JobsAreKept, InOnePlace
    <3>2. \A j \in Jobs, l, k \in Links :
            \A i \in OpsOn(link'[l], j), n \in OpsOn(link'[k], j) : l = k /\ i = n
      BY <1>6, WireUnique DEF JobsAreKept
    <3>3. \A q \in Rows \ {r} : ~(op[q].st # "none" /\ op[q].job = it)
      BY <1>9 DEF Held
    <3>4. \A p, q \in Rows :
            op'[p].st # "none" /\ op'[q].st # "none" /\ op'[p].job = op'[q].job => p = q
      BY <2>1, <3>3 DEF JobsAreKept, InOnePlace
    <3>5. NoJobRunsTwice'
      BY <1>1, <1>9, <2>1 DEF JobsAreKept, InOnePlace, NoJobRunsTwice
    <3> QED BY <3>1, <3>2, <3>4, <3>5 DEF InOnePlace, OpsOn
  <2>4. NowhereYet'
    BY <1>1, <1>8, <1>9, <1>10, <1>11, <1>14, <2>2 DEF JobsAreKept, NowhereYet
  <2> QED BY <1>12, <2>3, <2>4 DEF JobsAreKept
<1> QED BY <1>3, <1>13, <1>14

-----------------------------------------------------------------------------
\* Only three handlers write a job or an answer.
LEMMA StepCalm ==
  ASSUME TypeOK, [Next]_vars
  PROVE  CalmStep \/ \E r \in Rows : SendOp(r) \/ RowTakesOp(r) \/ RowReportsEnd(r)
<1>0. ASSUME link' = link PROVE CalmStep
  BY <1>0, CalmNone DEF TypeOK
<1>1. CASE UNCHANGED vars
  BY <1>0, <1>1 DEF vars
<1>2. CASE Next
  <2> SUFFICES ASSUME ~\E r \in Rows : SendOp(r) \/ RowTakesOp(r) \/ RowReportsEnd(r)
               PROVE  CalmStep
    OBVIOUS
  <2>1. ASSUME NEW r \in Rows, MasterStep(r) PROVE CalmStep
    <3>1. CASE ReadOpState(r)
      BY <3>1, CalmRead DEF ReadOpState, TypeOK
    <3> QED BY <2>1, <3>1, MasterStepCalm DEF MasterStep
  <2>2. ASSUME NEW r \in Rows, RowStep(r) PROVE CalmStep
    <3>1. CASE UnitJobStarts(r) \/ \E how \in {"ok", "failed"} : UnitJobEnds(r, how)
      BY <1>0, <3>1 DEF UnitJobStarts, UnitJobEnds
    <3> QED BY <2>2, <3>1, RowStepCalm DEF RowStep
  <2>3. ASSUME NEW r \in Rows, JobOverdue(r) PROVE CalmStep
    BY <1>0, <2>3 DEF JobOverdue
  <2>4. ASSUME NEW r \in Rows, Asked(r) PROVE CalmStep
    <3>1. CASE AskJob(r)
      BY <1>0, <3>1 DEF AskJob
    <3> QED BY <2>4, <3>1, AskedCalm DEF Asked
  <2>5. ASSUME NEW r \in Rows, Faulty(r) PROVE CalmStep
    BY <2>5, AskedCalm, RowStepCalm, RestartCalm DEF Faulty
  <2>6. ASSUME NEW l \in Links, OnLink(l) PROVE CalmStep
    BY <2>6, OnLinkCalm, HelloCalm DEF OnLink
  <2>7. ASSUME NEW k \in Kinds, ChangeSetting(k) PROVE CalmStep
    BY <2>7, AskedCalm
  <2>8. ASSUME NEW r \in Rows, NEW l \in Links, NEW a \in Addrs, Dial(r, l, a) PROVE CalmStep
    BY <2>8, AskedCalm
  <2>9. CASE RowsChanged \/ MasterRestarts
    <3>1. "wallChanged" \in Ends \ NotRun /\ "forgotten" \in Ends \ NotRun
      BY DEF Ends, NotRun
    <3> QED BY <2>9, <3>1, ForgetsCalm DEF RowsChanged, MasterRestarts
  <2> QED BY <1>2, <2>1, <2>2, <2>3, <2>4, <2>5, <2>6, <2>7, <2>8, <2>9 DEF Next
<1> QED BY <1>1, <1>2

-----------------------------------------------------------------------------
LEMMA InitKept == Init => JobsAreKept
<1> SUFFICES ASSUME Init PROVE JobsAreKept
  OBVIOUS
<1>1. \A l \in Links : link[l].up = <<>> /\ link[l].down = <<>>
  BY DEF Init, Free
<1>2. \A j \in Jobs : ~OnWire(j) /\ ~Held(j) /\ ~Waiting(j) /\ ~Refusing(j) /\ j \notin ran
  BY <1>1 DEF Init, OnWire, OpsOn, Held, Waiting, Refusing, Refusal, NoOp, NoJob
<1>3. \A r \in Rows : op[r].st = "none" /\ job[r].stage = "none"
  BY DEF Init, NoOp, NoJob
<1>4. \A j \in Jobs : result[j] = "none"
  BY DEF Init
<1> QED BY <1>1, <1>2, <1>3, <1>4
        DEF JobsAreKept, NowhereYet, InOnePlace, IdsAreFresh, NoJobRunsTwice, OpsOn

LEMMA StepKeeps == TypeOK /\ TypeOK' /\ JobsAreKept /\ [Next]_vars => JobsAreKept'
<1> SUFFICES ASSUME TypeOK, TypeOK', JobsAreKept, [Next]_vars PROVE JobsAreKept'
  OBVIOUS
<1>1. CASE UNCHANGED vars
  <2>1. CalmStep /\ UNCHANGED <<op, job, result, life, nextId, ran>>
    BY <1>1, CalmNone DEF vars, TypeOK
  <2> QED BY <2>1, JobsUntouched, CalmKeeps
<1>2. CASE Next
  <2>1. ASSUME NEW r \in Rows, MasterStep(r) PROVE JobsAreKept'
    BY <2>1, MasterStepKeeps, AnswerKeeps, SendKeeps DEF MasterStep
  <2>2. ASSUME NEW r \in Rows, RowStep(r) PROVE JobsAreKept'
    BY <2>2, RowStepKeeps, RowEndsKeep, TakesOpKeeps, StartsKeep DEF RowStep
  <2>3. ASSUME NEW r \in Rows, JobOverdue(r) PROVE JobsAreKept'
    BY <2>3, OverdueKeeps
  <2>4. ASSUME NEW r \in Rows, Asked(r) PROVE JobsAreKept'
    BY <2>4, AskKeeps, AskedKeeps DEF Asked
  <2>5. ASSUME NEW r \in Rows, Faulty(r) PROVE JobsAreKept'
    BY <2>5, AskedKeeps, RowStepKeeps, RowEndsKeep DEF Faulty
  <2>6. ASSUME NEW l \in Links, OnLink(l) PROVE JobsAreKept'
    BY <2>6, OnLinkKeeps, HelloKeeps
  <2> QED BY <1>2, <2>1, <2>2, <2>3, <2>4, <2>5, <2>6, AskedKeeps, ForgetsKeeps DEF Next
<1> QED BY <1>1, <1>2

\* A job is in one place and runs at most once, and one that the master still has,
\* that was given back or refused is nowhere: startJob, tick, handleOp, opTick.
THEOREM JobsKept == Spec => []JobsAreKept
<1>1. Init => JobsAreKept
  BY InitKept
<1>2. TypeOK /\ TypeOK' /\ JobsAreKept /\ [Next]_vars => JobsAreKept'
  BY StepKeeps
<1> QED BY <1>1, <1>2, TypesHold, PTL DEF Spec

\* A job reported as not handed over or refused has not run and never will.
THEOREM NotHandedNeverRuns == Spec => []NotHandedNeverRan
<1>1. JobsAreKept => NotHandedNeverRan
  BY DEF JobsAreKept, NowhereYet, NotHandedNeverRan, NotRun
<1> QED BY <1>1, JobsKept, PTL

\* No job is begun twice, over any breaks, restarts and lives of the master.
THEOREM RunsOnce == Spec => []NoJobRunsTwice
<1>1. JobsAreKept => NoJobRunsTwice
  BY DEF JobsAreKept, InOnePlace
<1> QED BY <1>1, JobsKept, PTL

-----------------------------------------------------------------------------
(* The answers of the rows.  What a row says ended has ended there, and a  *)
(* message carries the id of a job only: in a later life of the master an  *)
(* older job of that id may be meant.                                      *)
Report(m) == m.t = "OpState" /\ m.phase \in {"ok", "failed"}
DoneIn(jobs, n, id) == \E k \in 1..n : <<k, id>> \in jobs

\* A row's job has begun, or ended, where its state says so.
HistoryKept ==
  /\ done \subseteq ran
  /\ \A r \in Rows : /\ op[r].st \in {"running", "ok", "failed"} => op[r].job \in ran
                     /\ op[r].st \in {"ok", "failed"} => op[r].job \in done
\* What a row says, and what the master makes of it, is about a job that ended.
EndsAreSaid ==
  /\ \A l \in Links : \A m \in Words(link[l]) : Report(m) => DoneIn(done, life, m.id)
  /\ \A j \in Jobs : result[j] \in {"ok", "failed"} => DoneIn(done, j[1], j[2])
\* An open job is on its way to its row, or with it, in the very life of that row which
\* the master knows ...
OpenIsHere ==
  \A r \in Rows : job[r].stage # "none" =>
    /\ \A l \in Links : OpsOn(link[l], <<life, job[r].id>>) # {} =>
         sock[r] = l /\ boot[r] = knownBoot[r]
    /\ \A q \in Rows : op[q].st # "none" /\ op[q].job = <<life, job[r].id>> =>
         q = r /\ boot[r] = knownBoot[r]
\* ... so that a restart of the row leaves nothing of it.
RestartedIsGone == \A j \in Jobs : result[j] = "restarted" => ~OnWire(j) /\ ~Held(j)

\* The steps that touch what a row holds, what the master holds, who is where.
LEMMA RowsJobs ==
  ASSUME [Next]_vars
  PROVE  \/ UNCHANGED <<op, ran, done>>
         \/ \E r \in Rows : RowTakesOp(r) \/ UnitJobStarts(r) \/ RowReportsEnd(r) \/ RowRestarts(r)
                            \/ \E how \in {"ok", "failed"} : UnitJobEnds(r, how)
<1>1. CASE UNCHANGED vars
  BY <1>1 DEF vars
<1>2. CASE Next
  <2> SUFFICES ASSUME ~\E r \in Rows :
                         \/ RowTakesOp(r) \/ UnitJobStarts(r) \/ RowReportsEnd(r)
                         \/ RowRestarts(r) \/ \E how \in {"ok", "failed"} : UnitJobEnds(r, how)
               PROVE  UNCHANGED <<op, ran, done>>
    OBVIOUS
  <2>1. ASSUME NEW r \in Rows, MasterStep(r) PROVE UNCHANGED <<op, ran, done>>
    BY <2>1 DEF MasterStep, ReadStatus, ReadShown, ReadOpState, TellSetting, TellLog, SendShow,
                SendOp, Ping, vars
  <2>2. ASSUME NEW r \in Rows, RowStep(r) PROVE UNCHANGED <<op, ran, done>>
    <3>1. CASE \/ RowWelcomed(r) \/ RowTakesText(r) \/ RowTakesSetting(r)
               \/ RowTakesLogCtl(r) \/ RowSaysStatus(r) \/ RowSeesClosed(r)
      BY <3>1 DEF RowWelcomed, RowTakesText, RowTakesSetting, RowTakesLogCtl, RowSaysStatus,
                  RowSeesClosed
    <3> QED BY <2>2, <3>1 DEF RowStep
  <2>3. ASSUME NEW r \in Rows, JobOverdue(r) \/ Asked(r) PROVE UNCHANGED <<op, ran, done>>
    BY <2>3 DEF JobOverdue, Asked, AskJob, WantLog, SetText
  <2>4. ASSUME NEW r \in Rows, Faulty(r) PROVE UNCHANGED <<op, ran, done>>
    BY <2>4 DEF Faulty, DropSilent, RowGivesUp
  <2>5. ASSUME NEW r \in Rows, NEW l \in Links, NEW a \in Addrs, Dial(r, l, a)
        PROVE  UNCHANGED <<op, ran, done>>
    BY <2>5 DEF Dial
  <2>6. ASSUME NEW l \in Links, OnLink(l) PROVE UNCHANGED <<op, ran, done>>
    BY <2>6 DEF OnLink, Accept, HelloTimeout, SeesClosed, ReadHello, StrangerCloses,
                StrangerDials, Break
  <2>7. ASSUME NEW k \in Kinds, ChangeSetting(k) PROVE UNCHANGED <<op, ran, done>>
    BY <2>7 DEF ChangeSetting
  <2>8. ASSUME RowsChanged \/ MasterRestarts PROVE UNCHANGED <<op, ran, done>>
    BY <2>8 DEF RowsChanged, MasterRestarts
  <2> QED BY <1>2, <2>1, <2>2, <2>3, <2>4, <2>5, <2>6, <2>7, <2>8 DEF Next
<1> QED BY <1>1, <1>2

LEMMA MastersJobs ==
  ASSUME [Next]_vars
  PROVE  \/ UNCHANGED <<life, job, result, nextId, knownBoot>>
         \/ \E r \in Rows : ReadOpState(r) \/ SendOp(r) \/ AskJob(r) \/ JobOverdue(r)
         \/ (\E l \in Links : ReadHello(l)) \/ RowsChanged \/ MasterRestarts
<1> DEFINE Kept == UNCHANGED <<life, job, result, nextId, knownBoot>>
<1>1. CASE UNCHANGED vars
  BY <1>1 DEF vars
<1>2. CASE Next
  <2> SUFFICES ASSUME ~\E r \in Rows : ReadOpState(r) \/ SendOp(r) \/ AskJob(r) \/ JobOverdue(r),
                      ~\E l \in Links : ReadHello(l), ~RowsChanged, ~MasterRestarts
               PROVE  UNCHANGED <<life, job, result, nextId, knownBoot>>
    OBVIOUS
  <2>1. ASSUME NEW r \in Rows, MasterStep(r) PROVE Kept
    BY <2>1 DEF MasterStep, ReadStatus, ReadShown, TellSetting, TellLog, SendShow, Ping, vars
  <2>2. ASSUME NEW r \in Rows, RowStep(r) PROVE Kept
    BY <2>2 DEF RowStep, RowWelcomed, RowTakesText, RowTakesSetting, RowTakesLogCtl, RowSaysStatus,
                RowSeesClosed, RowTakesOp, UnitJobStarts, UnitJobEnds, RowReportsEnd
  <2>3. ASSUME NEW r \in Rows, Asked(r) PROVE Kept
    BY <2>3 DEF Asked, WantLog, SetText
  <2>4. ASSUME NEW r \in Rows, Faulty(r) PROVE Kept
    BY <2>4 DEF Faulty, DropSilent, RowGivesUp, RowRestarts
  <2>5. ASSUME NEW r \in Rows, NEW l \in Links, NEW a \in Addrs, Dial(r, l, a) PROVE Kept
    BY <2>5 DEF Dial
  <2>6. ASSUME NEW l \in Links, OnLink(l) PROVE Kept
    BY <2>6 DEF OnLink, Accept, HelloTimeout, SeesClosed, StrangerCloses, StrangerDials, Break
  <2>7. ASSUME NEW k \in Kinds, ChangeSetting(k) PROVE Kept
    BY <2>7 DEF ChangeSetting
  <2> QED BY <1>2, <2>1, <2>2, <2>3, <2>4, <2>5, <2>6, <2>7 DEF Next
<1> QED BY <1>1, <1>2

LEMMA RowsPlaces ==
  ASSUME [Next]_vars
  PROVE  \/ UNCHANGED <<sock, boot>>
         \/ \E r \in Rows : \/ \E l \in Links, a \in Addrs : Dial(r, l, a)
                            \/ RowSeesClosed(r) \/ RowGivesUp(r) \/ RowRestarts(r)
<1>1. CASE UNCHANGED vars
  BY <1>1 DEF vars
<1>2. CASE Next
  <2> SUFFICES ASSUME ~\E r \in Rows : \/ \E l \in Links, a \in Addrs : Dial(r, l, a)
                                       \/ RowSeesClosed(r) \/ RowGivesUp(r) \/ RowRestarts(r)
               PROVE  UNCHANGED <<sock, boot>>
    OBVIOUS
  <2>1. ASSUME NEW r \in Rows, MasterStep(r) PROVE UNCHANGED <<sock, boot>>
    BY <2>1 DEF MasterStep, ReadStatus, ReadShown, ReadOpState, TellSetting, TellLog, SendShow,
                SendOp, Ping, vars
  <2>2. ASSUME NEW r \in Rows, RowStep(r) PROVE UNCHANGED <<sock, boot>>
    BY <2>2 DEF RowStep, RowWelcomed, RowTakesText, RowTakesSetting, RowTakesLogCtl, RowSaysStatus,
                RowTakesOp, UnitJobStarts, UnitJobEnds, RowReportsEnd
  <2>3. ASSUME NEW r \in Rows, JobOverdue(r) \/ Asked(r) \/ Faulty(r) PROVE UNCHANGED <<sock, boot>>
    BY <2>3 DEF JobOverdue, Asked, AskJob, WantLog, SetText, Faulty, DropSilent
  <2>4. ASSUME NEW l \in Links, OnLink(l) PROVE UNCHANGED <<sock, boot>>
    BY <2>4 DEF OnLink, Accept, HelloTimeout, SeesClosed, ReadHello, StrangerCloses,
                StrangerDials, Break
  <2>5. ASSUME NEW k \in Kinds, ChangeSetting(k) PROVE UNCHANGED <<sock, boot>>
    BY <2>5 DEF ChangeSetting
  <2>6. ASSUME RowsChanged \/ MasterRestarts PROVE UNCHANGED <<sock, boot>>
    BY <2>6 DEF RowsChanged, MasterRestarts
  <2> QED BY <1>2, <2>1, <2>2, <2>3, <2>4, <2>5, <2>6 DEF Next
<1> QED BY <1>1, <1>2

LEMMA HistoryStep ==
  ASSUME TypeOK, TypeOK', HistoryKept, [Next]_vars PROVE HistoryKept'
<1> USE DEF TypeOK
<1>1. CASE UNCHANGED <<op, ran, done>>
  BY <1>1 DEF HistoryKept
<1>2. ASSUME NEW r \in Rows, RowTakesOp(r) PROVE HistoryKept'
  <2>1. /\ \A q \in Rows \ {r} : op'[q] = op[q]
        /\ op'[r] = op[r] \/ op'[r].st = "staged"
        /\ UNCHANGED <<ran, done>>
    BY <1>2 DEF RowTakesOp, RowTypes
  <2> QED BY <2>1 DEF HistoryKept
<1>3. ASSUME NEW r \in Rows, UnitJobStarts(r) PROVE HistoryKept'
  <2>1. /\ \A q \in Rows \ {r} : op'[q] = op[q]
        /\ op'[r].st = "running" /\ op'[r].job = op[r].job
        /\ ran' = ran \cup {op[r].job} /\ UNCHANGED done
    BY <1>3 DEF UnitJobStarts, RowTypes, NoOp
  <2> QED BY <2>1 DEF HistoryKept
<1>4. ASSUME NEW r \in Rows, NEW how \in {"ok", "failed"}, UnitJobEnds(r, how) PROVE HistoryKept'
  <2>1. /\ \A q \in Rows \ {r} : op'[q] = op[q]
        /\ op[r].st = "running" /\ op'[r].job = op[r].job
        /\ done' = done \cup {op[r].job} /\ UNCHANGED ran
    BY <1>4 DEF UnitJobEnds, RowTypes, NoOp
  <2> QED BY <2>1 DEF HistoryKept
<1>5. ASSUME NEW r \in Rows, RowReportsEnd(r) \/ RowRestarts(r) PROVE HistoryKept'
  <2>1. /\ \A q \in Rows \ {r} : op'[q] = op[q]
        /\ op'[r].st = "none" /\ UNCHANGED <<ran, done>>
    BY <1>5 DEF RowReportsEnd, RowRestarts, RowTypes, NoOp
  <2> QED BY <2>1 DEF HistoryKept
<1> QED BY <1>1, <1>2, <1>3, <1>4, <1>5, RowsJobs

\* Nothing that ended is forgotten, and the lives are counted upwards.
LEMMA DoneStays ==
  ASSUME TypeOK, TypeOK', [Next]_vars
  PROVE  /\ done \subseteq done' /\ life <= life'
         /\ \A n \in Nat : \A id : DoneIn(done, n, id) => DoneIn(done', n, id)
         /\ \A id : DoneIn(done, life, id) => DoneIn(done', life', id)
<1>1. done \subseteq done'
  <2>1. ASSUME NEW r \in Rows,
               \/ RowTakesOp(r) \/ UnitJobStarts(r) \/ RowReportsEnd(r) \/ RowRestarts(r)
               \/ \E how \in {"ok", "failed"} : UnitJobEnds(r, how)
        PROVE  done \subseteq done'
    BY <2>1 DEF RowTakesOp, UnitJobStarts, RowReportsEnd, RowRestarts, UnitJobEnds
  <2> QED BY <2>1, RowsJobs
<1>2. life \in Nat /\ life' \in Nat
  BY DEF TypeOK, MasterTypes
<1>3. life <= life'
  <2>1. CASE UNCHANGED life
    BY <1>2, <2>1
  <2>2. ASSUME NEW r \in Rows, ReadOpState(r) \/ SendOp(r) \/ AskJob(r) \/ JobOverdue(r)
        PROVE  UNCHANGED life
    BY <2>2 DEF ReadOpState, SendOp, AskJob, JobOverdue
  <2>3. ASSUME NEW l \in Links, ReadHello(l) PROVE UNCHANGED life
    BY <2>3 DEF ReadHello
  <2>4. ASSUME RowsChanged PROVE UNCHANGED life
    BY <2>4 DEF RowsChanged
  <2>5. ASSUME MasterRestarts PROVE life <= life'
    BY <1>2, <2>5 DEF MasterRestarts
  <2> QED BY <2>1, <2>2, <2>3, <2>4, <2>5, MastersJobs
<1>4. \A k \in 1..life : k \in 1..life'
  BY <1>2, <1>3
<1>5. \A n \in Nat : \A id : DoneIn(done, n, id) => DoneIn(done', n, id)
  BY <1>1 DEF DoneIn
<1>6. \A id : DoneIn(done, life, id) => DoneIn(done', life', id)
  BY <1>1, <1>4 DEF DoneIn
<1> QED BY <1>1, <1>3, <1>5, <1>6

\* A row takes the job that is first on its connection, and says that it runs or not.
LEMMA TakenFacts ==
  ASSUME TypeOK, NEW r \in Rows, RowTakesOp(r)
  PROVE  /\ sock[r] \in Links /\ FromMaster(r).job \in Jobs
         /\ OpsOn(link[sock[r]], FromMaster(r).job) # {}
         /\ \A l \in Links : /\ OpsCalm(link[l], link'[l])
                             /\ \A m \in Words(link'[l]) : Report(m) => m \in Words(link[l])
         /\ \A q \in Rows : \/ op'[q] = op[q]
                            \/ q = r /\ op'[q].st = "staged" /\ op'[q].job = FromMaster(r).job
<1> USE DEF TypeOK
<1> DEFINE it == FromMaster(r).job
           l0 == sock[r]
           read == ReadDown(link[l0])
<1>1. /\ l0 \in Links /\ link[l0] \in Connections /\ link[l0].down # <<>>
      /\ it \in Jobs /\ Head(link[l0].down) = Op(it) /\ FromMaster(r).id = it[2]
  <2>1. /\ l0 \in Links /\ link[l0] \in Connections
        /\ FromMaster(r) \in ToRow /\ FromMaster(r).t = "Op"
    BY RowReads DEF RowTakesOp
  <2> QED BY <2>1, MessageTypes DEF RowTakesOp, Told, FromMaster
<1>2. OpsOn(link[l0], it) # {}
  <2>1. link[l0].down \in Seq(ToRow)
    BY <1>1 DEF Connections
  <2>2. 1 \in DOMAIN link[l0].down /\ link[l0].down[1] = Op(it)
    BY <1>1, <2>1
  <2> QED BY <2>2 DEF OpsOn
<1>3. PICK ph \in {"running", "refused"} :
        link' = [link EXCEPT ![l0] = Up(ReadDown(@), OpState(it[2], ph))]
  BY <1>1 DEF RowTakesOp, Replies
<1>4. read \in Connections /\ Calmer(link[l0], read)
  BY <1>1, EditTypes, CalmerRead
<1>5. OpState(it[2], ph) \in ToMaster /\ ~Report(OpState(it[2], ph))
  <2>1. it[2] \in 1..MaxJobs
    BY <1>1 DEF Jobs
  <2>2. OpState(it[2], ph) \in ToMaster
    BY <2>1, SaidTypes
  <2>3. ~Report(OpState(it[2], ph))
    BY DEF Report, OpState
  <2> QED BY <2>2, <2>3
<1> DEFINE msg == OpState(it[2], ph)
<1> HIDE DEF msg, read
<1>6. /\ \A j : OpsOn(Up(read, msg), j) = OpsOn(read, j)
      /\ Up(read, msg).m = read.m /\ Up(read, msg).held = read.held
      /\ Words(Up(read, msg)) \subseteq Words(read) \cup {msg}
  BY <1>4, <1>5, UpWords DEF msg, OpsOn
<1>7. OpsCalm(link[l0], Up(read, msg))
  BY <1>4, <1>6 DEF Calmer, OpsCalm
<1>8. \A m \in Words(Up(read, msg)) : Report(m) => m \in Words(link[l0])
  <2>1. \A m : Report(m) => Answer(m)
    BY DEF Report, Answer
  <2> QED BY <1>4, <1>5, <1>6, <2>1 DEF Calmer, msg
<1>9. \A l \in Links : link'[l] = IF l = l0 THEN Up(read, msg) ELSE link[l]
  BY <1>1, <1>3 DEF LinkTypes, read, msg
<1>10. \A l \in Links : OpsCalm(link[l], link[l])
  BY CalmerGone DEF Calmer, LinkTypes
<1>11. \A q \in Rows : \/ op'[q] = op[q]
                       \/ q = r /\ op'[q].st = "staged" /\ op'[q].job = it
  BY DEF RowTakesOp, RowTypes
<1> HIDE DEF it, l0
<1>12. \A l \in Links : /\ OpsCalm(link[l], link'[l])
                        /\ \A m \in Words(link'[l]) : Report(m) => m \in Words(link[l])
  BY <1>7, <1>8, <1>9, <1>10
<1> QED BY <1>1, <1>2, <1>11, <1>12 DEF it, l0

\* The next message of a row, among those on its way.
LEMMA ReadIsWord ==
  ASSUME TypeOK, NEW r \in Rows, NEW t, Arrived(r, t)
  PROVE  conn[r] \in Links /\ FromRow(r) \in Words(link[conn[r]])
<1>1. conn[r] \in Links /\ link[conn[r]].up # <<>> /\ link[conn[r]] \in Connections
  BY DEF Arrived, TypeOK, MasterTypes, LinkTypes
<1>2. link[conn[r]].up \in Seq(ToMaster)
  BY <1>1 DEF Connections
<1>3. 1 \in DOMAIN link[conn[r]].up /\ link[conn[r]].up[1] = FromRow(r)
  BY <1>1, <1>2 DEF FromRow
<1> QED BY <1>1, <1>3 DEF Words

\* The life an existing job belongs to has begun.
LEMMA JobsArePast ==
  ASSUME TypeOK, JobsAreKept
  PROVE  \A r \in Rows : op[r].st # "none" => op[r].job \in Jobs /\ op[r].job[1] \in 1..life
<1> TAKE r \in Rows
<1>1. ASSUME op[r].st # "none" PROVE op[r].job \in Jobs /\ op[r].job[1] \in 1..life
  <2>1. op[r].job \in Jobs
    BY <1>1 DEF TypeOK, RowTypes, NoOp
  <2>2. Held(op[r].job)
    BY <1>1 DEF Held
  <2>3. ~(op[r].job[1] > life)
    BY <2>1, <2>2 DEF JobsAreKept, NowhereYet, IdsAreFresh, NotRun
  <2>4. op[r].job[1] \in Nat \ {0} /\ life \in Nat
    BY <2>1 DEF Jobs, TypeOK, MasterTypes
  <2> QED BY <2>1, <2>3, <2>4
<1> QED BY <1>1

LEMMA ReportsStep ==
  ASSUME TypeOK, TypeOK', JobsAreKept, HistoryKept, EndsAreSaid, [Next]_vars
  PROVE  \A l \in Links : \A m \in Words(link'[l]) : Report(m) => DoneIn(done', life', m.id)
<1> USE DEF TypeOK
<1>0. \A m : Report(m) => Answer(m)
  BY DEF Report, Answer
<1>1. ASSUME \A l \in Links : \A m \in Words(link'[l]) : Report(m) => m \in Words(link[l])
      PROVE  \A l \in Links : \A m \in Words(link'[l]) : Report(m) => DoneIn(done', life', m.id)
  BY <1>1, DoneStays DEF EndsAreSaid
<1>2. CASE CalmStep
  BY <1>0, <1>1, <1>2 DEF CalmStep, Calmer
<1>3. ASSUME NEW r \in Rows, SendOp(r)
      PROVE  \A l \in Links : \A m \in Words(link'[l]) : Report(m) => m \in Words(link[l])
  <2> DEFINE it == <<life, job[r].id>>
             l0 == conn[r]
  <2>1. /\ job[r].stage = "waiting" /\ l0 \in Links /\ link[l0] \in Connections
        /\ link' = [link EXCEPT ![l0] = Down(@, Op(it))]
    BY <1>3 DEF SendOp, JobDue, Takes, Write, MasterTypes, LinkTypes
  <2>2. it \in Jobs
    <3>1. job[r].id \in 1..MaxJobs
      BY <2>1 DEF MasterTypes, NoJob
    <3> QED BY <3>1, JobNames DEF MasterTypes
  <2> HIDE DEF it, l0
  <2>3. \A l \in Links : link'[l].up = link[l].up
    BY <2>1, <2>2, DownOps DEF LinkTypes
  <2> QED BY <2>3 DEF Words
<1>4. ASSUME NEW r \in Rows, RowTakesOp(r)
      PROVE  \A l \in Links : \A m \in Words(link'[l]) : Report(m) => m \in Words(link[l])
  BY <1>4, TakenFacts
<1>5. ASSUME NEW r \in Rows, RowReportsEnd(r)
      PROVE  \A l \in Links : \A m \in Words(link'[l]) : Report(m) => DoneIn(done', life', m.id)
  <2> DEFINE msg == OpState(op[r].job[2], op[r].st)
             l0  == sock[r]
  <2>1. /\ op[r].st \in {"ok", "failed"} /\ l0 \in Links
        /\ link' = [link EXCEPT ![l0] = Up(@, msg)]
    BY <1>5 DEF RowReportsEnd, Writes, Says, RowTypes, LinkTypes
  <2>2. op[r].job \in Jobs /\ op[r].job[1] \in 1..life /\ op[r].job \in done
    BY <2>1, JobsArePast DEF HistoryKept
  <2>3. msg \in ToMaster /\ msg.id = op[r].job[2]
    <3>1. op[r].job[2] \in 1..MaxJobs
      BY <2>2 DEF Jobs
    <3> QED BY <2>1, <3>1, SaidTypes DEF OpState
  <2>4. DoneIn(done, life, msg.id)
    <3>1. op[r].job = <<op[r].job[1], op[r].job[2]>>
      BY <2>2 DEF Jobs
    <3> QED BY <2>2, <2>3, <3>1 DEF DoneIn
  <2>5. DoneIn(done', life', msg.id)
    BY <2>4, DoneStays
  <2> HIDE DEF msg, l0
  <2>6. \A l \in Links : link'[l] = IF l = l0 THEN Up(link[l], msg) ELSE link[l]
    BY <2>1 DEF LinkTypes
  <2>7. \A l \in Links : Words(link'[l]) \subseteq Words(link[l]) \cup {msg}
    BY <2>3, <2>6, UpWords DEF LinkTypes
  <2>8. \A l \in Links : \A m \in Words(link[l]) : Report(m) => DoneIn(done', life', m.id)
    BY DoneStays DEF EndsAreSaid
  <2> QED BY <2>5, <2>7, <2>8
<1> QED BY <1>1, <1>2, <1>3, <1>4, <1>5, StepCalm

LEMMA AnswersStep ==
  ASSUME TypeOK, TypeOK', JobsAreKept, EndsAreSaid, [Next]_vars
  PROVE  \A j \in Jobs : result'[j] \in {"ok", "failed"} => DoneIn(done', j[1], j[2])
<1> USE DEF TypeOK
<1>0. ASSUME \A j \in Jobs : result'[j] = result[j] \/ result'[j] \notin {"ok", "failed"}
      PROVE  \A j \in Jobs : result'[j] \in {"ok", "failed"} => DoneIn(done', j[1], j[2])
  <2>1. \A j \in Jobs : j[1] \in Nat
    BY DEF Jobs
  <2> QED BY <1>0, <2>1, DoneStays DEF EndsAreSaid
<1>1. CASE UNCHANGED result
  BY <1>0, <1>1
<1>2. ASSUME NEW r \in Rows, ReadOpState(r)
      PROVE  \A j \in Jobs : result'[j] \in {"ok", "failed"} => DoneIn(done', j[1], j[2])
  <2> DEFINE it == <<life, job[r].id>>
  <2>1. CASE UNCHANGED result
    BY <1>0, <2>1
  <2>2. CASE /\ Answers(r, FromRow(r)) /\ FromRow(r).phase # "running"
             /\ result' = [result EXCEPT ![it] = FromRow(r).phase]
    <3>1. conn[r] \in Links /\ FromRow(r) \in Words(link[conn[r]]) /\ FromRow(r).t = "OpState"
      BY <1>2, ReadIsWord DEF ReadOpState, Arrived, FromRow
    <3>2. FromRow(r).id = job[r].id /\ it[1] = life /\ it[2] = job[r].id
      BY <2>2 DEF Answers
    <3>3. FromRow(r).phase \in {"ok", "failed"} => DoneIn(done', life', job[r].id)
      BY <3>1, <3>2, DoneStays DEF EndsAreSaid, Report
    <3>4. UNCHANGED life
      BY <1>2 DEF ReadOpState
    <3> HIDE DEF it
    <3>5. \A j \in Jobs : result'[j] = IF j = it THEN FromRow(r).phase ELSE result[j]
      BY <2>2 DEF MasterTypes
    <3>6. \A j \in Jobs \ {it} : result[j] \in {"ok", "failed"} => DoneIn(done', j[1], j[2])
      <4>1. \A j \in Jobs : j[1] \in Nat
        BY DEF Jobs
      <4> QED BY <4>1, DoneStays DEF EndsAreSaid
    <3>7. FromRow(r).phase \in {"ok", "failed"} => DoneIn(done', it[1], it[2])
      BY <3>2, <3>3, <3>4 DEF DoneIn
    <3> QED BY <3>5, <3>6, <3>7
  <2> QED BY <1>2, <2>1, <2>2 DEF ReadOpState
<1>3. ASSUME NEW r \in Rows, SendOp(r) \/ AskJob(r) \/ JobOverdue(r)
      PROVE  \A j \in Jobs : result'[j] = result[j] \/ result'[j] \notin {"ok", "failed"}
  BY <1>3 DEF SendOp, AskJob, JobOverdue, MasterTypes
<1>4. ASSUME NEW l \in Links, ReadHello(l)
      PROVE  \A j \in Jobs : result'[j] = result[j] \/ result'[j] \notin {"ok", "failed"}
  <2>1. \/ UNCHANGED result
        \/ \E r : result' = [result EXCEPT ![<<life, job[r].id>>] = "restarted"]
    BY <1>4 DEF ReadHello
  <2> QED BY <2>1 DEF MasterTypes
<1>5. ASSUME RowsChanged \/ MasterRestarts
      PROVE  \A j \in Jobs : result'[j] = result[j] \/ result'[j] \notin {"ok", "failed"}
  BY <1>5 DEF RowsChanged, MasterRestarts, ForgetsRows
<1> QED BY <1>0, <1>1, <1>2, <1>3, <1>4, <1>5, MastersJobs

\* A row says of a job that it ended only once it did (opTick), and the master believes it
\* of the job with that id (wallJobAnswer): in its own life or an earlier one of the master,
\* a job of that id was run to its end, whatever breaks and restarts.
THEOREM EndsAreOfTheirId == Spec => [](HistoryKept /\ EndsAreSaid)
<1>1. Init => HistoryKept /\ EndsAreSaid
  <2> SUFFICES ASSUME Init PROVE HistoryKept /\ EndsAreSaid
    OBVIOUS
  <2>1. \A r \in Rows : op[r].st = "none"
    BY DEF Init, NoOp
  <2>2. \A l \in Links : Words(link[l]) = {}
    <3>1. \A l \in Links : link[l].up = <<>>
      BY DEF Init, Free
    <3> QED BY <3>1 DEF Words
  <2>3. \A j \in Jobs : result[j] = "none"
    BY DEF Init
  <2>4. done = {} /\ ran = {}
    BY DEF Init
  <2> QED BY <2>1, <2>2, <2>3, <2>4 DEF HistoryKept, EndsAreSaid
<1>2. /\ TypeOK /\ TypeOK' /\ JobsAreKept /\ HistoryKept /\ EndsAreSaid /\ [Next]_vars
      => HistoryKept' /\ EndsAreSaid'
  <2> SUFFICES ASSUME TypeOK, TypeOK', JobsAreKept, HistoryKept, EndsAreSaid, [Next]_vars
               PROVE  HistoryKept' /\ EndsAreSaid'
    OBVIOUS
  <2>1. HistoryKept'
    BY HistoryStep
  <2>2. EndsAreSaid'
    BY ReportsStep, AnswersStep DEF EndsAreSaid, Words, DoneIn
  <2> QED BY <2>1, <2>2
<1> QED BY <1>1, <1>2, TypesHold, JobsKept, PTL DEF Spec

\* While the master does not start anew, a job it reports as ended was run to its end.
THEOREM AnswersOfALife == MasterLives = 1 => (Spec => []AnswersAreTrue)
<1> SUFFICES ASSUME MasterLives = 1 PROVE Spec => []AnswersAreTrue
  OBVIOUS
<1>1. EndsAreSaid => AnswersAreTrue
  <2> SUFFICES ASSUME EndsAreSaid, NEW j \in Jobs, result[j] \in {"ok", "failed"}
               PROVE  j \in done
    BY DEF AnswersAreTrue
  <2>1. j = <<1, j[2]>> /\ j[1] = 1
    BY DEF Jobs
  <2>2. PICK k \in 1..1 : <<k, j[2]>> \in done
    BY <2>1 DEF EndsAreSaid, DoneIn
  <2> QED BY <2>1, <2>2
<1> QED BY <1>1, EndsAreOfTheirId, PTL

-----------------------------------------------------------------------------
(* A job is on its way to the row it was begun for, or with it, and a      *)
(* restart of that row ends it for good.                                   *)
LEMMA ClearedDown ==
  ASSUME NEW c \in Connections PROVE DialerLetsGo(c).down = <<>>
<1>1. CASE c.m = "gone"
  BY <1>1 DEF DialerLetsGo, Free
<1>2. CASE c.m # "gone"
  BY <1>2 DEF DialerLetsGo, Connections
<1> QED BY <1>1, <1>2

\* Steps that move no job, no row and no row's boot id.
LEMMA HereQuiet ==
  ASSUME TypeOK, TypeOK', OpenIsHere, RestartedIsGone,
         \A l \in Links : OpsCalm(link[l], link'[l]), RowsLetGo,
         UNCHANGED <<sock, boot, knownBoot, life>>,
         \A r \in Rows : job'[r].stage # "none" => job[r].stage # "none" /\ job'[r].id = job[r].id,
         \A j \in Jobs : result'[j] = "restarted" => result[j] = "restarted"
  PROVE  OpenIsHere' /\ RestartedIsGone'
<1>1. \A j \in Jobs, l \in Links : OpsOn(link'[l], j) # {} => OpsOn(link[l], j) # {}
  BY DEF OpsCalm
<1>2. OpenIsHere'
  <2> SUFFICES ASSUME NEW r \in Rows, job'[r].stage # "none"
               PROVE  /\ \A l \in Links : OpsOn(link'[l], <<life', job'[r].id>>) # {} =>
                           sock'[r] = l /\ boot'[r] = knownBoot'[r]
                      /\ \A q \in Rows : op'[q].st # "none" /\ op'[q].job = <<life', job'[r].id>> =>
                           q = r /\ boot'[r] = knownBoot'[r]
    BY DEF OpenIsHere, OpsOn
  <2>1. job[r].stage # "none" /\ job'[r].id = job[r].id /\ <<life, job[r].id>> \in Jobs
    BY JobIsNamed
  <2>2. \A l \in Links : OpsOn(link'[l], <<life', job'[r].id>>) # {} =>
          sock'[r] = l /\ boot'[r] = knownBoot'[r]
    BY <1>1, <2>1 DEF OpenIsHere
  <2>3. \A q \in Rows : op'[q].st # "none" /\ op'[q].job = <<life', job'[r].id>> =>
          q = r /\ boot'[r] = knownBoot'[r]
    BY <2>1 DEF OpenIsHere, RowsLetGo
  <2> QED BY <2>2, <2>3
<1>3. \A j \in Jobs : (OnWire(j)' => OnWire(j)) /\ (Held(j)' => Held(j))
  BY <1>1 DEF OnWire, OpsOn, Held, RowsLetGo
<1> QED BY <1>2, <1>3 DEF RestartedIsGone

LEMMA HereAsked ==
  ASSUME TypeOK, TypeOK', JobsAreKept, OpenIsHere, RestartedIsGone, NEW r \in Rows, AskJob(r)
  PROVE  OpenIsHere' /\ RestartedIsGone'
<1> DEFINE it == <<life, nextId>>
<1>1. /\ job' = [job EXCEPT ![r] = [stage |-> "waiting", id |-> nextId]]
      /\ result' = [result EXCEPT ![it] = "open"]
      /\ nextId \in 1..MaxJobs
      /\ UNCHANGED <<life, link, op, sock, boot, knownBoot>>
  BY DEF AskJob, TypeOK, MasterTypes
<1>2. it \in Jobs /\ it[1] = life /\ it[2] = nextId /\ nextId \in Nat /\ life \in Nat
  BY <1>1, JobNames DEF TypeOK, MasterTypes
<1>3. result[it] = "none"
  BY <1>2 DEF JobsAreKept, IdsAreFresh
<1>4. ~OnWire(it) /\ ~Held(it)
  BY <1>2, <1>3 DEF JobsAreKept, NowhereYet, NotRun
<1>5. \A q \in Rows : IF q = r THEN job'[q].id = nextId ELSE job'[q] = job[q]
  BY <1>1 DEF TypeOK, MasterTypes
<1>6. \A j \in Jobs : OnWire(j)' = OnWire(j) /\ Held(j)' = Held(j)
  BY <1>1 DEF OnWire, OpsOn, Held
<1>7. RestartedIsGone'
  BY <1>1, <1>6 DEF RestartedIsGone, TypeOK, MasterTypes
<1>8. OpenIsHere'
  <2> SUFFICES ASSUME NEW q \in Rows, job'[q].stage # "none"
               PROVE  /\ \A l \in Links : OpsOn(link[l], <<life, job'[q].id>>) # {} =>
                           sock[q] = l /\ boot[q] = knownBoot[q]
                      /\ \A p \in Rows : op[p].st # "none" /\ op[p].job = <<life, job'[q].id>> =>
                           p = q /\ boot[q] = knownBoot[q]
    BY <1>1 DEF OpenIsHere, OpsOn
  <2>1. CASE q = r
    <3>1. <<life, job'[q].id>> = it
      BY <1>5, <2>1
    <3> QED BY <1>4, <3>1 DEF OnWire, Held
  <2>2. CASE q # r
    BY <1>5, <2>2 DEF OpenIsHere
  <2> QED BY <2>1, <2>2
<1> QED BY <1>7, <1>8

LEMMA HereSent ==
  ASSUME TypeOK, TypeOK', JobsAreKept, TableInv, OpenIsHere, RestartedIsGone,
         NEW r \in Rows, SendOp(r)
  PROVE  OpenIsHere' /\ RestartedIsGone'
<1> DEFINE it == <<life, job[r].id>>
           l0 == conn[r]
<1>1. /\ job[r].stage = "waiting" /\ job' = [job EXCEPT ![r].stage = "sent"]
      /\ conn[r] # NoLink /\ l0 \in Links /\ link[l0] \in Connections
      /\ link' = [link EXCEPT ![l0] = Down(@, Op(it))]
      /\ UNCHANGED <<life, result, op, sock, boot, knownBoot>>
  BY DEF SendOp, JobDue, Takes, Write, TypeOK, MasterTypes, LinkTypes
<1>2. it \in Jobs /\ Waiting(it)
  BY <1>1, JobIsNamed DEF TypeOK, MasterTypes, NoJob, Waiting
<1>3. ~OnWire(it) /\ ~Held(it) /\ result[it] = "open"
  BY <1>1, <1>2 DEF JobsAreKept, NowhereYet, IdsAreFresh
<1>4. \A q \in Rows : /\ job'[q].id = job[q].id
                      /\ job'[q].stage # "none" => job[q].stage # "none"
  <2>1. job[r] \in [stage : {"waiting", "sent"}, id : 1..MaxJobs]
    BY <1>1 DEF TypeOK, MasterTypes, NoJob
  <2> QED BY <1>1, <2>1 DEF TypeOK, MasterTypes
<1>5. \A q \in Rows \ {r} : job[q].stage # "none" =>
        <<life, job[q].id>> \in Jobs /\ <<life, job[q].id>> # it
  BY <1>1, JobIsNamed DEF JobsAreKept, IdsAreFresh
<1>6. link[l0].by = r
  BY <1>1 DEF TableInv, Agree
<1>7. link[l0].held => sock[r] = l0 /\ boot[r] = knownBoot[r]
  BY <1>1, <1>6 DEF TableInv, EndsAgree, SocksAgree, BootsAgree
<1>8. \A l \in Links : link'[l] = IF l = l0 THEN Down(link[l], Op(it)) ELSE link[l]
  BY <1>1 DEF TypeOK, LinkTypes
<1> HIDE DEF it, l0
<1>9. /\ \A l \in Links, j \in Jobs \ {it} : OpsOn(link'[l], j) = OpsOn(link[l], j)
      /\ \A l \in Links : OpsOn(link'[l], it) # {} => l = l0 /\ link[l0].held
  <2>1. \A l \in Links : OpsOn(link[l], it) = {}
    BY <1>3 DEF OnWire
  <2>2. \A l \in Links, j \in Jobs \ {it} : OpsOn(link'[l], j) = OpsOn(link[l], j)
    BY <1>1, <1>2, <1>8, DownOps
  <2>3. ~link[l0].held => Down(link[l0], Op(it)) = link[l0]
    BY DEF Down
  <2> QED BY <1>8, <2>1, <2>2, <2>3
<1>10. OpenIsHere'
  <2> SUFFICES ASSUME NEW q \in Rows, job'[q].stage # "none"
               PROVE  /\ \A l \in Links : OpsOn(link'[l], <<life, job'[q].id>>) # {} =>
                           sock[q] = l /\ boot[q] = knownBoot[q]
                      /\ \A p \in Rows : op[p].st # "none" /\ op[p].job = <<life, job'[q].id>> =>
                           p = q /\ boot[q] = knownBoot[q]
    BY <1>1 DEF OpenIsHere, OpsOn
  <2>0. job'[q].id = job[q].id /\ job[q].stage # "none"
    BY <1>4
  <2>1. CASE q = r
    BY <1>3, <1>7, <1>9, <2>0, <2>1 DEF it, Held
  <2>2. CASE q # r
    BY <1>5, <1>9, <2>0, <2>2 DEF OpenIsHere
  <2> QED BY <2>1, <2>2
<1>11. RestartedIsGone'
  <2> SUFFICES ASSUME NEW j \in Jobs, result[j] = "restarted"
               PROVE  (\A l \in Links : OpsOn(link'[l], j) = {}) /\ ~Held(j)
    BY <1>1 DEF RestartedIsGone, OnWire, OpsOn, Held
  <2> QED BY <1>3, <1>9 DEF RestartedIsGone, OnWire
<1> QED BY <1>10, <1>11

LEMMA HereTaken ==
  ASSUME TypeOK, TypeOK', JobsAreKept, TableInv, OpenIsHere, RestartedIsGone,
         NEW r \in Rows, RowTakesOp(r)
  PROVE  OpenIsHere' /\ RestartedIsGone'
<1> DEFINE it == FromMaster(r).job
<1>1. /\ sock[r] \in Links /\ it \in Jobs /\ OpsOn(link[sock[r]], it) # {}
      /\ \A l \in Links : OpsCalm(link[l], link'[l])
      /\ \A q \in Rows : op'[q] = op[q] \/ (q = r /\ op'[q].job = it)
  BY TakenFacts
<1>2. UNCHANGED <<life, job, result, sock, boot, knownBoot>>
  BY DEF RowTakesOp
<1>3. OnWire(it) /\ result[it] # "restarted"
  BY <1>1 DEF OnWire, RestartedIsGone
<1> HIDE DEF it
<1>4. \A j \in Jobs, l \in Links : OpsOn(link'[l], j) # {} => OpsOn(link[l], j) # {}
  BY <1>1 DEF OpsCalm
<1>5. OpenIsHere'
  <2> SUFFICES ASSUME NEW q \in Rows, job[q].stage # "none"
               PROVE  /\ \A l \in Links : OpsOn(link'[l], <<life, job[q].id>>) # {} =>
                           sock[q] = l /\ boot[q] = knownBoot[q]
                      /\ \A p \in Rows : op'[p].st # "none" /\ op'[p].job = <<life, job[q].id>> =>
                           p = q /\ boot[q] = knownBoot[q]
    BY <1>2 DEF OpenIsHere, OpsOn
  <2>1. <<life, job[q].id>> \in Jobs
    BY JobIsNamed
  <2>2. \A l \in Links : OpsOn(link'[l], <<life, job[q].id>>) # {} =>
          sock[q] = l /\ boot[q] = knownBoot[q]
    BY <1>4, <2>1 DEF OpenIsHere
  <2>3. ASSUME NEW p \in Rows, op'[p].st # "none", op'[p].job = <<life, job[q].id>>
        PROVE  p = q /\ boot[q] = knownBoot[q]
    <3>1. CASE op'[p] = op[p]
      BY <2>3, <3>1, SMTT(30) DEF OpenIsHere
    <3>2. CASE p = r /\ op'[p].job = it
      <4>1. sock[q] = sock[r] /\ boot[q] = knownBoot[q]
        BY <1>1, <2>3, <3>2 DEF OpenIsHere
      <4>2. q = r
        BY <1>1, <4>1, NamesAreDistinct DEF TableInv, EndsAgree, SocksAgree
      <4> QED BY <3>2, <4>1, <4>2
    <3> QED BY <1>1, <3>1, <3>2
  <2> QED BY <2>2, <2>3
<1>6. RestartedIsGone'
  <2> SUFFICES ASSUME NEW j \in Jobs, result[j] = "restarted"
               PROVE  /\ \A l \in Links : OpsOn(link'[l], j) = {}
                      /\ ~\E q \in Rows : op'[q].st # "none" /\ op'[q].job = j
    BY <1>2 DEF RestartedIsGone, OnWire, OpsOn, Held
  <2>1. ~OnWire(j) /\ ~Held(j) /\ j # it
    BY <1>3 DEF RestartedIsGone
  <2> QED BY <1>1, <1>4, <2>1 DEF OnWire, Held
<1> QED BY <1>5, <1>6

LEMMA HereDialled ==
  ASSUME TypeOK, TypeOK', OpenIsHere, RestartedIsGone,
         NEW r \in Rows, NEW l0 \in Links, NEW a \in Addrs, Dial(r, l0, a)
  PROVE  OpenIsHere' /\ RestartedIsGone'
<1>1. /\ sock[r] = NoLink /\ \A q \in Rows \ {r} : sock'[q] = sock[q]
      /\ UNCHANGED <<life, job, result, op, boot, knownBoot>>
  BY DEF Dial, TypeOK, RowTypes
<1>2. \A l \in Links : l # sock[r]
  BY <1>1, NamesAreDistinct
<1>3. \A j \in Jobs, l \in Links : OpsOn(link'[l], j) # {} => OpsOn(link[l], j) # {}
  BY AskedCalm DEF CalmStep, Calmer, OpsCalm
<1>4. OpenIsHere'
  <2> SUFFICES ASSUME NEW q \in Rows, job[q].stage # "none"
               PROVE  /\ \A l \in Links : OpsOn(link'[l], <<life, job[q].id>>) # {} =>
                           sock'[q] = l /\ boot[q] = knownBoot[q]
                      /\ \A p \in Rows : op[p].st # "none" /\ op[p].job = <<life, job[q].id>> =>
                           p = q /\ boot[q] = knownBoot[q]
    BY <1>1 DEF OpenIsHere, OpsOn
  <2>1. <<life, job[q].id>> \in Jobs
    BY JobIsNamed
  <2>2. \A l \in Links : OpsOn(link'[l], <<life, job[q].id>>) # {} =>
          sock[q] = l /\ boot[q] = knownBoot[q]
    BY <1>3, <2>1 DEF OpenIsHere
  <2>3. \A p \in Rows : op[p].st # "none" /\ op[p].job = <<life, job[q].id>> =>
          p = q /\ boot[q] = knownBoot[q]
    BY DEF OpenIsHere
  <2> QED BY <1>1, <1>2, <2>2, <2>3
<1>5. \A j \in Jobs : (OnWire(j)' => OnWire(j)) /\ (Held(j)' <=> Held(j))
  BY <1>1, <1>3 DEF OnWire, OpsOn, Held
<1> QED BY <1>1, <1>4, <1>5 DEF RestartedIsGone

\* A row that hangs up or restarts loses what was on its way to it.
LEMMA HereDropped ==
  ASSUME TypeOK, TypeOK', OpenIsHere, RestartedIsGone,
         NEW r \in Rows, RowSeesClosed(r) \/ RowGivesUp(r) \/ RowRestarts(r)
  PROVE  OpenIsHere' /\ RestartedIsGone'
<1>1. /\ \A q \in Rows \ {r} : sock'[q] = sock[q] /\ boot'[q] = boot[q] /\ op'[q] = op[q]
      /\ op'[r].st = "none" \/ (op'[r] = op[r] /\ boot'[r] = boot[r])
      /\ UNCHANGED <<life, job, result, knownBoot>>
  BY DEF RowSeesClosed, RowGivesUp, RowDrops, RowRestarts, TypeOK, RowTypes, NoOp
<1>2. CalmStep
  BY RowStepCalm, RestartCalm
<1>3. \A j \in Jobs, l \in Links : OpsOn(link'[l], j) # {} => OpsOn(link[l], j) # {}
  BY <1>2 DEF CalmStep, Calmer, OpsCalm
<1>4. \A l \in Links : l = sock[r] => link'[l].down = <<>>
  <2>1. ASSUME sock[r] \in Links PROVE link'[sock[r]] = DialerLetsGo(link[sock[r]])
    BY <2>1, NamesAreDistinct
       DEF RowSeesClosed, RowGivesUp, RowDrops, RowRestarts, TypeOK, LinkTypes
  <2>2. \A l \in Links : link[l] \in Connections
    BY DEF TypeOK, LinkTypes
  <2> QED BY <2>1, <2>2, ClearedDown
<1>5. \A j, l : l \in Links /\ l = sock[r] => OpsOn(link'[l], j) = {}
  BY <1>4 DEF OpsOn
<1>6. OpenIsHere'
  <2> SUFFICES ASSUME NEW q \in Rows, job[q].stage # "none"
               PROVE  /\ \A l \in Links : OpsOn(link'[l], <<life, job[q].id>>) # {} =>
                           sock'[q] = l /\ boot'[q] = knownBoot[q]
                      /\ \A p \in Rows : op'[p].st # "none" /\ op'[p].job = <<life, job[q].id>> =>
                           p = q /\ boot'[q] = knownBoot[q]
    BY <1>1 DEF OpenIsHere, OpsOn
  <2>1. <<life, job[q].id>> \in Jobs
    BY JobIsNamed
  <2>2. ASSUME NEW l \in Links, OpsOn(link'[l], <<life, job[q].id>>) # {}
        PROVE  sock'[q] = l /\ boot'[q] = knownBoot[q]
    <3>1. sock[q] = l /\ boot[q] = knownBoot[q]
      BY <1>3, <2>1, <2>2 DEF OpenIsHere
    <3>2. q # r
      BY <1>5, <2>2, <3>1
    <3> QED BY <1>1, <3>1, <3>2
  <2>3. ASSUME NEW p \in Rows, op'[p].st # "none", op'[p].job = <<life, job[q].id>>
        PROVE  p = q /\ boot'[q] = knownBoot[q]
    <3>1. op'[p] = op[p] /\ (p = r => boot'[r] = boot[r])
      BY <1>1, <2>3
    <3>2. p = q /\ boot[q] = knownBoot[q]
      BY <2>3, <3>1 DEF OpenIsHere
    <3> QED BY <1>1, <3>1, <3>2
  <2> QED BY <2>2, <2>3
<1>7. \A j \in Jobs : (OnWire(j)' => OnWire(j)) /\ (Held(j)' => Held(j))
  BY <1>1, <1>3 DEF OnWire, OpsOn, Held
<1> QED BY <1>1, <1>6, <1>7 DEF RestartedIsGone

\* A Hello under a new boot id comes from a row that has nothing of the open job.
LEMMA HereHello ==
  ASSUME TypeOK, TypeOK', JobsAreKept, TableInv, OpenIsHere, RestartedIsGone,
         NEW l0 \in Links, ReadHello(l0)
  PROVE  OpenIsHere' /\ RestartedIsGone'
<1> DEFINE hello == Head(link[l0].up)
           r == hello.row
           it == <<life, job[r].id>>
<1>1. /\ r \in Rows /\ knownBoot[r] <= hello.boot /\ hello.boot <= boot[r]
      /\ knownBoot[r] \in Nat /\ boot[r] \in Nat \ {0} /\ hello.boot \in Nat
  <2>1. link[l0] \in Connections /\ link[l0].up # <<>>
    BY DEF ReadHello, TypeOK, LinkTypes
  <2>2. hello \in ToMaster /\ hello.t = "Hello"
    BY <2>1, EditTypes DEF ReadHello
  <2>3. r \in Rows /\ hello.boot \in Nat
    BY <2>2, MessageTypes
  <2>4. link[l0].up \in Seq(ToMaster)
    BY <2>1 DEF Connections
  <2>5. 1 \in DOMAIN link[l0].up /\ link[l0].up[1] = hello
    BY <2>1, <2>4
  <2>6. knownBoot[r] <= hello.boot /\ hello.boot <= boot[r]
    BY <2>2, <2>5 DEF TableInv, EndsAgree, HellosAgree
  <2> QED BY <2>3, <2>6 DEF TypeOK, MasterTypes, RowTypes
<1>2. /\ CalmStep /\ UNCHANGED <<life, op, sock, boot>>
  BY HelloCalm DEF ReadHello
<1>3. \A j \in Jobs, l \in Links : OpsOn(link'[l], j) # {} => OpsOn(link[l], j) # {}
  BY <1>2 DEF CalmStep, Calmer, OpsCalm
<1>4. \A j \in Jobs : (OnWire(j)' => OnWire(j)) /\ (Held(j)' <=> Held(j))
  BY <1>2, <1>3 DEF OnWire, OpsOn, Held
<1>5. CASE UNCHANGED <<knownBoot, job, result>>
  <2>1. RowsLetGo /\ \A l \in Links : OpsCalm(link[l], link'[l])
    BY <1>2 DEF RowsLetGo, CalmStep, Calmer
  <2> QED BY <1>2, <1>5, <2>1, HereQuiet
<1>6. CASE /\ knownBoot' = [knownBoot EXCEPT ![r] = hello.boot]
           /\ IF knownBoot[r] # 0 /\ knownBoot[r] # hello.boot
              THEN /\ job' = [job EXCEPT ![r] = NoJob]
                   /\ result' = IF job[r] = NoJob THEN result
                                ELSE [result EXCEPT ![it] = "restarted"]
              ELSE UNCHANGED <<job, result>>
  <2> HIDE DEF hello, r, it
  <2>1. knownBoot[r] # hello.boot => boot[r] # knownBoot[r]
    BY <1>1
  <2>2. \A q \in Rows \ {r} : knownBoot'[q] = knownBoot[q] /\ job'[q] = job[q]
    BY <1>1, <1>6 DEF TypeOK, MasterTypes
  <2>3. job'[r].stage # "none" => job'[r] = job[r] /\ (knownBoot[r] = 0 \/ knownBoot[r] = hello.boot)
    BY <1>1, <1>6 DEF TypeOK, MasterTypes, NoJob
  <2>4. OpenIsHere'
    <3> SUFFICES ASSUME NEW q \in Rows, job'[q].stage # "none"
                 PROVE  /\ \A l \in Links : OpsOn(link'[l], <<life, job'[q].id>>) # {} =>
                             sock[q] = l /\ boot[q] = knownBoot'[q]
                        /\ \A p \in Rows : op[p].st # "none" /\ op[p].job = <<life, job'[q].id>> =>
                             p = q /\ boot[q] = knownBoot'[q]
      BY <1>2 DEF OpenIsHere, OpsOn
    <3>1. job'[q] = job[q] /\ <<life, job'[q].id>> \in Jobs
      BY <2>2, <2>3, JobIsNamed
    <3>2. boot[q] = knownBoot[q] => knownBoot'[q] = knownBoot[q]
      BY <1>1, <1>6, <2>2, <2>3 DEF TypeOK, MasterTypes
    <3> QED BY <1>3, <3>1, <3>2 DEF OpenIsHere
  <2>5. RestartedIsGone'
    <3> SUFFICES ASSUME NEW j \in Jobs, result'[j] = "restarted" PROVE ~OnWire(j) /\ ~Held(j)
      BY <1>4 DEF RestartedIsGone
    <3>1. CASE result[j] = "restarted"
      BY <3>1 DEF RestartedIsGone
    <3>2. CASE result[j] # "restarted"
      <4>1. j = it /\ job[r] # NoJob /\ knownBoot[r] # hello.boot
        BY <1>6, <3>2 DEF TypeOK, MasterTypes
      <4>2. job[r].stage # "none" /\ boot[r] # knownBoot[r]
        BY <1>1, <2>1, <4>1 DEF TypeOK, MasterTypes
      <4> QED BY <1>1, <4>1, <4>2 DEF OpenIsHere, OnWire, Held, it
    <3> QED BY <3>1, <3>2
  <2> QED BY <2>4, <2>5
<1> QED BY <1>5, <1>6 DEF ReadHello

LEMMA HereStep ==
  ASSUME TypeOK, TypeOK', JobsAreKept, TableInv, OpenIsHere, RestartedIsGone, [Next]_vars
  PROVE  OpenIsHere' /\ RestartedIsGone'
<1> DEFINE Goal == OpenIsHere' /\ RestartedIsGone'
<1>1. ASSUME NEW r \in Rows, SendOp(r) PROVE Goal
  BY <1>1, HereSent
<1>2. ASSUME NEW r \in Rows, RowTakesOp(r) PROVE Goal
  BY <1>2, HereTaken
<1>3. ASSUME NEW r \in Rows, NEW l \in Links, NEW a \in Addrs, Dial(r, l, a) PROVE Goal
  BY <1>3, HereDialled
<1>4. ASSUME NEW r \in Rows, RowSeesClosed(r) \/ RowGivesUp(r) \/ RowRestarts(r) PROVE Goal
  BY <1>4, HereDropped
<1>5. ASSUME NEW l \in Links, ReadHello(l) PROVE Goal
  BY <1>5, HereHello
<1>6. ASSUME NEW r \in Rows, AskJob(r) PROVE Goal
  BY <1>6, HereAsked
<1>7. ASSUME RowsChanged \/ MasterRestarts PROVE Goal
  <2>1. PICK how \in {"wallChanged", "forgotten"} : ForgetsRows(how) /\ UNCHANGED op
    BY <1>7 DEF RowsChanged, MasterRestarts
  <2>2. how \in Ends \ NotRun
    BY DEF Ends, NotRun
  <2>3. CalmStep /\ \A r \in Rows : job'[r].stage = "none"
    BY <2>1, <2>2, ForgetsCalm DEF ForgetsRows, NoJob
  <2>4. \A j \in Jobs : result'[j] = "restarted" => result[j] = "restarted"
    BY <2>1 DEF ForgetsRows
  <2>5. \A j \in Jobs : (OnWire(j)' => OnWire(j)) /\ (Held(j)' <=> Held(j))
    BY <2>1, <2>3 DEF CalmStep, Calmer, OpsCalm, OnWire, OpsOn, Held
  <2> QED BY <2>3, <2>4, <2>5 DEF OpenIsHere, RestartedIsGone
<1>8. ASSUME \/ UNCHANGED <<life, job, result, knownBoot>>
             \/ \E r \in Rows : ReadOpState(r) \/ JobOverdue(r),
             UNCHANGED <<sock, boot>>, ~\E r \in Rows : SendOp(r) \/ RowTakesOp(r)
      PROVE  Goal
  <2>1. \A l \in Links : OpsCalm(link[l], link'[l])
    BY <1>8, StepCalm, ReportRefusesNone DEF CalmStep, Calmer, RefusesNone
  <2>2. RowsLetGo
    <3>1. CASE UNCHANGED op
      BY <3>1 DEF RowsLetGo
    <3>2. ASSUME NEW r \in Rows,
                 \/ UnitJobStarts(r) \/ RowReportsEnd(r) \/ RowRestarts(r)
                 \/ \E how \in {"ok", "failed"} : UnitJobEnds(r, how)
          PROVE  RowsLetGo
      <4>1. op \in [Rows -> {NoOp} \cup [st : {"staged", "running", "ok", "failed"}, job : Jobs]]
        BY DEF TypeOK, RowTypes
      <4>2. CASE \/ UnitJobStarts(r) \/ \E how \in {"ok", "failed"} : UnitJobEnds(r, how)
        <5>1. /\ \A q \in Rows \ {r} : op'[q] = op[q]
              /\ op[r].st # "none" /\ op'[r].job = op[r].job /\ op'[r].st # "staged"
          BY <4>1, <4>2 DEF UnitJobStarts, UnitJobEnds, NoOp
        <5> QED BY <5>1 DEF RowsLetGo
      <4>3. CASE RowReportsEnd(r) \/ RowRestarts(r)
        <5>1. op' = [op EXCEPT ![r] = NoOp]
          BY <4>3 DEF RowReportsEnd, RowRestarts
        <5> QED BY <4>1, <5>1 DEF RowsLetGo, NoOp
      <4> QED BY <3>2, <4>2, <4>3
    <3> QED BY <1>8, <3>1, <3>2, RowsJobs
  <2>3. /\ UNCHANGED <<life, knownBoot>>
        /\ \A r \in Rows : job'[r].stage # "none" => job[r].stage # "none" /\ job'[r].id = job[r].id
        /\ \A j \in Jobs : result'[j] = "restarted" => result[j] = "restarted"
    <3>1. ASSUME NEW r \in Rows, JobOverdue(r)
          PROVE  /\ UNCHANGED <<life, knownBoot>>
                 /\ \A q \in Rows : job'[q].stage # "none" =>
                      job[q].stage # "none" /\ job'[q].id = job[q].id
                 /\ \A j \in Jobs : result'[j] = "restarted" => result[j] = "restarted"
      BY <3>1 DEF JobOverdue, TypeOK, MasterTypes, NoJob
    <3>2. ASSUME NEW r \in Rows, ReadOpState(r)
          PROVE  /\ UNCHANGED <<life, knownBoot>>
                 /\ \A q \in Rows : job'[q].stage # "none" =>
                      job[q].stage # "none" /\ job'[q].id = job[q].id
                 /\ \A j \in Jobs : result'[j] = "restarted" => result[j] = "restarted"
      <4>1. FromRow(r).phase # "restarted"
        BY <3>2, MasterReads, MessageTypes DEF ReadOpState, TypeOK
      <4>2. /\ UNCHANGED <<life, knownBoot>>
            /\ job' = job \/ job' = [job EXCEPT ![r] = NoJob]
            /\ \/ result' = result
               \/ result' = [result EXCEPT ![<<life, job[r].id>>] = FromRow(r).phase]
        BY <3>2 DEF ReadOpState
      <4>3. \A q \in Rows : job'[q].stage # "none" => job'[q] = job[q]
        BY <4>2 DEF TypeOK, MasterTypes, NoJob
      <4>4. \A j \in Jobs : result'[j] = "restarted" => result[j] = "restarted"
        BY <4>1, <4>2 DEF TypeOK, MasterTypes
      <4> QED BY <4>2, <4>3, <4>4
    <3> QED BY <1>8, <3>1, <3>2
  <2> QED BY <1>8, <2>1, <2>2, <2>3, HereQuiet
<1> HIDE DEF Goal
<1>9. Goal
  BY <1>1, <1>2, <1>3, <1>4, <1>5, <1>6, <1>7, <1>8, MastersJobs, RowsPlaces
<1> QED BY <1>9 DEF Goal

\* hello(), wallLinkHello: a row that restarted has nothing left of the job it had, so a job
\* that ended as "restarted" is nowhere and is not begun any more, and an open job is with
\* its own row, in the life of that row the master knows.
THEOREM RestartEndsTheJob == Spec => [](OpenIsHere /\ RestartedIsGone)
<1>1. Init => OpenIsHere /\ RestartedIsGone
  BY DEF Init, OpenIsHere, RestartedIsGone, NoJob
<1>2. /\ TypeOK /\ TypeOK' /\ JobsAreKept /\ TableInv /\ OpenIsHere /\ RestartedIsGone
      /\ [Next]_vars
      => OpenIsHere' /\ RestartedIsGone'
  BY HereStep
<1> QED BY <1>1, <1>2, TypesHold, JobsKept, TableInvHolds, PTL DEF Spec

-----------------------------------------------------------------------------
(* The promise of UnitJob, step by step.                                   *)
jobVars == <<result, ran, done>>

LEMMA AskIsPromised ==
  ASSUME TypeOK, JobsAreKept, NEW r \in Rows, AskJob(r) PROVE Promise!Next
<1> DEFINE it == <<life, nextId>>
<1>1. it \in Jobs /\ result[it] = "none"
  <2>1. it \in Jobs /\ it[1] = life /\ it[2] = nextId /\ nextId \in Nat
    BY JobNames DEF AskJob, TypeOK, MasterTypes
  <2> QED BY <2>1 DEF JobsAreKept, IdsAreFresh
<1>2. Promise!Ask(it)
  BY <1>1 DEF Promise!Ask, AskJob
<1> QED BY <1>1, <1>2 DEF Promise!Next

LEMMA RunIsPromised ==
  ASSUME TypeOK, JobsAreKept, HistoryKept, RestartedIsGone, AnswersAreTrue,
         NEW r \in Rows, UnitJobStarts(r)
  PROVE  Promise!Next
<1> DEFINE it == op[r].job
<1>1. op[r].st = "staged" /\ it \in Jobs /\ Held(it)
  BY DEF UnitJobStarts, TypeOK, RowTypes, NoOp, Held
<1>2. it \notin ran /\ result[it] \notin NotRun \cup {"restarted", "ok", "failed"}
  BY <1>1 DEF JobsAreKept, NowhereYet, InOnePlace, NoJobRunsTwice, RestartedIsGone, HistoryKept,
              AnswersAreTrue
<1>3. result[it] \in Results
  BY <1>1 DEF TypeOK, MasterTypes
<1>4. result[it] \in Promise!MayStillRun
  BY <1>2, <1>3 DEF Results, Ends, NotRun, Promise!MayStillRun
<1>5. Promise!Run(it)
  BY <1>2, <1>4 DEF Promise!Run, UnitJobStarts
<1> QED BY <1>1, <1>5 DEF Promise!Next

LEMMA FinishIsPromised ==
  ASSUME TypeOK, HistoryKept, NEW r \in Rows, NEW how \in {"ok", "failed"}, UnitJobEnds(r, how)
  PROVE  Promise!Next
<1>1. op[r].job \in Jobs /\ op[r].job \in ran
  BY DEF UnitJobEnds, TypeOK, RowTypes, NoOp, HistoryKept
<1>2. Promise!Finish(op[r].job)
  BY <1>1 DEF Promise!Finish, UnitJobEnds
<1> QED BY <1>1, <1>2 DEF Promise!Next

\* A job the master still has is open.
LEMMA OpenJob ==
  ASSUME TypeOK, JobsAreKept, NEW r \in Rows, job[r].stage # "none"
  PROVE  <<life, job[r].id>> \in Jobs /\ result[<<life, job[r].id>>] = "open"
BY JobIsNamed DEF JobsAreKept, IdsAreFresh

LEMMA AnswerIsPromised ==
  ASSUME TypeOK, TypeOK', JobsAreKept, AnswersAreTrue', NEW r \in Rows, ReadOpState(r)
  PROVE  [Promise!Next]_jobVars
<1> DEFINE it == <<life, job[r].id>>
           how == FromRow(r).phase
<1>1. CASE UNCHANGED result
  BY <1>1 DEF ReadOpState, jobVars
<1>2. CASE /\ Answers(r, FromRow(r)) /\ how # "running"
           /\ result' = [result EXCEPT ![it] = how]
  <2>1. it \in Jobs /\ result[it] = "open" /\ FromRow(r).id = job[r].id
    BY <1>2, OpenJob DEF Answers
  <2>2. FromRow(r) \in ToMaster /\ FromRow(r).t = "OpState" /\ how \in {"refused", "ok", "failed"}
    BY <1>2, MasterReads, MessageTypes DEF ReadOpState, TypeOK
  <2>3. how = "refused" => it \notin ran
    <3>1. conn[r] \in Links /\ FromRow(r) \in Words(link[conn[r]])
      BY ReadIsWord DEF ReadOpState
    <3>2. how = "refused" => FromRow(r) = OpState(job[r].id, "refused")
      BY <2>1, <2>2 DEF ToMaster, OpState
    <3>3. how = "refused" => Refusing(it)
      BY <3>1, <3>2 DEF Refusing, Refusal, Words
    <3> QED BY <2>1, <3>3 DEF JobsAreKept, NowhereYet
  <2>4. how \in {"ok", "failed"} => it \in done
    <3> HIDE DEF it, how
    <3>1. result'[it] = how
      BY <1>2, <2>1 DEF TypeOK, MasterTypes
    <3>2. done' = done
      BY DEF ReadOpState
    <3> QED BY <2>1, <3>1, <3>2 DEF AnswersAreTrue
  <2>5. Promise!Answer(it, how)
    BY <1>2, <2>1, <2>2, <2>3, <2>4 DEF Promise!Answer, ReadOpState
  <2> QED BY <2>1, <2>2, <2>5 DEF Promise!Next
<1> QED BY <1>1, <1>2 DEF ReadOpState

LEMMA GiveUpIsPromised ==
  ASSUME TypeOK, JobsAreKept, NEW r \in Rows, JobOverdue(r) PROVE Promise!Next
<1> DEFINE it == <<life, job[r].id>>
           how == IF job[r].stage = "waiting" THEN "notHandedOver" ELSE "noResult"
<1>1. it \in Jobs /\ result[it] = "open"
  BY OpenJob DEF JobOverdue
<1>2. how = "notHandedOver" => it \notin ran
  BY <1>1 DEF JobsAreKept, NowhereYet, Waiting
<1>3. Promise!GiveUp(it, how)
  BY <1>1, <1>2 DEF Promise!GiveUp, JobOverdue
<1> QED BY <1>1, <1>3 DEF Promise!Next

LEMMA RestartIsPromised ==
  ASSUME TypeOK, JobsAreKept, NEW l \in Links, ReadHello(l) PROVE [Promise!Next]_jobVars
<1>1. UNCHANGED <<ran, done>>
  BY DEF ReadHello
<1>2. CASE UNCHANGED result
  BY <1>1, <1>2 DEF jobVars
<1>3. CASE ~UNCHANGED result
  <2> DEFINE r == Head(link[l].up).row
             it == <<life, job[r].id>>
  <2>1. job[r] # NoJob /\ result' = [result EXCEPT ![it] = "restarted"]
    BY <1>3 DEF ReadHello
  <2>2. r \in Rows
    <3>1. link[l] \in Connections /\ link[l].up # <<>>
      BY DEF ReadHello, TypeOK, LinkTypes
    <3>2. Head(link[l].up) \in ToMaster /\ Head(link[l].up).t = "Hello"
      BY <3>1, EditTypes DEF ReadHello
    <3> QED BY <3>2, MessageTypes
  <2>3. job[r].stage # "none"
    BY <2>1, <2>2 DEF TypeOK, MasterTypes
  <2>4. it \in Jobs /\ result[it] = "open"
    BY <2>2, <2>3, OpenJob
  <2>5. Promise!GiveUp(it, "restarted")
    BY <1>1, <2>1, <2>4 DEF Promise!GiveUp
  <2> QED BY <2>4, <2>5 DEF Promise!Next
<1> QED BY <1>2, <1>3

LEMMA ForgettingIsPromised ==
  ASSUME RowsChanged \/ MasterRestarts PROVE Promise!Next
<1>1. PICK how \in {"wallChanged", "forgotten"} : ForgetsRows(how) /\ UNCHANGED <<ran, done>>
  BY DEF RowsChanged, MasterRestarts
<1>2. Promise!AllEnd(how)
  BY <1>1 DEF Promise!AllEnd, ForgetsRows
<1> QED BY <1>2 DEF Promise!Next

LEMMA StepIsPromised ==
  ASSUME TypeOK, TypeOK', JobsAreKept, HistoryKept, RestartedIsGone,
         AnswersAreTrue, AnswersAreTrue', [Next]_vars
  PROVE  [Promise!Next]_jobVars
<1>1. ASSUME NEW r \in Rows, UnitJobStarts(r) PROVE Promise!Next
  BY <1>1, RunIsPromised
<1>2. ASSUME NEW r \in Rows, NEW how \in {"ok", "failed"}, UnitJobEnds(r, how) PROVE Promise!Next
  BY <1>2, FinishIsPromised
<1>3. ASSUME NEW r \in Rows, RowTakesOp(r) \/ RowReportsEnd(r) \/ RowRestarts(r)
      PROVE  UNCHANGED jobVars
  BY <1>3 DEF RowTakesOp, RowReportsEnd, RowRestarts, jobVars
<1>4. ASSUME UNCHANGED <<op, ran, done>> PROVE [Promise!Next]_jobVars
  <2>1. CASE UNCHANGED result
    BY <1>4, <2>1 DEF jobVars
  <2>2. ASSUME NEW r \in Rows, ReadOpState(r) PROVE [Promise!Next]_jobVars
    BY <2>2, AnswerIsPromised
  <2>3. ASSUME NEW r \in Rows, SendOp(r) PROVE UNCHANGED result
    BY <2>3 DEF SendOp
  <2>4. ASSUME NEW r \in Rows, AskJob(r) PROVE Promise!Next
    BY <2>4, AskIsPromised
  <2>5. ASSUME NEW r \in Rows, JobOverdue(r) PROVE Promise!Next
    BY <2>5, GiveUpIsPromised
  <2>6. ASSUME NEW l \in Links, ReadHello(l) PROVE [Promise!Next]_jobVars
    BY <2>6, RestartIsPromised
  <2>7. ASSUME RowsChanged \/ MasterRestarts PROVE Promise!Next
    BY <2>7, ForgettingIsPromised
  <2> QED BY <2>1, <2>2, <2>3, <2>4, <2>5, <2>6, <2>7, MastersJobs
<1> QED BY <1>1, <1>2, <1>3, <1>4, RowsJobs

\* Whatever breaks, is lost or restarts, as long as the answers the master believes are
\* true, a job runs at most once, ends at most once, and does not run once it is reported
\* as not run, refused, ended or cut short by a restart of its row.
LEMMA PromiseGivenAnswers == Spec /\ []AnswersAreTrue => KeepsPromise
<1>1. Init => Promise!Init
  BY DEF Init, Promise!Init
<1>2. /\ TypeOK /\ TypeOK' /\ JobsAreKept /\ HistoryKept /\ RestartedIsGone
      /\ AnswersAreTrue /\ AnswersAreTrue' /\ [Next]_vars
      => [Promise!Next]_<<result, ran, done>>
  BY StepIsPromised DEF jobVars
<1> QED BY <1>1, <1>2, TypesHold, JobsKept, EndsAreOfTheirId, RestartEndsTheJob, PTL
        DEF Spec, KeepsPromise, Promise!Spec

\* startJob, wallJobOverdue, wallJobAnswer, handleOp, opTick: master, network and row
\* together implement UnitJob, within a life of the master.
THEOREM PromiseIsKept == MasterLives = 1 => (Spec => KeepsPromise)
<1> SUFFICES ASSUME MasterLives = 1 PROVE Spec => KeepsPromise
  OBVIOUS
<1>1. Spec => []AnswersAreTrue
  BY AnswersOfALife
<1> QED BY <1>1, PromiseGivenAnswers, PTL
=============================================================================
