-------------------------- MODULE WallLinkSaysProofs --------------------------
(***************************************************************************)
(* What master and row say to each other on a connection (settings, log,   *)
(* who is busy, texts), for any number of rows, connections, messages,     *)
(* faults and lives of the master.                                         *)
(***************************************************************************)
EXTENDS WallLinkProofs

USE DEF masterVars, rowVars, ghostVars, bounds, masterButConns

(* Of the messages K on their way in q the last is m; with none on its way *)
(* the listener has what it is to have.                                    *)
Upto(q, K, m, has, want) ==
  \/ has = want /\ \A i \in DOMAIN q : q[i] \notin K
  \/ \E i \in DOMAIN q : q[i] = m /\ \A n \in DOMAIN q : n > i => q[n] \notin K

LogCtls       == [t : {"LogCtl"}, on : BOOLEAN]
SettingsOf(k) == [t : {"Setting"}, kind : {k}, value : Nat]
Statuses      == [t : {"Status"}, busy : BOOLEAN]

\* Row r is on the connection the master has for it.
Shared(r) == conn[r] # NoLink /\ sock[r] = conn[r]

\* On a connection the master knows no row of, nothing was said but a Hello.
SilentYet ==
  \A l \in Links : link[l].m # "gone" /\ link[l].of = Nobody =>
    /\ link[l].down = <<>> /\ \A i \in DOMAIN link[l].up : link[l].up[i].t = "Hello"
    /\ \A r \in Rows : sock[r] = l => ~welcomed[r]

\* Before its Welcome a row says nothing after its Hello, and sends no log.
WelcomeFirst(r) ==
  /\ sock[r] = NoLink => ~welcomed[r]
  /\ ~welcomed[r] => ~logOn[r]
  /\ Shared(r) /\ ~welcomed[r] => link[conn[r]].up = <<>>

\* What was said last of the settings, of the log and of being busy is what the other end
\* has, or the last of its kind on the way to it.
Heard(r) ==
  LET c == link[conn[r]]
  IN  Shared(r) /\ ~c.cut =>
        /\ Upto(c.down, LogCtls, LogCtl(logTold[r]), logOn[r], logTold[r])
        /\ \A k \in told[r] :
             Upto(c.down, SettingsOf(k), Setting(k, wish[k]), known[r][k], wish[k])
        /\ welcomed[r] => Upto(c.up, Statuses, Status(busySent[r]), busy[r], busySent[r])

\* No Shown on connection c tells of a text past number n.
ShownUpto(c, n) == \A i \in DOMAIN c.up : c.up[i].t = "Shown" => c.up[i].id <= n
\* Nothing on connection c shows a text past t, and t itself only once it is sent.
ShowsUpto(c, t) ==
  \A i \in DOMAIN c.down : c.down[i].t = "Show" =>
    /\ c.down[i].id <= t.id
    /\ c.down[i].id = t.id => ~t.pending /\ c.down[i].body = t.body
\* A row that took number `last` on connection c and has `body` took nothing past t.
Taken(c, t, last, body) ==
  /\ last <= t.id /\ ShownUpto(c, last)
  /\ last = t.id /\ t.id # 0 => ~t.pending /\ body = t.body
  /\ t.shown = t.id => last = t.id
TextHeard(r) ==
  LET c == link[conn[r]]
      t == text[r]
  IN  /\ t.shown <= t.id /\ (t.pending => t.id # 0)
      /\ conn[r] # NoLink => ShownUpto(c, t.id)
      /\ Shared(r) =>
           /\ ShowsUpto(c, t)
           /\ IF welcomed[r] THEN Taken(c, t, lastSeq[r], shows[r])
              ELSE t.id = 0 \/ t.shown # t.id

RowIsHeard(r) == WelcomeFirst(r) /\ Heard(r) /\ TextHeard(r)
SaysInv    == SilentYet /\ \A r \in Rows : RowIsHeard(r)

-----------------------------------------------------------------------------
(* Queues *)

\* A message of another kind, or the very message, joins the queue.
LEMMA UptoAppend ==
  ASSUME NEW S, NEW q \in Seq(S), NEW K, NEW m \in S, NEW has, NEW want, NEW x \in S
  PROVE  /\ x \notin K /\ Upto(q, K, m, has, want) => Upto(Append(q, x), K, m, has, want)
         /\ Upto(Append(q, m), K, m, has, want)
<1>1. \A y \in S : /\ DOMAIN Append(q, y) = 1..(Len(q) + 1) /\ Append(q, y)[Len(q) + 1] = y
                   /\ \A i \in 1..Len(q) : Append(q, y)[i] = q[i]
  OBVIOUS
<1>2. DOMAIN q = 1..Len(q) /\ Len(q) \in Nat
  OBVIOUS
<1>3. Upto(Append(q, m), K, m, has, want)
  <2>1. Len(q) + 1 \in 1..(Len(q) + 1) /\ \A n \in 1..(Len(q) + 1) : ~(n > Len(q) + 1)
    BY <1>2
  <2> QED BY <1>1, <2>1 DEF Upto
<1>4. ASSUME x \notin K, Upto(q, K, m, has, want)
      PROVE  Upto(Append(q, x), K, m, has, want)
  <2>1. \A n \in 1..(Len(q) + 1) : n \in 1..Len(q) \/ n = Len(q) + 1
    BY <1>2
  <2>2. CASE has = want /\ \A i \in DOMAIN q : q[i] \notin K
    BY <1>1, <1>2, <1>4, <2>1, <2>2 DEF Upto
  <2>3. CASE \E i \in DOMAIN q : q[i] = m /\ \A n \in DOMAIN q : n > i => q[n] \notin K
    <3>1. PICK i \in 1..Len(q) : q[i] = m /\ \A n \in 1..Len(q) : n > i => q[n] \notin K
      BY <1>2, <2>3
    <3>2. i \in 1..(Len(q) + 1) /\ Append(q, x)[i] = m
      BY <1>1, <1>2, <3>1
    <3>3. \A n \in 1..(Len(q) + 1) : n > i => Append(q, x)[n] \notin K
      BY <1>1, <1>4, <2>1, <3>1
    <3> QED BY <1>1, <3>2, <3>3 DEF Upto
  <2> QED BY <1>4, <2>2, <2>3 DEF Upto
<1> QED BY <1>3, <1>4

\* The head is read: one of another kind changes nothing, the last one brings it about.
LEMMA UptoRead ==
  ASSUME NEW S, NEW q \in Seq(S), NEW K, NEW m, NEW has, NEW has2, NEW want,
         q # <<>>, Upto(q, K, m, has, want),
         Head(q) \notin K => has2 = has, Head(q) = m => has2 = want
  PROVE  Upto(Tail(q), K, m, has2, want)
<1>1. /\ Len(q) \in Nat \ {0} /\ DOMAIN q = 1..Len(q) /\ DOMAIN Tail(q) = 1..(Len(q) - 1)
      /\ \A i \in 1..(Len(q) - 1) : Tail(q)[i] = q[i + 1] /\ i + 1 \in 1..Len(q)
      /\ Head(q) = q[1] /\ 1 \in 1..Len(q)
  OBVIOUS
<1>2. CASE has = want /\ \A i \in DOMAIN q : q[i] \notin K
  BY <1>1, <1>2 DEF Upto
<1>3. CASE \E i \in DOMAIN q : q[i] = m /\ \A n \in DOMAIN q : n > i => q[n] \notin K
  <2>1. PICK i \in 1..Len(q) : q[i] = m /\ \A n \in 1..Len(q) : n > i => q[n] \notin K
    BY <1>1, <1>3
  <2>2. CASE i = 1
    <3>1. \A n \in 1..(Len(q) - 1) : n + 1 \in 1..Len(q) /\ n + 1 > i
      BY <1>1, <2>2
    <3> QED BY <1>1, <2>1, <2>2, <3>1 DEF Upto
  <2>3. CASE i # 1
    <3>1. i - 1 \in 1..(Len(q) - 1) /\ (i - 1) + 1 = i
      BY <1>1, <2>3
    <3>2. \A n \in 1..(Len(q) - 1) : n > i - 1 => Tail(q)[n] \notin K
      BY <1>1, <2>1
    <3>3. Tail(q)[i - 1] = m
      BY <1>1, <2>1, <3>1
    <3> QED BY <1>1, <3>1, <3>2, <3>3 DEF Upto
  <2> QED BY <2>2, <2>3
<1> QED BY <1>2, <1>3 DEF Upto

\* Which message is of which kind.
LEMMA KindsOfMessages ==
  /\ \A on \in BOOLEAN : LogCtl(on) \in LogCtls /\ \A k : LogCtl(on) \notin SettingsOf(k)
  /\ \A k, v \in Nat : /\ Setting(k, v) \in SettingsOf(k) /\ Setting(k, v) \notin LogCtls
                       /\ \A h : h # k => Setting(k, v) \notin SettingsOf(h)
  /\ \A b \in BOOLEAN : Status(b) \in Statuses
  /\ \A m : m \in LogCtls => m.t = "LogCtl"
  /\ \A m, k : m \in SettingsOf(k) => m.t = "Setting" /\ m.kind = k
  /\ \A m : m \in Statuses => m.t = "Status"
<1>1. \A on \in BOOLEAN : LogCtl(on) \in LogCtls /\ LogCtl(on).t = "LogCtl"
  BY DEF LogCtl, LogCtls
<1>2. \A k, v \in Nat : /\ Setting(k, v) \in SettingsOf(k)
                        /\ Setting(k, v).t = "Setting" /\ Setting(k, v).kind = k
  BY DEF Setting, SettingsOf
<1>3. \A b \in BOOLEAN : Status(b) \in Statuses
  BY DEF Status, Statuses
<1>4. \A m : m \in LogCtls => m.t = "LogCtl"
  BY DEF LogCtls
<1>5. \A m, k : m \in SettingsOf(k) => m.t = "Setting" /\ m.kind = k
  BY DEF SettingsOf
<1>6. \A m : m \in Statuses => m.t = "Status"
  BY DEF Statuses
<1>7. "LogCtl" # "Setting"
  OBVIOUS
<1> QED BY <1>1, <1>2, <1>3, <1>4, <1>5, <1>6, <1>7

LEMMA MessagesOfKinds ==
  /\ \A m \in ToRow : m.t = "LogCtl" => m \in LogCtls /\ m = LogCtl(m.on)
  /\ \A m \in ToRow : m.t = "Setting" => m \in SettingsOf(m.kind) /\ m = Setting(m.kind, m.value)
  /\ \A m \in ToMaster : m.t = "Status" => m \in Statuses /\ m = Status(m.busy)
BY DEF ToRow, ToMaster, LogCtls, SettingsOf, Statuses, LogCtl, Setting, Status, Op

LEMMA OtherMessages ==
  /\ Welcome.t = "Welcome"
  /\ \A id, body : /\ Show(id, body).t = "Show" /\ Show(id, body).id = id
                   /\ Show(id, body).body = body
  /\ \A j : Op(j).t = "Op"
  /\ \A on : LogCtl(on).t = "LogCtl" /\ LogCtl(on).on = on
  /\ \A k, v : /\ Setting(k, v).t = "Setting" /\ Setting(k, v).kind = k
               /\ Setting(k, v).value = v
  /\ \A b : Status(b).t = "Status" /\ Status(b).busy = b
  /\ \A id : Shown(id).t = "Shown" /\ Shown(id).id = id
  /\ \A id, ph : OpState(id, ph).t = "OpState"
BY DEF Welcome, Show, Op, LogCtl, Setting, Status, Shown, OpState

\* What reading and writing do to the fields of a connection.
LEMMA QueueFields ==
  ASSUME NEW c \in Connections
  PROVE  /\ c.down # <<>> => ReadDown(c) = [c EXCEPT !.down = Tail(c.down)]
         /\ c.up # <<>> => ReadUp(c) = [c EXCEPT !.up = Tail(c.up)]
         /\ c.up \in Seq(ToMaster) /\ c.down \in Seq(ToRow)
         /\ \A msg : /\ Down(c, msg).up = c.up /\ Down(c, msg).cut = c.cut
                     /\ Down(c, msg).m = c.m /\ Down(c, msg).of = c.of
                     /\ IF c.cut \/ ~c.held THEN Down(c, msg) = c
                        ELSE Down(c, msg).down = Append(c.down, msg)
         /\ \A msg : /\ Up(c, msg).down = c.down /\ Up(c, msg).cut = c.cut
                     /\ Up(c, msg).m = c.m /\ Up(c, msg).of = c.of
                     /\ IF c.cut \/ c.m = "gone" THEN Up(c, msg) = c
                        ELSE Up(c, msg).up = Append(c.up, msg)
         /\ /\ ReadDown(c).up = c.up /\ ReadDown(c).cut = c.cut /\ ReadDown(c).m = c.m
            /\ ReadDown(c).of = c.of /\ ReadDown(c).down = Tail(c.down)
         /\ /\ ReadUp(c).down = c.down /\ ReadUp(c).cut = c.cut /\ ReadUp(c).m = c.m
            /\ ReadUp(c).of = c.of /\ ReadUp(c).up = Tail(c.up)
<1>1. c.up \in Seq(ToMaster) /\ c.down \in Seq(ToRow)
  BY DEF Connections
<1>2. \A msg : /\ Down(c, msg).up = c.up /\ Down(c, msg).cut = c.cut
               /\ Down(c, msg).m = c.m /\ Down(c, msg).of = c.of
               /\ IF c.cut \/ ~c.held THEN Down(c, msg) = c
                  ELSE Down(c, msg).down = Append(c.down, msg)
  BY DEF Connections, Down
<1>3. \A msg : /\ Up(c, msg).down = c.down /\ Up(c, msg).cut = c.cut
               /\ Up(c, msg).m = c.m /\ Up(c, msg).of = c.of
               /\ IF c.cut \/ c.m = "gone" THEN Up(c, msg) = c
                  ELSE Up(c, msg).up = Append(c.up, msg)
  BY DEF Connections, Up
<1>4. /\ ReadDown(c).up = c.up /\ ReadDown(c).cut = c.cut /\ ReadDown(c).m = c.m
      /\ ReadDown(c).of = c.of /\ ReadDown(c).down = Tail(c.down)
  BY DEF Connections, ReadDown
<1>5. /\ ReadUp(c).down = c.down /\ ReadUp(c).cut = c.cut /\ ReadUp(c).m = c.m
      /\ ReadUp(c).of = c.of /\ ReadUp(c).up = Tail(c.up)
  BY DEF Connections, ReadUp
<1>6. ReadDown(c) = [c EXCEPT !.down = Tail(c.down)] /\ ReadUp(c) = [c EXCEPT !.up = Tail(c.up)]
  BY DEF ReadDown, ReadUp
<1> QED BY <1>1, <1>2, <1>3, <1>4, <1>5, <1>6

\* Texts in a queue that is read from or written to.
LEMMA ShownQueue ==
  ASSUME NEW c \in Connections, NEW n \in Nat, ShownUpto(c, n)
  PROVE  /\ c.up # <<>> => /\ ShownUpto(ReadUp(c), n)
                           /\ Head(c.up).t = "Shown" => Head(c.up).id <= n
         /\ \A msg : ShownUpto(Down(c, msg), n) /\ ShownUpto(ReadDown(c), n)
         /\ \A msg \in ToMaster : (msg.t = "Shown" => msg.id <= n) => ShownUpto(Up(c, msg), n)
<1>1. c.up \in Seq(ToMaster) /\ c.down \in Seq(ToRow)
  BY QueueFields
<1>2. ASSUME c.up # <<>>
      PROVE  ShownUpto(ReadUp(c), n) /\ (Head(c.up).t = "Shown" => Head(c.up).id <= n)
  <2>1. /\ Head(c.up) = c.up[1] /\ 1 \in DOMAIN c.up
        /\ \A i \in DOMAIN Tail(c.up) : i + 1 \in DOMAIN c.up /\ Tail(c.up)[i] = c.up[i + 1]
    BY <1>1, <1>2
  <2>2. ReadUp(c).up = Tail(c.up)
    BY QueueFields
  <2> QED BY <2>1, <2>2 DEF ShownUpto
<1>3. \A msg : ShownUpto(Down(c, msg), n) /\ ShownUpto(ReadDown(c), n)
  BY QueueFields DEF ShownUpto
<1>4. ASSUME NEW msg \in ToMaster, msg.t = "Shown" => msg.id <= n
      PROVE  ShownUpto(Up(c, msg), n)
  <2>1. CASE Up(c, msg) = c
    BY <2>1
  <2>2. CASE Up(c, msg).up = Append(c.up, msg)
    <3>1. \A i \in DOMAIN Append(c.up, msg) :
            Append(c.up, msg)[i] = msg \/ (i \in DOMAIN c.up /\ Append(c.up, msg)[i] = c.up[i])
      BY <1>1
    <3> QED BY <1>4, <2>2, <3>1 DEF ShownUpto
  <2> QED BY <2>1, <2>2, QueueFields
<1> QED BY <1>2, <1>3, <1>4

LEMMA ShowsQueue ==
  ASSUME NEW c \in Connections, NEW t, ShowsUpto(c, t)
  PROVE  /\ c.down # <<>> => /\ ShowsUpto(ReadDown(c), t)
                             /\ Head(c.down).t = "Show" =>
                                  /\ Head(c.down).id <= t.id
                                  /\ Head(c.down).id = t.id => ~t.pending
                                                           /\ Head(c.down).body = t.body
         /\ \A msg : ShowsUpto(Up(c, msg), t) /\ ShowsUpto(ReadUp(c), t)
         /\ \A msg \in ToRow : msg.t # "Show" => ShowsUpto(Down(c, msg), t)
<1>1. c.up \in Seq(ToMaster) /\ c.down \in Seq(ToRow)
  BY QueueFields
<1>2. ASSUME c.down # <<>>
      PROVE  /\ ShowsUpto(ReadDown(c), t)
             /\ Head(c.down).t = "Show" =>
                  /\ Head(c.down).id <= t.id
                  /\ Head(c.down).id = t.id => ~t.pending /\ Head(c.down).body = t.body
  <2>1. /\ Head(c.down) = c.down[1] /\ 1 \in DOMAIN c.down
        /\ \A i \in DOMAIN Tail(c.down) :
             i + 1 \in DOMAIN c.down /\ Tail(c.down)[i] = c.down[i + 1]
    BY <1>1, <1>2
  <2>2. ReadDown(c).down = Tail(c.down)
    BY QueueFields
  <2> QED BY <2>1, <2>2 DEF ShowsUpto
<1>3. \A msg : ShowsUpto(Up(c, msg), t) /\ ShowsUpto(ReadUp(c), t)
  BY QueueFields DEF ShowsUpto
<1>4. ASSUME NEW msg \in ToRow, msg.t # "Show"
      PROVE  ShowsUpto(Down(c, msg), t)
  <2>1. CASE Down(c, msg) = c
    BY <2>1
  <2>2. CASE Down(c, msg).down = Append(c.down, msg)
    <3>1. \A i \in DOMAIN Append(c.down, msg) :
            \/ Append(c.down, msg)[i] = msg
            \/ i \in DOMAIN c.down /\ Append(c.down, msg)[i] = c.down[i]
      BY <1>1
    <3> QED BY <1>4, <2>2, <3>1 DEF ShowsUpto
  <2> QED BY <2>1, <2>2, QueueFields
<1> QED BY <1>2, <1>3, <1>4

-----------------------------------------------------------------------------
(* What leaves a row's account as it is *)

\* Connection d is c, or c cut short by the network.
Shortened(c, d) ==
  \/ d = c
  \/ /\ d.cut
     /\ \A i \in DOMAIN d.up : i \in DOMAIN c.up /\ d.up[i] = c.up[i]
     /\ \A i \in DOMAIN d.down : i \in DOMAIN c.down /\ d.down[i] = c.down[i]

\* What RowIsHeard(r) speaks of stays, but for settings that are owed again.
SameSays(r) ==
  /\ busy'[r] = busy[r] /\ text'[r] = text[r] /\ logTold'[r] = logTold[r]
  /\ told'[r] \subseteq told[r] /\ \A k \in told'[r] : wish'[k] = wish[k]
  /\ welcomed'[r] = welcomed[r] /\ busySent'[r] = busySent[r] /\ lastSeq'[r] = lastSeq[r]
  /\ shows'[r] = shows[r] /\ known'[r] = known[r] /\ logOn'[r] = logOn[r]

LEMMA EmptyQueue ==
  ASSUME NEW S, NEW q \in Seq(S), \A i \in DOMAIN q : FALSE
  PROVE  q = <<>>
<1>1. q # <<>> => 1 \in DOMAIN q
  OBVIOUS
<1> QED BY <1>1

LEMMA OneRead ==
  ASSUME NEW S, NEW q \in Seq(S), Len(q) = 1
  PROVE  Tail(q) = <<>>
<1>1. q # <<>>
  OBVIOUS
<1>2. Tail(q) \in Seq(S) /\ Len(Tail(q)) = 0
  BY <1>1
<1> DEFINE t == Tail(q)
<1>3. t \in Seq(S) /\ Len(t) = 0
  BY <1>2
<1> HIDE DEF t
<1>4. t = <<>>
  BY <1>3
<1> QED BY <1>4 DEF t

LEMMA RowFrame ==
  ASSUME TypeOK, TypeOK', NEW r \in Rows, RowIsHeard(r), SameSays(r),
         conn'[r] = conn[r], sock'[r] = sock[r],
         conn[r] # NoLink => Shortened(link[conn[r]], link'[conn[r]])
  PROVE  RowIsHeard(r)'
<1> DEFINE c == link[conn[r]]
           d == link'[conn[r]]
<1>1. conn[r] # NoLink => c \in Connections /\ d \in Connections
  BY DEF TypeOK, MasterTypes, LinkTypes
<1>2. Shared(r)' <=> Shared(r)
  BY DEF Shared
<1>3. WelcomeFirst(r)'
  <2>1. ASSUME Shared(r), ~welcomed[r]
        PROVE  d.up = <<>>
    <3>1. c.up = <<>> /\ conn[r] # NoLink
      BY <2>1 DEF RowIsHeard, WelcomeFirst, Shared
    <3>2. \A i \in DOMAIN d.up : FALSE
      BY <3>1 DEF Shortened
    <3>3. d.up \in Seq(ToMaster)
      BY <1>1, <3>1, QueueFields
    <3> QED BY <3>2, <3>3, EmptyQueue
  <2> QED BY <1>2, <2>1 DEF RowIsHeard, WelcomeFirst, SameSays
<1>4. Heard(r)'
  <2> SUFFICES ASSUME Shared(r), ~d.cut
               PROVE  /\ Upto(d.down, LogCtls, LogCtl(logTold'[r]), logOn'[r], logTold'[r])
                      /\ \A k \in told'[r] :
                           Upto(d.down, SettingsOf(k), Setting(k, wish'[k]), known'[r][k], wish'[k])
                      /\ welcomed'[r] =>
                           Upto(d.up, Statuses, Status(busySent'[r]), busy'[r], busySent'[r])
    BY <1>2 DEF Heard
  <2>1. d = c
    BY DEF Shortened, Shared
  <2> QED BY <2>1 DEF RowIsHeard, Heard, SameSays
<1>5. TextHeard(r)'
  <2>1. conn[r] # NoLink => ShownUpto(d, text[r].id)
    BY DEF RowIsHeard, TextHeard, ShownUpto, Shortened
  <2>2. Shared(r) => ShowsUpto(d, text[r])
    BY DEF RowIsHeard, TextHeard, ShowsUpto, Shortened, Shared
  <2>3. Shared(r) /\ welcomed[r] => ShownUpto(d, lastSeq[r])
    BY DEF RowIsHeard, TextHeard, Taken, ShownUpto, Shortened, Shared
  <2>4. Shared(r) /\ welcomed[r] => Taken(d, text[r], lastSeq[r], shows[r])
    BY <2>3 DEF RowIsHeard, TextHeard, Taken
  <2>5. Shared(r) /\ ~welcomed[r] => text[r].id = 0 \/ text[r].shown # text[r].id
    BY DEF RowIsHeard, TextHeard
  <2> QED BY <1>2, <2>1, <2>2, <2>4, <2>5 DEF RowIsHeard, TextHeard, SameSays
<1> QED BY <1>3, <1>4, <1>5 DEF RowIsHeard

\* The master let go of the row's connection, if it had one.
LEMMA RowAway ==
  ASSUME TypeOK, NEW r \in Rows, RowIsHeard(r), conn'[r] = NoLink, sock'[r] = sock[r],
         welcomed'[r] = welcomed[r], logOn'[r] = logOn[r], text'[r] \in {text[r], NoText}
  PROVE  RowIsHeard(r)'
<1>1. ~Shared(r)'
  BY DEF Shared
<1>2. NoText.shown <= NoText.id /\ ~NoText.pending
  BY DEF NoText
<1>3. TextHeard(r)'
  BY <1>1, <1>2 DEF TextHeard, RowIsHeard
<1> QED BY <1>1, <1>3 DEF RowIsHeard, WelcomeFirst, Heard

\* The row let go of its connection, if it had one.
LEMMA RowHungUp ==
  ASSUME TypeOK, NEW r \in Rows, RowIsHeard(r), sock'[r] = NoLink, conn'[r] = conn[r],
         ~welcomed'[r], ~logOn'[r], text'[r] = text[r],
         conn[r] # NoLink => link'[conn[r]].up = link[conn[r]].up
  PROVE  RowIsHeard(r)'
<1>1. ~Shared(r)'
  BY DEF Shared
<1>2. TextHeard(r)'
  BY <1>1 DEF TextHeard, RowIsHeard, ShownUpto
<1> QED BY <1>1, <1>2 DEF RowIsHeard, WelcomeFirst, Heard

\* Connections come and go at the master's end, or are cut; no row is told a thing.
LEMMA ComeAndGo ==
  ASSUME TypeOK, TypeOK', SaysInv, UNCHANGED <<sock, welcomed, logOn>>,
         \A l \in Links : link'[l].m # "gone" /\ link'[l].of = Nobody =>
           \/ /\ link[l].m # "gone" /\ link[l].of = Nobody
              /\ link[l].down = <<>> => link'[l].down = <<>>
              /\ \A i \in DOMAIN link'[l].up :
                   i \in DOMAIN link[l].up /\ link'[l].up[i] = link[l].up[i]
           \/ link'[l].down = <<>> /\ link'[l].up = <<>> /\ \A r \in Rows : sock[r] # l,
         \A r \in Rows :
           \/ conn'[r] = NoLink /\ text'[r] \in {text[r], NoText}
           \/ /\ conn'[r] = conn[r] /\ SameSays(r)
              /\ conn[r] # NoLink => Shortened(link[conn[r]], link'[conn[r]])
  PROVE  SaysInv'
<1>1. \A r \in Rows : RowIsHeard(r)'
  <2> TAKE r \in Rows
  <2>1. CASE conn'[r] = NoLink /\ text'[r] \in {text[r], NoText}
    BY <2>1, RowAway DEF SaysInv
  <2>2. CASE /\ conn'[r] = conn[r] /\ SameSays(r)
             /\ conn[r] # NoLink => Shortened(link[conn[r]], link'[conn[r]])
    BY <2>2, RowFrame DEF SaysInv
  <2> QED BY <2>1, <2>2
<1>2. SilentYet'
  <2> SUFFICES ASSUME NEW l \in Links, link'[l].m # "gone", link'[l].of = Nobody
               PROVE  /\ link'[l].down = <<>>
                      /\ \A i \in DOMAIN link'[l].up : link'[l].up[i].t = "Hello"
                      /\ \A r \in Rows : sock[r] = l => ~welcomed[r]
    BY DEF SilentYet
  <2>1. CASE /\ link[l].m # "gone" /\ link[l].of = Nobody
             /\ link[l].down = <<>> => link'[l].down = <<>>
             /\ \A i \in DOMAIN link'[l].up :
                  i \in DOMAIN link[l].up /\ link'[l].up[i] = link[l].up[i]
    BY <2>1 DEF SaysInv, SilentYet
  <2>2. CASE link'[l].down = <<>> /\ link'[l].up = <<>> /\ \A r \in Rows : sock[r] # l
    BY <2>2
  <2> QED BY <2>1, <2>2
<1> QED BY <1>1, <1>2 DEF SaysInv

\* Row r or the master writes to or reads from the connection they are on: nobody else is
\* concerned.
LEMMA OthersSay ==
  ASSUME TypeOK, TypeOK', TableInv, SaysInv, NEW r \in Rows, NEW l \in Links,
         \/ conn[r] = l /\ welcomed'[r] = welcomed[r]
         \/ sock[r] = l /\ (link[l].down # <<>> \/ welcomed[r]),
         \A k \in Links \ {l} : link'[k] = link[k],
         link'[l].m = link[l].m, link'[l].of = link[l].of,
         UNCHANGED <<conn, sock>>, \A q \in Rows \ {r} : SameSays(q)
  PROVE  SilentYet' /\ \A q \in Rows \ {r} : RowIsHeard(q)'
<1>1. /\ \A q \in Rows : /\ conn[q] \in Links \cup {NoLink}
                         /\ conn[q] # NoLink => link[conn[q]].of = q /\ link[conn[q]].by = q
      /\ \A q \in Rows : sock[q] # NoLink => link[sock[q]].by = q
  BY DEF TypeOK, MasterTypes, TableInv, Agree, EndsAgree, SocksAgree
<1>2. ASSUME NEW q \in Rows \ {r} PROVE RowIsHeard(q)'
  <2>1. conn[q] # l
    BY <1>1, NamesAreDistinct
  <2>2. conn[q] # NoLink => link'[conn[q]] = link[conn[q]]
    BY <1>1, <2>1
  <2> QED BY <2>2, RowFrame DEF SaysInv, Shortened
<1>3. SilentYet'
  <2> SUFFICES ASSUME NEW k \in Links, link'[k].m # "gone", link'[k].of = Nobody
               PROVE  /\ link'[k].down = <<>>
                      /\ \A i \in DOMAIN link'[k].up : link'[k].up[i].t = "Hello"
                      /\ \A q \in Rows : sock[q] = k => ~welcomed'[q]
    BY DEF SilentYet
  <2>1. link[k].m # "gone" /\ link[k].of = Nobody
    OBVIOUS
  <2>2. /\ link[k].down = <<>> /\ \A i \in DOMAIN link[k].up : link[k].up[i].t = "Hello"
        /\ \A q \in Rows : sock[q] = k => ~welcomed[q]
    BY <2>1 DEF SaysInv, SilentYet
  <2>3. k # l
    <3>1. CASE conn[r] = l
      BY <1>1, <2>1, <3>1, NamesAreDistinct
    <3>2. CASE sock[r] = l /\ (link[l].down # <<>> \/ welcomed[r])
      BY <2>2, <3>2
    <3> QED BY <3>1, <3>2
  <2>4. \A q \in Rows : sock[q] = k => welcomed'[q] = welcomed[q]
    BY <2>3 DEF SameSays
  <2> QED BY <2>2, <2>3, <2>4
<1> QED BY <1>2, <1>3

\* Row r's account once the others' are as they were.
LEMMA WithTheOthers ==
  ASSUME NEW r \in Rows, SilentYet', \A q \in Rows \ {r} : RowIsHeard(q)',
         WelcomeFirst(r)', Heard(r)', TextHeard(r)'
  PROVE  SaysInv'
BY DEF SaysInv, RowIsHeard

-----------------------------------------------------------------------------
(* The master's steps *)

LEMMA MasterReadsSays ==
  ASSUME TypeOK, TypeOK', TableInv, SaysInv, NEW r \in Rows, NEW t, Arrived(r, t), ReadOff(r),
         UNCHANGED <<conn, sock, told, logTold, wish, welcomed, busySent, lastSeq, shows,
                     known, logOn>>,
         \A q \in Rows \ {r} : busy'[q] = busy[q] /\ text'[q] = text[q],
         \/ t = "Status" /\ busy'[r] = FromRow(r).busy /\ text'[r] = text[r]
         \/ /\ t = "Shown" /\ busy'[r] = busy[r]
            /\ text'[r] = [text[r] EXCEPT !.shown = FromRow(r).id]
         \/ t = "OpState" /\ busy'[r] = busy[r] /\ text'[r] = text[r]
  PROVE  SaysInv'
<1> DEFINE l == conn[r]
           c == link[l]
           d == link'[l]
           m == Head(c.up)
<1>1. /\ l \in Links /\ l # NoLink /\ c \in Connections /\ c.up # <<>> /\ m.t = t
      /\ d = ReadUp(c) /\ \A k \in Links \ {l} : link'[k] = link[k]
  BY NamesAreDistinct DEF Arrived, ReadOff, TypeOK, MasterTypes, LinkTypes
<1>2. /\ d.m = c.m /\ d.of = c.of /\ d.cut = c.cut /\ d.down = c.down /\ d.up = Tail(c.up)
      /\ c.up \in Seq(ToMaster)
  BY <1>1, QueueFields
<1>3. \A q \in Rows \ {r} : SameSays(q)
  BY DEF SameSays
<1> DEFINE OK == SilentYet' /\ \A q \in Rows \ {r} : RowIsHeard(q)'
<1>4. OK
  BY <1>1, <1>2, <1>3, OthersSay
<1> HIDE DEF OK
<1>5. Shared(r)' <=> Shared(r)
  BY DEF Shared
<1>6. RowIsHeard(r) /\ m \in ToMaster
  BY <1>1, <1>2 DEF SaysInv
<1>7. Shared(r) => welcomed[r]
  BY <1>1, <1>6 DEF RowIsHeard, WelcomeFirst
<1>8. WelcomeFirst(r)'
  BY <1>5, <1>6, <1>7 DEF RowIsHeard, WelcomeFirst
<1>9. Heard(r)'
  <2> SUFFICES ASSUME Shared(r), ~d.cut
               PROVE  /\ Upto(d.down, LogCtls, LogCtl(logTold[r]), logOn[r], logTold[r])
                      /\ \A k \in told[r] :
                           Upto(d.down, SettingsOf(k), Setting(k, wish[k]), known[r][k], wish[k])
                      /\ Upto(d.up, Statuses, Status(busySent[r]), busy'[r], busySent[r])
    BY <1>5 DEF Heard
  <2>1. /\ Upto(c.down, LogCtls, LogCtl(logTold[r]), logOn[r], logTold[r])
        /\ \A k \in told[r] :
             Upto(c.down, SettingsOf(k), Setting(k, wish[k]), known[r][k], wish[k])
        /\ Upto(c.up, Statuses, Status(busySent[r]), busy[r], busySent[r])
    BY <1>2, <1>6, <1>7 DEF RowIsHeard, Heard
  <2>2. m \notin Statuses => busy'[r] = busy[r]
    BY <1>1, <1>6, MessagesOfKinds
  <2>3. m = Status(busySent[r]) => busy'[r] = busySent[r]
    BY <1>1, OtherMessages DEF FromRow
  <2>4. Upto(d.up, Statuses, Status(busySent[r]), busy'[r], busySent[r])
    BY <1>1, <1>2, <2>1, <2>2, <2>3, UptoRead
  <2> QED BY <1>2, <2>1, <2>4
<1>10. TextHeard(r)'
  <2>1. text[r] \in [id : Nat, shown : Nat, pending : BOOLEAN, body : Texts \cup {Blank}]
    BY DEF TypeOK, MasterTypes
  <2>2. /\ text[r].shown <= text[r].id /\ (text[r].pending => text[r].id # 0)
        /\ ShownUpto(c, text[r].id)
        /\ Shared(r) => ShowsUpto(c, text[r]) /\ Taken(c, text[r], lastSeq[r], shows[r])
    BY <1>1, <1>6, <1>7 DEF RowIsHeard, TextHeard
  <2>3. lastSeq[r] \in Nat /\ text[r].id \in Nat
    BY <2>1 DEF TypeOK, RowTypes
  <2>4. /\ ShownUpto(d, text[r].id)
        /\ m.t = "Shown" => m.id <= text[r].id
    BY <1>1, <2>2, <2>3, ShownQueue
  <2>5. Shared(r) => /\ ShownUpto(d, lastSeq[r])
                     /\ m.t = "Shown" => m.id <= lastSeq[r]
    BY <1>1, <2>2, <2>3, ShownQueue DEF Taken
  <2>6. Shared(r) => ShowsUpto(d, text[r])
    BY <1>1, <2>2, ShowsQueue
  <2>7. /\ text'[r].id = text[r].id /\ text'[r].pending = text[r].pending
        /\ text'[r].body = text[r].body
        /\ text'[r].shown = text[r].shown \/ (t = "Shown" /\ text'[r].shown = m.id)
    BY <2>1 DEF FromRow
  <2>8. m.t = "Shown" => m.id \in Nat
    BY <1>6, MessageTypes
  <2>9. text'[r].shown <= text[r].id
    BY <1>1, <2>2, <2>4, <2>7
  <2>10. Shared(r) => (text'[r].shown = text[r].id => lastSeq[r] = text[r].id)
    <3>1. CASE text'[r].shown = text[r].shown
      BY <2>2, <3>1 DEF Taken
    <3>2. CASE t = "Shown" /\ text'[r].shown = m.id
      BY <1>1, <2>2, <2>3, <2>5, <2>8, <3>2 DEF Taken
    <3> QED BY <2>7, <3>1, <3>2
  <2>11. Shared(r) => Taken(d, text'[r], lastSeq[r], shows[r])
    BY <2>2, <2>5, <2>7, <2>10 DEF Taken
  <2>12. Shared(r) => ShowsUpto(d, text'[r])
    BY <2>6, <2>7 DEF ShowsUpto
  <2> QED BY <1>5, <1>7, <2>2, <2>4, <2>7, <2>9, <2>11, <2>12 DEF TextHeard
<1> QED BY <1>4, <1>8, <1>9, <1>10, WithTheOthers DEF OK

LEMMA MasterWritesSays ==
  ASSUME TypeOK, TypeOK', TableInv, SaysInv, NEW r \in Rows, Takes(r), NEW msg \in ToRow,
         Write(r, msg),
         UNCHANGED <<conn, sock, busy, wish, welcomed, busySent, lastSeq, shows, known, logOn>>,
         \A q \in Rows \ {r} : told'[q] = told[q] /\ text'[q] = text[q] /\ logTold'[q] = logTold[q],
         \/ /\ \E k \in Kinds : msg = Setting(k, wish[k]) /\ told'[r] = told[r] \cup {k}
            /\ text'[r] = text[r] /\ logTold'[r] = logTold[r]
         \/ /\ msg = LogCtl(logTold'[r])
            /\ told'[r] = told[r] /\ text'[r] = text[r]
         \/ /\ msg = Show(text[r].id, text[r].body)
            /\ told'[r] = told[r] /\ logTold'[r] = logTold[r]
            /\ text'[r] = [text[r] EXCEPT !.pending = FALSE]
         \/ /\ msg.t = "Op"
            /\ told'[r] = told[r] /\ text'[r] = text[r] /\ logTold'[r] = logTold[r]
  PROVE  SaysInv'
<1> DEFINE l == conn[r]
           c == link[l]
           d == link'[l]
<1>1. /\ l \in Links /\ l # NoLink /\ c \in Connections
      /\ d = Down(c, msg) /\ \A k \in Links \ {l} : link'[k] = link[k]
  BY NamesAreDistinct DEF Takes, Write, TypeOK, MasterTypes, LinkTypes
<1>2. /\ d.m = c.m /\ d.of = c.of /\ d.cut = c.cut /\ d.up = c.up
      /\ IF c.cut \/ ~c.held THEN d = c ELSE d.down = Append(c.down, msg)
      /\ c.down \in Seq(ToRow)
  BY <1>1, QueueFields
<1>3. \A q \in Rows \ {r} : SameSays(q)
  BY DEF SameSays
<1> DEFINE OK == SilentYet' /\ \A q \in Rows \ {r} : RowIsHeard(q)'
<1>4. OK
  BY <1>1, <1>2, <1>3, OthersSay
<1> HIDE DEF OK
<1>5. Shared(r)' <=> Shared(r)
  BY DEF Shared
<1>6. RowIsHeard(r)
  BY DEF SaysInv
<1>7. Shared(r) => c.held
  BY DEF Shared, TableInv, EndsAgree, SocksAgree
<1>8. WelcomeFirst(r)'
  BY <1>2, <1>5, <1>6 DEF RowIsHeard, WelcomeFirst
<1>9. /\ logTold[r] \in BOOLEAN /\ logTold'[r] \in BOOLEAN /\ wish \in [Kinds -> Nat]
      /\ told[r] \subseteq Kinds /\ told'[r] \subseteq Kinds
      /\ text[r] \in [id : Nat, shown : Nat, pending : BOOLEAN, body : Texts \cup {Blank}]
  BY DEF TypeOK, MasterTypes
<1>10. Heard(r)'
  <2> SUFFICES ASSUME Shared(r), ~d.cut
               PROVE  /\ Upto(d.down, LogCtls, LogCtl(logTold'[r]), logOn[r], logTold'[r])
                      /\ \A k \in told'[r] :
                           Upto(d.down, SettingsOf(k), Setting(k, wish[k]), known[r][k], wish[k])
                      /\ welcomed[r] =>
                           Upto(d.up, Statuses, Status(busySent[r]), busy[r], busySent[r])
    BY <1>5 DEF Heard
  <2>1. /\ Upto(c.down, LogCtls, LogCtl(logTold[r]), logOn[r], logTold[r])
        /\ \A k \in told[r] :
             Upto(c.down, SettingsOf(k), Setting(k, wish[k]), known[r][k], wish[k])
        /\ welcomed[r] => Upto(c.up, Statuses, Status(busySent[r]), busy[r], busySent[r])
    BY <1>2, <1>6 DEF RowIsHeard, Heard
  <2>2. d.down = Append(c.down, msg)
    BY <1>2, <1>7
  <2>3. /\ LogCtl(logTold[r]) \in ToRow /\ LogCtl(logTold'[r]) \in ToRow
        /\ \A k \in Kinds : Setting(k, wish[k]) \in ToRow
    BY <1>9, SaidTypes
  <2>4. msg \notin LogCtls \/ msg = LogCtl(logTold'[r])
    BY <1>9, KindsOfMessages, OtherMessages
  <2>5. msg # LogCtl(logTold'[r]) => logTold'[r] = logTold[r]
    OBVIOUS
  <2>6. Upto(d.down, LogCtls, LogCtl(logTold'[r]), logOn[r], logTold'[r])
    <3>1. CASE msg = LogCtl(logTold'[r])
      BY <1>2, <2>2, <2>3, <3>1, UptoAppend
    <3>2. CASE msg # LogCtl(logTold'[r])
      BY <1>2, <2>1, <2>2, <2>3, <2>4, <2>5, <3>2, UptoAppend
    <3> QED BY <3>1, <3>2
  <2>7. ASSUME NEW k \in told'[r]
        PROVE  Upto(d.down, SettingsOf(k), Setting(k, wish[k]), known[r][k], wish[k])
    <3>1. k \in Kinds /\ wish[k] \in Nat
      BY <1>9
    <3>2. CASE msg = Setting(k, wish[k])
      BY <1>2, <2>2, <2>3, <3>1, <3>2, UptoAppend
    <3>3. CASE msg # Setting(k, wish[k])
      <4>1. k \in told[r]
        BY <3>3
      <4>2. msg \notin SettingsOf(k)
        <5>1. msg.t # "Setting" \/ \E h \in Kinds : msg = Setting(h, wish[h])
          BY <1>9, OtherMessages
        <5>2. CASE msg.t # "Setting"
          BY <5>2, KindsOfMessages
        <5>3. ASSUME NEW h \in Kinds, msg = Setting(h, wish[h])
              PROVE  msg \notin SettingsOf(k)
          <6>1. h # k /\ msg.kind = h
            BY <3>3, <5>3, OtherMessages
          <6> QED BY <6>1, KindsOfMessages
        <5> QED BY <5>1, <5>2, <5>3
      <4> QED BY <1>2, <2>1, <2>2, <2>3, <3>1, <4>1, <4>2, UptoAppend
    <3> QED BY <3>2, <3>3
  <2> QED BY <1>2, <2>1, <2>6, <2>7
<1>11. TextHeard(r)'
  <2>1. /\ text'[r].id = text[r].id /\ text'[r].shown = text[r].shown
        /\ text'[r].body = text[r].body /\ (text'[r].pending => text[r].pending)
        /\ msg.t = "Show" => ~text'[r].pending /\ msg.id = text[r].id /\ msg.body = text[r].body
    BY <1>9, OtherMessages
  <2>2. /\ text[r].shown <= text[r].id /\ (text[r].pending => text[r].id # 0)
        /\ ShownUpto(c, text[r].id)
    BY <1>1, <1>6 DEF RowIsHeard, TextHeard
  <2>3. ShownUpto(d, text'[r].id)
    BY <1>2, <2>1, <2>2 DEF ShownUpto
  <2>4. Shared(r) => ShowsUpto(d, text'[r])
    <3> SUFFICES ASSUME Shared(r) PROVE ShowsUpto(d, text'[r])
      OBVIOUS
    <3>1. ShowsUpto(c, text[r])
      BY <1>6 DEF RowIsHeard, TextHeard
    <3>2. ShowsUpto(c, text'[r])
      BY <2>1, <3>1 DEF ShowsUpto
    <3>3. CASE c.cut
      BY <1>2, <3>2, <3>3
    <3>4. CASE ~c.cut /\ msg.t # "Show"
      BY <1>1, <3>2, <3>4, ShowsQueue
    <3>5. CASE ~c.cut /\ msg.t = "Show"
      <4>1. d.down = Append(c.down, msg)
        BY <1>2, <1>7, <3>5
      <4>2. \A i \in DOMAIN Append(c.down, msg) :
              \/ Append(c.down, msg)[i] = msg
              \/ i \in DOMAIN c.down /\ Append(c.down, msg)[i] = c.down[i]
        BY <1>2
      <4>3. msg.id <= text'[r].id /\ ~text'[r].pending /\ msg.body = text'[r].body
        BY <1>9, <2>1, <3>5
      <4> QED BY <3>2, <4>1, <4>2, <4>3 DEF ShowsUpto
    <3> QED BY <3>3, <3>4, <3>5
  <2>5. Shared(r) /\ welcomed[r] => Taken(d, text'[r], lastSeq[r], shows[r])
    BY <1>2, <1>6, <2>1 DEF RowIsHeard, TextHeard, Taken, ShownUpto
  <2>6. Shared(r) /\ ~welcomed[r] => text'[r].id = 0 \/ text'[r].shown # text'[r].id
    BY <1>6, <2>1 DEF RowIsHeard, TextHeard
  <2> QED BY <1>5, <2>1, <2>2, <2>3, <2>4, <2>5, <2>6 DEF TextHeard
<1> QED BY <1>4, <1>8, <1>10, <1>11, WithTheOthers DEF OK

\* Nothing RowIsHeard speaks of changes, but for settings that are owed again.
LEMMA NothingSaid ==
  ASSUME TypeOK, TypeOK', SaysInv, UNCHANGED <<link, conn, sock>>, \A r \in Rows : SameSays(r)
  PROVE  SaysInv'
<1>1. \A r \in Rows : RowIsHeard(r)'
  BY RowFrame DEF SaysInv, Shortened
<1>2. \A r \in Rows : welcomed'[r] = welcomed[r]
  BY DEF SameSays
<1>3. SilentYet'
  BY <1>2 DEF SaysInv, SilentYet
<1> QED BY <1>1, <1>3 DEF SaysInv

LEMMA TextSetSays ==
  ASSUME TypeOK, TypeOK', TableInv, SaysInv, NEW r \in Rows, NEW body \in Texts, SetText(r, body)
  PROVE  SaysInv'
<1>1. /\ UNCHANGED <<link, conn, sock, busy, told, wish, logTold, welcomed, busySent, lastSeq,
                     shows, known, logOn>>
      /\ \A q \in Rows \ {r} : text'[q] = text[q]
      /\ text'[r] = ToSend(text[r], body)
      /\ text[r] \in [id : Nat, shown : Nat, pending : BOOLEAN, body : Texts \cup {Blank}]
  BY DEF SetText, TypeOK, MasterTypes
<1>2. /\ text'[r].id = text[r].id + 1 /\ text'[r].shown = text[r].shown /\ text'[r].pending
      /\ text[r].id \in Nat /\ text[r].shown \in Nat
  BY <1>1 DEF ToSend
<1> DEFINE c == link[conn[r]]
<1>3. RowIsHeard(r) /\ lastSeq[r] \in Nat
  BY DEF SaysInv, TypeOK, RowTypes
<1>4. conn[r] # NoLink => /\ c.up \in Seq(ToMaster) /\ c.down \in Seq(ToRow)
  BY QueueFields DEF TypeOK, MasterTypes, LinkTypes
<1>5. ASSUME NEW q \in Rows \ {r} PROVE RowIsHeard(q)'
  BY <1>1, RowFrame DEF SaysInv, Shortened, SameSays
<1>6. SilentYet'
  BY <1>1 DEF SaysInv, SilentYet
<1>7. WelcomeFirst(r)' /\ Heard(r)'
  BY <1>1, <1>3 DEF RowIsHeard, WelcomeFirst, Heard, Shared
<1>8. TextHeard(r)'
  <2>1. text[r].shown <= text[r].id
    BY <1>3 DEF RowIsHeard, TextHeard
  <2>2. ASSUME conn[r] # NoLink PROVE ShownUpto(c, text'[r].id)
    <3>1. ShownUpto(c, text[r].id)
      BY <1>3, <2>2 DEF RowIsHeard, TextHeard
    <3>2. \A i \in DOMAIN c.up : c.up[i] \in ToMaster
      BY <1>4, <2>2
    <3> QED BY <1>2, <3>1, <3>2, MessageTypes DEF ShownUpto
  <2>3. ASSUME Shared(r) PROVE ShowsUpto(c, text'[r])
    <3>1. ShowsUpto(c, text[r])
      BY <1>3, <2>3 DEF RowIsHeard, TextHeard
    <3>2. \A i \in DOMAIN c.down : c.down[i] \in ToRow
      BY <1>4, <2>3 DEF Shared
    <3> QED BY <1>2, <3>1, <3>2, MessageTypes DEF ShowsUpto
  <2>4. ASSUME Shared(r), welcomed[r] PROVE Taken(c, text'[r], lastSeq[r], shows[r])
    <3>1. Taken(c, text[r], lastSeq[r], shows[r])
      BY <1>3, <2>4 DEF RowIsHeard, TextHeard
    <3>2. lastSeq[r] <= text[r].id /\ ShownUpto(c, lastSeq[r])
      BY <3>1 DEF Taken
    <3> QED BY <1>2, <1>3, <2>1, <3>2 DEF Taken
  <2> HIDE DEF c
  <2>5. text'[r].shown <= text'[r].id /\ text'[r].id # 0 /\ text'[r].shown # text'[r].id
    BY <1>2, <2>1
  <2> USE DEF c
  <2> QED BY <1>1, <2>2, <2>3, <2>4, <2>5 DEF TextHeard, Shared
<1> QED BY <1>5, <1>6, <1>7, <1>8, WithTheOthers

LEMMA MasterStepSays ==
  ASSUME TypeOK, TypeOK', TableInv, SaysInv, NEW r \in Rows,
         MasterStep(r) \/ JobOverdue(r) \/ Asked(r)
  PROVE  SaysInv'
<1>1. CASE ReadStatus(r)
  <2>1. /\ Arrived(r, "Status") /\ ReadOff(r)
        /\ UNCHANGED <<conn, sock, told, logTold, wish, welcomed, busySent, lastSeq, shows,
                       known, logOn, text>>
        /\ busy' = [busy EXCEPT ![r] = FromRow(r).busy] /\ busy \in [Rows -> BOOLEAN]
    BY <1>1 DEF ReadStatus, TypeOK, MasterTypes
  <2> QED BY <2>1, MasterReadsSays
<1>2. CASE ReadShown(r)
  <2>1. /\ Arrived(r, "Shown") /\ ReadOff(r)
        /\ UNCHANGED <<conn, sock, told, logTold, wish, welcomed, busySent, lastSeq, shows,
                       known, logOn, busy>>
        /\ text' = [text EXCEPT ![r].shown = FromRow(r).id]
        /\ text \in [Rows -> [id : Nat, shown : Nat, pending : BOOLEAN, body : Texts \cup {Blank}]]
    BY <1>2 DEF ReadShown, TypeOK, MasterTypes
  <2>2. /\ text'[r] = [text[r] EXCEPT !.shown = FromRow(r).id]
        /\ \A q \in Rows \ {r} : text'[q] = text[q]
    BY <2>1
  <2> QED BY <2>1, <2>2, MasterReadsSays
<1>3. CASE ReadOpState(r)
  <2>1. /\ Arrived(r, "OpState") /\ ReadOff(r)
        /\ UNCHANGED <<conn, sock, told, logTold, wish, welcomed, busySent, lastSeq, shows,
                       known, logOn, busy, text>>
    BY <1>3 DEF ReadOpState
  <2> QED BY <2>1, MasterReadsSays
<1>4. CASE TellSetting(r)
  <2>1. PICK i \in DOMAIN Settings :
          /\ Write(r, Setting(Settings[i], wish[Settings[i]]))
          /\ told' = [told EXCEPT ![r] = @ \cup {Settings[i]}]
    BY <1>4 DEF TellSetting
  <2>2. Settings[i] \in Kinds /\ told \in [Rows -> SUBSET Kinds] /\ wish \in [Kinds -> Nat]
    BY DEF Kinds, TypeOK, MasterTypes
  <2>3. Setting(Settings[i], wish[Settings[i]]) \in ToRow
    BY <2>2, SaidTypes
  <2>4. /\ Takes(r)
        /\ UNCHANGED <<conn, sock, busy, wish, welcomed, busySent, lastSeq, shows, known, logOn,
                       text, logTold>>
    BY <1>4 DEF TellSetting
  <2>5. /\ told'[r] = told[r] \cup {Settings[i]} /\ \A q \in Rows \ {r} : told'[q] = told[q]
    BY <2>1, <2>2
  <2> QED BY <2>1, <2>2, <2>3, <2>4, <2>5, MasterWritesSays
<1>5. CASE TellLog(r)
  <2>1. /\ Takes(r) /\ Write(r, LogCtl(logWanted[r]))
        /\ logTold' = [logTold EXCEPT ![r] = logWanted[r]]
        /\ UNCHANGED <<conn, sock, busy, wish, welcomed, busySent, lastSeq, shows, known, logOn,
                       text, told>>
        /\ logTold \in [Rows -> BOOLEAN] /\ logWanted[r] \in BOOLEAN
    BY <1>5 DEF TellLog, TypeOK, MasterTypes
  <2>2. LogCtl(logWanted[r]) \in ToRow /\ logTold'[r] = logWanted[r]
    BY <2>1, SaidTypes
  <2> QED BY <2>1, <2>2, MasterWritesSays
<1>6. CASE SendShow(r)
  <2>1. /\ Takes(r) /\ Write(r, Show(text[r].id, text[r].body))
        /\ text' = [text EXCEPT ![r].pending = FALSE]
        /\ UNCHANGED <<conn, sock, busy, wish, welcomed, busySent, lastSeq, shows, known, logOn,
                       logTold, told>>
        /\ text \in [Rows -> [id : Nat, shown : Nat, pending : BOOLEAN, body : Texts \cup {Blank}]]
    BY <1>6 DEF SendShow, TypeOK, MasterTypes
  <2>2. /\ text'[r] = [text[r] EXCEPT !.pending = FALSE]
        /\ \A q \in Rows \ {r} : text'[q] = text[q]
        /\ text[r].id \in Nat /\ text[r].body \in Texts \cup {Blank}
    BY <2>1
  <2>3. Show(text[r].id, text[r].body) \in ToRow
    BY <2>2, SaidTypes
  <2> QED BY <2>1, <2>2, <2>3, MasterWritesSays
<1>7. CASE SendOp(r)
  <2>1. /\ Takes(r) /\ Write(r, Op(<<life, job[r].id>>)) /\ JobDue(r)
        /\ UNCHANGED <<conn, sock, busy, wish, welcomed, busySent, lastSeq, shows, known, logOn,
                       text, logTold, told>>
    BY <1>7 DEF SendOp
  <2>2. <<life, job[r].id>> \in Jobs
    BY <2>1 DEF JobDue, TypeOK, MasterTypes, NoJob, Jobs
  <2>3. Op(<<life, job[r].id>>) \in ToRow /\ Op(<<life, job[r].id>>).t = "Op"
    BY <2>2, SaidTypes, OtherMessages
  <2> QED BY <2>1, <2>3, MasterWritesSays
<1>8. CASE Ping(r) \/ JobOverdue(r) \/ AskJob(r) \/ WantLog(r)
  <2>1. /\ UNCHANGED <<link, conn, sock, busy, text, logTold, told, wish, welcomed, busySent,
                       lastSeq, shows, known, logOn>>
    BY <1>8 DEF Ping, JobOverdue, AskJob, WantLog, vars
  <2> QED BY <2>1, NothingSaid DEF SameSays
<1>9. CASE \E body \in Texts : SetText(r, body)
  BY <1>9, TextSetSays
<1> QED BY <1>1, <1>2, <1>3, <1>4, <1>5, <1>6, <1>7, <1>8, <1>9 DEF MasterStep, Asked

LEMMA ChangeSettingSays ==
  ASSUME TypeOK, TypeOK', SaysInv, NEW k \in Kinds, ChangeSetting(k)
  PROVE  SaysInv'
<1>1. /\ UNCHANGED <<link, conn, sock, busy, text, logTold, welcomed, busySent,
                     lastSeq, shows, known, logOn>>
      /\ wish' = [wish EXCEPT ![k] = @ + 1] /\ wish \in [Kinds -> Nat]
      /\ told' = [r \in Rows |-> told[r] \ {k}] /\ told \in [Rows -> SUBSET Kinds]
  BY DEF ChangeSetting, TypeOK, MasterTypes
<1>2. \A r \in Rows : told'[r] \subseteq told[r] /\ \A h \in told'[r] : wish'[h] = wish[h]
  BY <1>1
<1> QED BY <1>1, <1>2, NothingSaid DEF SameSays

-----------------------------------------------------------------------------
(* The row's steps *)

\* A welcomed row reads or writes on its connection.
LEMMA RowActs ==
  ASSUME TypeOK, TypeOK', TableInv, SaysInv, NEW r \in Rows, sock[r] # NoLink,
         link[sock[r]].down # <<>> \/ welcomed[r], welcomed'[r],
         \A k \in Links \ {sock[r]} : link'[k] = link[k],
         link'[sock[r]].m = link[sock[r]].m, link'[sock[r]].of = link[sock[r]].of,
         UNCHANGED <<conn, sock, text, busy, told, logTold, wish>>,
         \A q \in Rows \ {r} : SameSays(q),
         Shared(r) /\ ~link'[sock[r]].cut =>
           /\ Upto(link'[sock[r]].down, LogCtls, LogCtl(logTold[r]), logOn'[r], logTold[r])
           /\ \A k \in told[r] : Upto(link'[sock[r]].down, SettingsOf(k), Setting(k, wish[k]),
                                      known'[r][k], wish[k])
           /\ Upto(link'[sock[r]].up, Statuses, Status(busySent'[r]), busy[r], busySent'[r]),
         Shared(r) => /\ ShowsUpto(link'[sock[r]], text[r])
                      /\ Taken(link'[sock[r]], text[r], lastSeq'[r], shows'[r])
  PROVE  SaysInv'
<1> DEFINE l == sock[r]
           d == link'[l]
<1>1. l \in Links /\ RowIsHeard(r)
  BY DEF TypeOK, RowTypes, SaysInv
<1> DEFINE OK == SilentYet' /\ \A q \in Rows \ {r} : RowIsHeard(q)'
<1>2. OK
  BY <1>1, OthersSay
<1> HIDE DEF OK
<1>3. Shared(r)' <=> Shared(r)
  BY DEF Shared
<1>4. WelcomeFirst(r)'
  BY <1>1 DEF WelcomeFirst
<1>5. Heard(r)'
  BY <1>3 DEF Heard, Shared
<1>6. TextHeard(r)'
  <2>1. ASSUME conn[r] # NoLink PROVE ShownUpto(link'[conn[r]], text[r].id)
    <3>1. CASE conn[r] # l
      <4>1. link'[conn[r]] = link[conn[r]]
        BY <2>1, <3>1 DEF TypeOK, MasterTypes
      <4> QED BY <1>1, <2>1, <4>1 DEF RowIsHeard, TextHeard
    <3>2. CASE conn[r] = l
      <4>1. d \in Connections /\ lastSeq'[r] \in Nat /\ text[r].id \in Nat
        BY <1>1 DEF TypeOK, LinkTypes, RowTypes, MasterTypes
      <4>2. \A i \in DOMAIN d.up : d.up[i] \in ToMaster
        BY <4>1, QueueFields
      <4>3. lastSeq'[r] <= text[r].id /\ ShownUpto(d, lastSeq'[r])
        BY <2>1, <3>2 DEF Shared, Taken
      <4>4. \A i \in DOMAIN d.up : d.up[i].t = "Shown" => d.up[i].id \in Nat
        BY <4>2, MessageTypes
      <4> QED BY <3>2, <4>1, <4>3, <4>4 DEF ShownUpto
    <3> QED BY <3>1, <3>2
  <2>2. text[r].shown <= text[r].id /\ (text[r].pending => text[r].id # 0)
    BY <1>1 DEF RowIsHeard, TextHeard
  <2> QED BY <1>3, <2>1, <2>2 DEF TextHeard, Shared
<1> QED BY <1>2, <1>4, <1>5, <1>6, WithTheOthers DEF OK

\* The connection of a row that reads one message and may answer it.
LEMMA RowReadsFields ==
  ASSUME TypeOK, NEW r \in Rows, NEW t, Told(r, t), NEW msg \in ToMaster,
         Reads(r) \/ Replies(r, msg)
  PROVE  LET c == link[sock[r]]
             d == link'[sock[r]]
         IN  /\ sock[r] # NoLink /\ sock[r] \in Links /\ c \in Connections /\ c.down # <<>>
             /\ FromMaster(r) = Head(c.down) /\ Head(c.down) \in ToRow /\ Head(c.down).t = t
             /\ \A k \in Links \ {sock[r]} : link'[k] = link[k]
             /\ d.m = c.m /\ d.of = c.of /\ d.cut = c.cut /\ d.down = Tail(c.down)
             /\ c.up \in Seq(ToMaster) /\ c.down \in Seq(ToRow) /\ ReadDown(c) \in Connections
             /\ Reads(r) => d = ReadDown(c)
             /\ Replies(r, msg) => /\ d = Up(ReadDown(c), msg)
                                   /\ ~c.cut /\ c.m # "gone" => d.up = Append(c.up, msg)
<1> DEFINE c == link[sock[r]]
           d == link'[sock[r]]
<1>1. /\ sock[r] # NoLink /\ sock[r] \in Links /\ c \in Connections /\ c.down # <<>>
      /\ Head(c.down).t = t /\ FromMaster(r) = Head(c.down)
  BY DEF Told, FromMaster, TypeOK, RowTypes, LinkTypes
<1>2. /\ c.up \in Seq(ToMaster) /\ c.down \in Seq(ToRow) /\ ReadDown(c) \in Connections
      /\ Head(c.down) \in ToRow
  BY <1>1, EditTypes, QueueFields
<1>3. link' = [link EXCEPT ![sock[r]] = ReadDown(c)]
      \/ link' = [link EXCEPT ![sock[r]] = Up(ReadDown(c), msg)]
  BY DEF Reads, Replies
<1>4. \A k \in Links \ {sock[r]} : link'[k] = link[k]
  BY <1>3 DEF TypeOK, LinkTypes
<1>5. /\ Reads(r) => d = ReadDown(c)
      /\ Replies(r, msg) => d = Up(ReadDown(c), msg)
  BY <1>1 DEF Reads, Replies, TypeOK, LinkTypes
<1>6. /\ ReadDown(c).up = c.up /\ ReadDown(c).cut = c.cut /\ ReadDown(c).m = c.m
      /\ ReadDown(c).of = c.of /\ ReadDown(c).down = Tail(c.down)
  BY <1>1, QueueFields
<1>7. LET e == Up(ReadDown(c), msg)
      IN  /\ e.m = c.m /\ e.of = c.of /\ e.cut = c.cut /\ e.down = Tail(c.down)
          /\ ~c.cut /\ c.m # "gone" => e.up = Append(c.up, msg)
  BY <1>2, <1>6, QueueFields, SMTT(30)
<1> QED BY <1>1, <1>2, <1>4, <1>5, <1>6, <1>7

\* Settings and log state once the first message from the master is read.
LEMMA HeadHeard ==
  ASSUME TypeOK, SaysInv, NEW r \in Rows, NEW q \in Seq(ToRow), q # <<>>,
         Upto(q, LogCtls, LogCtl(logTold[r]), logOn[r], logTold[r]),
         \A k \in told[r] : Upto(q, SettingsOf(k), Setting(k, wish[k]), known[r][k], wish[k]),
         IF Head(q).t = "LogCtl" THEN logOn'[r] = Head(q).on ELSE logOn'[r] = logOn[r],
         \A k \in Kinds : IF Head(q).t = "Setting" /\ Head(q).kind = k
                          THEN known'[r][k] = Head(q).value ELSE known'[r][k] = known[r][k]
  PROVE  /\ Upto(Tail(q), LogCtls, LogCtl(logTold[r]), logOn'[r], logTold[r])
         /\ \A k \in told[r] :
              Upto(Tail(q), SettingsOf(k), Setting(k, wish[k]), known'[r][k], wish[k])
<1>1. Head(q) \in ToRow /\ told[r] \subseteq Kinds
  BY DEF TypeOK, MasterTypes
<1>2. Head(q) \notin LogCtls => logOn'[r] = logOn[r]
  BY <1>1, MessagesOfKinds
<1>3. Head(q) = LogCtl(logTold[r]) => logOn'[r] = logTold[r]
  BY OtherMessages
<1>4. Upto(Tail(q), LogCtls, LogCtl(logTold[r]), logOn'[r], logTold[r])
  BY <1>2, <1>3, UptoRead
<1>5. ASSUME NEW k \in told[r]
      PROVE  Upto(Tail(q), SettingsOf(k), Setting(k, wish[k]), known'[r][k], wish[k])
  <2>1. Head(q) \notin SettingsOf(k) => known'[r][k] = known[r][k]
    BY <1>1, MessagesOfKinds
  <2>2. Head(q) = Setting(k, wish[k]) => known'[r][k] = wish[k]
    BY <1>1, OtherMessages
  <2> QED BY <2>1, <2>2, UptoRead
<1> QED BY <1>4, <1>5

LEMMA OnItsConnection ==
  ASSUME TypeOK, TableInv, NEW r \in Rows, Shared(r)
  PROVE  /\ link[sock[r]].m = "open" /\ link[sock[r]].held /\ link[sock[r]] = link[conn[r]]
         /\ text[r].id \in Nat /\ lastSeq[r] \in Nat
BY DEF Shared, TableInv, Agree, EndsAgree, SocksAgree, TypeOK, MasterTypes, RowTypes

LEMMA WelcomedSays ==
  ASSUME TypeOK, TypeOK', TableInv, SaysInv, NEW r \in Rows, RowWelcomed(r)
  PROVE  SaysInv'
<1> DEFINE c == link[sock[r]]
           d == link'[sock[r]]
           msg == Status(Busy(r))
<1>1. /\ Told(r, "Welcome") /\ Replies(r, msg) /\ ~welcomed[r]
      /\ UNCHANGED <<conn, sock, text, busy, told, logTold, wish, shows, known, logOn>>
      /\ welcomed'[r] /\ lastSeq'[r] = 0 /\ busySent'[r] = Busy(r)
      /\ \A q \in Rows \ {r} : SameSays(q)
  BY DEF RowWelcomed, TypeOK, RowTypes, SameSays
<1>2. Busy(r) \in BOOLEAN /\ msg \in ToMaster /\ msg.t = "Status" /\ msg \in Statuses
  <2>1. Busy(r) \in BOOLEAN
    BY DEF Busy
  <2> QED BY <2>1, SaidTypes, OtherMessages, KindsOfMessages
<1>3. /\ sock[r] # NoLink /\ sock[r] \in Links /\ c \in Connections /\ c.down # <<>>
      /\ Head(c.down) \in ToRow /\ Head(c.down).t = "Welcome"
      /\ \A k \in Links \ {sock[r]} : link'[k] = link[k]
      /\ d.m = c.m /\ d.of = c.of /\ d.cut = c.cut /\ d.down = Tail(c.down)
      /\ c.up \in Seq(ToMaster) /\ c.down \in Seq(ToRow) /\ ReadDown(c) \in Connections
      /\ d = Up(ReadDown(c), msg)
      /\ ~c.cut /\ c.m # "gone" => d.up = Append(c.up, msg)
  BY <1>1, <1>2, RowReadsFields
<1>4. RowIsHeard(r)
  BY DEF SaysInv
<1>5. ASSUME Shared(r), ~d.cut
      PROVE  /\ Upto(d.down, LogCtls, LogCtl(logTold[r]), logOn'[r], logTold[r])
             /\ \A k \in told[r] :
                  Upto(d.down, SettingsOf(k), Setting(k, wish[k]), known'[r][k], wish[k])
             /\ Upto(d.up, Statuses, Status(busySent'[r]), busy[r], busySent'[r])
  <2>1. /\ Upto(c.down, LogCtls, LogCtl(logTold[r]), logOn[r], logTold[r])
        /\ \A k \in told[r] :
             Upto(c.down, SettingsOf(k), Setting(k, wish[k]), known[r][k], wish[k])
        /\ d.up = Append(c.up, msg)
    BY <1>3, <1>4, <1>5, OnItsConnection DEF RowIsHeard, Heard
  <2>2. Upto(d.up, Statuses, Status(busySent'[r]), busy[r], busySent'[r])
    BY <1>1, <1>2, <1>3, <2>1, UptoAppend
  <2> QED BY <1>1, <1>3, <2>1, <2>2, HeadHeard
<1>6. ASSUME Shared(r)
      PROVE  ShowsUpto(d, text[r]) /\ Taken(d, text[r], lastSeq'[r], shows'[r])
  <2>1. /\ c.up = <<>> /\ ShowsUpto(c, text[r]) /\ text[r].id \in Nat
        /\ text[r].id = 0 \/ text[r].shown # text[r].id
    BY <1>1, <1>4, <1>6, OnItsConnection DEF RowIsHeard, WelcomeFirst, TextHeard
  <2>2. ShowsUpto(ReadDown(c), text[r])
    BY <1>3, <2>1, ShowsQueue
  <2>3. ShowsUpto(d, text[r])
    BY <1>3, <2>2, ShowsQueue
  <2>4. ShownUpto(c, 0)
    BY <2>1 DEF ShownUpto
  <2>5. ShownUpto(ReadDown(c), 0)
    BY <1>3, <2>4, ShownQueue
  <2>6. ShownUpto(d, 0)
    BY <1>2, <1>3, <2>5, ShownQueue
  <2> QED BY <1>1, <2>1, <2>3, <2>6 DEF Taken
<1> QED BY <1>1, <1>3, <1>5, <1>6, RowActs

\* Everything else a row reads from the master.
LEMMA RowReadsSays ==
  ASSUME TypeOK, TypeOK', TableInv, SaysInv, NEW r \in Rows, NEW t, Told(r, t), welcomed[r],
         NEW msg \in ToMaster, msg.t # "Status",
         Reads(r) \/ Replies(r, msg),
         UNCHANGED <<conn, sock, text, busy, told, logTold, wish, welcomed, busySent>>,
         \A q \in Rows \ {r} : SameSays(q),
         IF t = "LogCtl" THEN logOn'[r] = FromMaster(r).on ELSE logOn'[r] = logOn[r],
         \A k \in Kinds : IF t = "Setting" /\ FromMaster(r).kind = k
                          THEN known'[r][k] = FromMaster(r).value
                          ELSE known'[r][k] = known[r][k],
         IF msg.t = "Shown"
         THEN /\ t = "Show" /\ msg.id = FromMaster(r).id /\ FromMaster(r).id > lastSeq[r]
              /\ lastSeq'[r] = FromMaster(r).id /\ shows'[r] = FromMaster(r).body
         ELSE lastSeq'[r] = lastSeq[r] /\ shows'[r] = shows[r]
  PROVE  SaysInv'
<1> DEFINE c == link[sock[r]]
           d == link'[sock[r]]
           m == Head(c.down)
<1>1. /\ sock[r] # NoLink /\ sock[r] \in Links /\ c \in Connections /\ c.down # <<>>
      /\ FromMaster(r) = m /\ m \in ToRow /\ m.t = t
      /\ \A k \in Links \ {sock[r]} : link'[k] = link[k]
      /\ d.m = c.m /\ d.of = c.of /\ d.cut = c.cut /\ d.down = Tail(c.down)
      /\ c.up \in Seq(ToMaster) /\ c.down \in Seq(ToRow) /\ ReadDown(c) \in Connections
      /\ d = ReadDown(c) \/ d = Up(ReadDown(c), msg)
      /\ d = ReadDown(c) \/ (~c.cut /\ c.m # "gone" => d.up = Append(c.up, msg))
  BY RowReadsFields
<1>2. RowIsHeard(r) /\ welcomed'[r] /\ ReadDown(c).up = c.up
  BY <1>1, QueueFields DEF SaysInv
<1>3. ASSUME Shared(r), ~d.cut
      PROVE  /\ Upto(d.down, LogCtls, LogCtl(logTold[r]), logOn'[r], logTold[r])
             /\ \A k \in told[r] :
                  Upto(d.down, SettingsOf(k), Setting(k, wish[k]), known'[r][k], wish[k])
             /\ Upto(d.up, Statuses, Status(busySent'[r]), busy[r], busySent'[r])
  <2>1. /\ Upto(c.down, LogCtls, LogCtl(logTold[r]), logOn[r], logTold[r])
        /\ \A k \in told[r] :
             Upto(c.down, SettingsOf(k), Setting(k, wish[k]), known[r][k], wish[k])
        /\ Upto(c.up, Statuses, Status(busySent[r]), busy[r], busySent[r])
        /\ d.up = c.up \/ d.up = Append(c.up, msg)
    BY <1>1, <1>2, <1>3, OnItsConnection DEF RowIsHeard, Heard
  <2>2. msg \notin Statuses /\ busySent[r] \in BOOLEAN /\ Status(busySent[r]) \in ToMaster
    BY KindsOfMessages, SaidTypes DEF TypeOK, RowTypes
  <2> HIDE DEF c, d, m
  <2>3. Upto(d.up, Statuses, Status(busySent[r]), busy[r], busySent[r])
    <3>1. CASE d.up = c.up
      BY <2>1, <3>1
    <3>2. CASE d.up = Append(c.up, msg)
      BY <1>1, <2>1, <2>2, <3>2, UptoAppend
    <3> QED BY <2>1, <3>1, <3>2
  <2>4. /\ IF m.t = "LogCtl" THEN logOn'[r] = m.on ELSE logOn'[r] = logOn[r]
        /\ \A k \in Kinds : IF m.t = "Setting" /\ m.kind = k
                            THEN known'[r][k] = m.value ELSE known'[r][k] = known[r][k]
    BY <1>1
  <2>5. /\ Upto(d.down, LogCtls, LogCtl(logTold[r]), logOn'[r], logTold[r])
        /\ \A k \in told[r] :
             Upto(d.down, SettingsOf(k), Setting(k, wish[k]), known'[r][k], wish[k])
    BY <1>1, <2>1, <2>4, HeadHeard DEF m
  <2> QED BY <2>3, <2>5
<1>4. ASSUME Shared(r)
      PROVE  ShowsUpto(d, text[r]) /\ Taken(d, text[r], lastSeq'[r], shows'[r])
  <2>1. /\ ShowsUpto(c, text[r]) /\ text[r].id \in Nat /\ lastSeq[r] \in Nat
        /\ Taken(c, text[r], lastSeq[r], shows[r])
    BY <1>2, <1>4, OnItsConnection DEF RowIsHeard, TextHeard
  <2>2. /\ ShowsUpto(ReadDown(c), text[r])
        /\ m.t = "Show" => /\ m.id <= text[r].id
                           /\ m.id = text[r].id => ~text[r].pending /\ m.body = text[r].body
    BY <1>1, <2>1, ShowsQueue
  <2>3. ShowsUpto(d, text[r])
    BY <1>1, <2>2, ShowsQueue
  <2>4. CASE msg.t # "Shown"
    <3>1. ShownUpto(ReadDown(c), lastSeq[r])
      BY <1>1, <2>1, ShownQueue DEF Taken
    <3>2. ShownUpto(d, lastSeq[r])
      BY <1>1, <2>1, <2>4, <3>1, ShownQueue
    <3> QED BY <2>1, <2>3, <2>4, <3>2 DEF Taken
  <2>5. CASE msg.t = "Shown"
    <3>1. /\ m.t = "Show" /\ msg.id = m.id /\ m.id > lastSeq[r]
          /\ lastSeq'[r] = m.id /\ shows'[r] = m.body /\ m.id \in Nat
      BY <1>1, <2>5, MessageTypes
    <3>2. ShownUpto(c, m.id)
      <4>1. ShownUpto(c, lastSeq[r])
        BY <2>1 DEF Taken
      <4>2. \A i \in DOMAIN c.up : c.up[i].t = "Shown" => c.up[i].id \in Nat
        BY <1>1, MessageTypes
      <4> HIDE DEF m
      <4> QED BY <2>1, <3>1, <4>1, <4>2 DEF ShownUpto
    <3>3. ShownUpto(ReadDown(c), m.id)
      BY <1>1, <3>1, <3>2, ShownQueue
    <3>4. ShownUpto(d, m.id)
      BY <1>1, <3>1, <3>3, ShownQueue
    <3>5. text[r].shown = text[r].id => m.id = text[r].id
      BY <2>1, <2>2, <3>1 DEF Taken
    <3> QED BY <2>2, <2>3, <3>1, <3>4, <3>5 DEF Taken
  <2> QED BY <2>4, <2>5
<1> QED BY <1>1, <1>2, <1>3, <1>4, RowActs

\* What a row says of itself.
LEMMA RowTellsSays ==
  ASSUME TypeOK, TypeOK', TableInv, SaysInv, NEW r \in Rows, sock[r] # NoLink, welcomed[r],
         NEW msg \in ToMaster, Says(r, msg),
         UNCHANGED <<conn, sock, text, busy, told, logTold, wish, welcomed, lastSeq, shows,
                     known, logOn>>,
         \A q \in Rows \ {r} : busySent'[q] = busySent[q],
         \/ msg = Status(busySent'[r])
         \/ msg.t = "OpState" /\ busySent'[r] = busySent[r]
  PROVE  SaysInv'
<1> DEFINE c == link[sock[r]]
           d == link'[sock[r]]
<1>1. /\ sock[r] \in Links /\ c \in Connections /\ d = Up(c, msg)
      /\ \A k \in Links \ {sock[r]} : link'[k] = link[k]
  BY DEF Says, TypeOK, RowTypes, LinkTypes
<1>2. /\ d.m = c.m /\ d.of = c.of /\ d.cut = c.cut /\ d.down = c.down
      /\ IF c.cut \/ c.m = "gone" THEN d = c ELSE d.up = Append(c.up, msg)
      /\ c.up \in Seq(ToMaster)
  BY <1>1, QueueFields
<1>3. RowIsHeard(r) /\ welcomed'[r] /\ \A q \in Rows \ {r} : SameSays(q)
  BY DEF SaysInv, SameSays
<1>4. ASSUME Shared(r), ~d.cut
      PROVE  /\ Upto(d.down, LogCtls, LogCtl(logTold[r]), logOn'[r], logTold[r])
             /\ \A k \in told[r] :
                  Upto(d.down, SettingsOf(k), Setting(k, wish[k]), known'[r][k], wish[k])
             /\ Upto(d.up, Statuses, Status(busySent'[r]), busy[r], busySent'[r])
  <2>1. /\ Upto(c.down, LogCtls, LogCtl(logTold[r]), logOn[r], logTold[r])
        /\ \A k \in told[r] :
             Upto(c.down, SettingsOf(k), Setting(k, wish[k]), known[r][k], wish[k])
        /\ Upto(c.up, Statuses, Status(busySent[r]), busy[r], busySent[r])
        /\ d.up = Append(c.up, msg)
    BY <1>2, <1>3, <1>4, OnItsConnection DEF RowIsHeard, Heard
  <2>2. Status(busySent[r]) \in ToMaster
    BY SaidTypes DEF TypeOK, RowTypes
  <2>3. CASE msg = Status(busySent'[r])
    BY <1>2, <2>1, <2>3, UptoAppend
  <2>4. CASE msg.t = "OpState" /\ busySent'[r] = busySent[r]
    BY <1>2, <2>1, <2>2, <2>4, UptoAppend, KindsOfMessages
  <2> QED BY <1>2, <2>1, <2>3, <2>4
<1>5. ASSUME Shared(r)
      PROVE  ShowsUpto(d, text[r]) /\ Taken(d, text[r], lastSeq'[r], shows'[r])
  <2>1. /\ ShowsUpto(c, text[r]) /\ lastSeq[r] \in Nat
        /\ Taken(c, text[r], lastSeq[r], shows[r])
    BY <1>3, <1>5, OnItsConnection DEF RowIsHeard, TextHeard
  <2>2. ShowsUpto(d, text[r])
    BY <1>1, <2>1, ShowsQueue
  <2>3. msg.t # "Shown"
    BY OtherMessages
  <2>4. ShownUpto(d, lastSeq[r])
    BY <1>1, <2>1, <2>3, ShownQueue DEF Taken
  <2> QED BY <2>1, <2>2, <2>4 DEF Taken
<1> QED BY <1>1, <1>2, <1>3, <1>4, <1>5, RowActs

LEMMA RowStepSays ==
  ASSUME TypeOK, TypeOK', TableInv, SaysInv, NEW r \in Rows, RowStep(r), ~RowSeesClosed(r)
  PROVE  SaysInv'
<1>0. /\ \A n, ph : OpState(n, ph).t = "OpState" /\ OpState(n, ph).t # "Shown"
      /\ \A n : Shown(n).t = "Shown" /\ Shown(n).id = n
  BY OtherMessages
<1>9. Hello(r) \in ToMaster /\ Hello(r).t = "Hello"
  BY DEF Hello, ToMaster, TypeOK, RowTypes
<1>1. CASE RowWelcomed(r)
  BY <1>1, WelcomedSays
<1>2. CASE RowTakesText(r)
  <2>1. /\ Told(r, "Show") /\ welcomed[r]
        /\ UNCHANGED <<conn, sock, text, busy, told, logTold, wish, welcomed, busySent, known,
                       logOn>>
        /\ FromMaster(r) \in ToRow /\ FromMaster(r).t = "Show" /\ FromMaster(r).id \in Nat
    BY <1>2, RowReads, MessageTypes DEF RowTakesText, TypeOK
  <2>2. CASE FromMaster(r).id > lastSeq[r]
    <3>1. /\ Replies(r, Shown(FromMaster(r).id))
          /\ lastSeq' = [lastSeq EXCEPT ![r] = FromMaster(r).id]
          /\ shows' = [shows EXCEPT ![r] = FromMaster(r).body]
      BY <1>2, <2>2 DEF RowTakesText
    <3>2. /\ lastSeq'[r] = FromMaster(r).id /\ shows'[r] = FromMaster(r).body
          /\ \A q \in Rows \ {r} : SameSays(q)
      BY <2>1, <3>1 DEF TypeOK, RowTypes, SameSays
    <3>3. Shown(FromMaster(r).id) \in ToMaster
      BY <2>1, SaidTypes
    <3> QED BY <1>0, <2>1, <2>2, <3>1, <3>2, <3>3, RowReadsSays
  <2>3. CASE ~(FromMaster(r).id > lastSeq[r])
    <3>1. Reads(r) /\ UNCHANGED <<lastSeq, shows>>
      BY <1>2, <2>3 DEF RowTakesText
    <3>2. \A q \in Rows : SameSays(q)
      BY <2>1, <3>1 DEF SameSays
    <3> QED BY <1>9, <2>1, <3>1, <3>2, RowReadsSays
  <2> QED BY <2>2, <2>3
<1>3. CASE RowTakesSetting(r)
  <2>1. /\ Told(r, "Setting") /\ welcomed[r] /\ Reads(r)
        /\ UNCHANGED <<conn, sock, text, busy, told, logTold, wish, welcomed, busySent, lastSeq,
                       shows, logOn>>
        /\ known' = [known EXCEPT ![r][FromMaster(r).kind] = FromMaster(r).value]
    BY <1>3 DEF RowTakesSetting
  <2>2. /\ known'[r] = [known[r] EXCEPT ![FromMaster(r).kind] = FromMaster(r).value]
        /\ known[r] \in [Kinds -> Nat]
        /\ \A q \in Rows \ {r} : known'[q] = known[q]
    BY <2>1 DEF TypeOK, RowTypes
  <2>3. \A k \in Kinds : IF FromMaster(r).kind = k THEN known'[r][k] = FromMaster(r).value
                         ELSE known'[r][k] = known[r][k]
    BY <2>2
  <2>4. \A q \in Rows \ {r} : SameSays(q)
    BY <2>1, <2>2 DEF SameSays
  <2> QED BY <1>9, <2>1, <2>3, <2>4, RowReadsSays
<1>4. CASE RowTakesLogCtl(r)
  <2>1. /\ Told(r, "LogCtl") /\ welcomed[r] /\ Reads(r)
        /\ UNCHANGED <<conn, sock, text, busy, told, logTold, wish, welcomed, busySent, lastSeq,
                       shows, known>>
        /\ logOn' = [logOn EXCEPT ![r] = FromMaster(r).on]
    BY <1>4 DEF RowTakesLogCtl
  <2>2. logOn'[r] = FromMaster(r).on /\ \A q \in Rows \ {r} : SameSays(q)
    BY <2>1 DEF TypeOK, RowTypes, SameSays
  <2> QED BY <1>9, <2>1, <2>2, RowReadsSays
<1>5. CASE RowTakesOp(r)
  <2>1. /\ Told(r, "Op") /\ welcomed[r]
        /\ UNCHANGED <<conn, sock, text, busy, told, logTold, wish, welcomed, busySent, lastSeq,
                       shows, known, logOn>>
        /\ \/ Replies(r, OpState(FromMaster(r).id, "running"))
           \/ Replies(r, OpState(FromMaster(r).id, "refused"))
    BY <1>5 DEF RowTakesOp
  <2>2. FromMaster(r) \in ToRow /\ FromMaster(r).t = "Op"
    BY <2>1, RowReads DEF TypeOK
  <2>3. FromMaster(r).id \in 1..MaxJobs
    BY <2>2, MessageTypes DEF Jobs
  <2>4. /\ OpState(FromMaster(r).id, "running") \in ToMaster
        /\ OpState(FromMaster(r).id, "refused") \in ToMaster
    BY <2>3, SaidTypes
  <2>5. \A q \in Rows : SameSays(q)
    BY <2>1 DEF SameSays
  <2> QED BY <1>0, <2>1, <2>4, <2>5, RowReadsSays
<1>6. CASE UnitJobStarts(r) \/ \E how \in {"ok", "failed"} : UnitJobEnds(r, how)
  <2>1. UNCHANGED <<link, conn, sock, text, busy, told, logTold, wish, welcomed, busySent, lastSeq,
                    shows, known, logOn>>
    BY <1>6 DEF UnitJobStarts, UnitJobEnds
  <2> QED BY <2>1, NothingSaid DEF SameSays
<1>7. CASE RowReportsEnd(r)
  <2>1. /\ sock[r] # NoLink /\ welcomed[r] /\ Says(r, OpState(op[r].job[2], op[r].st))
        /\ UNCHANGED <<conn, sock, text, busy, told, logTold, wish, welcomed, busySent, lastSeq,
                       shows, known, logOn>>
        /\ op[r].st \in {"ok", "failed"}
    BY <1>7 DEF RowReportsEnd, Writes
  <2>2. op[r].job \in Jobs
    BY <2>1 DEF TypeOK, RowTypes, NoOp
  <2>3. OpState(op[r].job[2], op[r].st) \in ToMaster
    BY <2>1, <2>2, SaidTypes DEF Jobs
  <2> QED BY <1>0, <2>1, <2>3, RowTellsSays
<1>8. CASE RowSaysStatus(r)
  <2>1. /\ sock[r] # NoLink /\ welcomed[r] /\ Says(r, Status(Busy(r)))
        /\ UNCHANGED <<conn, sock, text, busy, told, logTold, wish, welcomed, lastSeq,
                       shows, known, logOn>>
        /\ busySent' = [busySent EXCEPT ![r] = Busy(r)]
    BY <1>8 DEF RowSaysStatus, Writes
  <2>2. Busy(r) \in BOOLEAN
    BY DEF Busy
  <2>3. Status(Busy(r)) \in ToMaster
    BY <2>2, SaidTypes
  <2>4. busySent'[r] = Busy(r) /\ \A q \in Rows \ {r} : busySent'[q] = busySent[q]
    BY <2>1 DEF TypeOK, RowTypes
  <2> QED BY <2>1, <2>3, <2>4, RowTellsSays
<1> QED BY <1>1, <1>2, <1>3, <1>4, <1>5, <1>6, <1>7, <1>8 DEF RowStep

\* A row lets go of its connection, or starts again.
LEMMA HangUpSays ==
  ASSUME TypeOK, TypeOK', TableInv, SaysInv, NEW r \in Rows,
         IF sock[r] = NoLink THEN link' = link
         ELSE link' = [link EXCEPT ![sock[r]] = DialerLetsGo(@)],
         sock' = [sock EXCEPT ![r] = NoLink], UNCHANGED <<conn, text, busy, told, logTold, wish>>,
         ~welcomed'[r], ~logOn'[r],
         \A q \in Rows \ {r} : SameSays(q)
  PROVE  SaysInv'
<1> DEFINE l == sock[r]
<1>1. /\ \A q \in Rows : /\ conn[q] \in Links \cup {NoLink}
                         /\ conn[q] # NoLink => link[conn[q]].m = "open" /\ link[conn[q]].by = q
      /\ \A q \in Rows : sock[q] # NoLink => link[sock[q]].by = q
      /\ \A k \in Links : link[k].m = "gone" => link[k].up = <<>> /\ link[k].of = Nobody
  <2>1. \A k \in Links : link[k].m = "gone" => link[k].of = Nobody
    BY NamesAreDistinct DEF TableInv, Agree, TypeOK, LinkTypes, Connections
  <2> QED BY <2>1 DEF TypeOK, MasterTypes, TableInv, Agree, EndsAgree, SocksAgree
<1>2. /\ \A k \in Links : k # l => link'[k] = link[k]
      /\ l \in Links => /\ link[l] \in Connections /\ link'[l] = DialerLetsGo(link[l])
      /\ l \in Links \cup {NoLink} /\ NoLink \notin Links
  BY NamesAreDistinct DEF TypeOK, LinkTypes, RowTypes
<1>3. l \in Links => /\ link'[l].m = link[l].m /\ link'[l].of = link[l].of
                     /\ link'[l].up = link[l].up
  BY <1>1, <1>2, HangUpFields
<1>4. \A k \in Links : /\ link'[k].m = link[k].m /\ link'[k].of = link[k].of
                       /\ link'[k].up = link[k].up
  BY <1>2, <1>3
<1>5. /\ sock'[r] = NoLink /\ \A q \in Rows \ {r} : sock'[q] = sock[q]
  BY DEF TypeOK, RowTypes
<1>6. RowIsHeard(r)'
  BY <1>1, <1>4, <1>5, RowHungUp DEF SaysInv
<1>7. ASSUME NEW q \in Rows \ {r} PROVE RowIsHeard(q)'
  <2>1. conn[q] # NoLink => conn[q] # l
    BY <1>1
  <2>2. conn[q] # NoLink => link'[conn[q]] = link[conn[q]]
    BY <1>1, <1>2, <2>1
  <2> QED BY <1>5, <2>2, RowFrame DEF SaysInv, Shortened
<1>8. SilentYet'
  <2> SUFFICES ASSUME NEW k \in Links, link'[k].m # "gone", link'[k].of = Nobody
               PROVE  /\ link'[k].down = <<>>
                      /\ \A i \in DOMAIN link'[k].up : link'[k].up[i].t = "Hello"
                      /\ \A q \in Rows : sock'[q] = k => ~welcomed'[q]
    BY DEF SilentYet
  <2>1. /\ link[k].down = <<>> /\ \A i \in DOMAIN link[k].up : link[k].up[i].t = "Hello"
        /\ \A q \in Rows : sock[q] = k => ~welcomed[q]
    BY <1>4 DEF SaysInv, SilentYet
  <2>2. link'[k].down = <<>>
    <3>1. CASE k # l
      BY <1>2, <2>1, <3>1
    <3>2. CASE k = l
      <4>1. link[k].m # "gone"
        BY <1>4
      <4>2. DialerLetsGo(link[k]).down = <<>>
        BY <1>2, <3>2, <4>1 DEF DialerLetsGo, Connections
      <4> QED BY <1>2, <3>2, <4>2
    <3> QED BY <3>1, <3>2
  <2>3. \A q \in Rows : sock'[q] = k => ~welcomed'[q]
    BY <1>2, <1>5, <2>1 DEF SameSays
  <2> QED BY <1>4, <2>1, <2>2, <2>3
<1> QED BY <1>6, <1>7, <1>8 DEF SaysInv

\* A row dials: the master knows nothing of it yet.
LEMMA DialSays ==
  ASSUME TypeOK, TypeOK', TableInv, SaysInv, NEW r \in Rows, NEW l \in Links, NEW a \in Addrs,
         Dial(r, l, a)
  PROVE  SaysInv'
<1>1. /\ sock[r] = NoLink /\ link[l] = Free /\ link \in [Links -> Connections]
      /\ link' = [link EXCEPT ![l] = Fresh(r, a, <<Hello(r)>>)]
      /\ sock' = [sock EXCEPT ![r] = l] /\ sock \in [Rows -> Links \cup {NoLink}]
      /\ UNCHANGED <<conn, text, busy, told, logTold, wish, welcomed, busySent, lastSeq, shows,
                     known, logOn>>
  BY DEF Dial, TypeOK, LinkTypes, RowTypes
<1>2. /\ link'[l].down = <<>> /\ link'[l].up = <<Hello(r)>>
      /\ \A k \in Links \ {l} : link'[k] = link[k]
      /\ link[l].m = "gone" /\ ~link[l].held
  BY <1>1 DEF Fresh, Free
<1>3. /\ \A q \in Rows : /\ conn[q] \in Links \cup {NoLink}
                         /\ conn[q] # NoLink => link[conn[q]].m = "open"
      /\ \A q \in Rows : sock[q] # NoLink => link[sock[q]].held
  BY DEF TypeOK, MasterTypes, TableInv, Agree, EndsAgree, SocksAgree
<1>4. \A q \in Rows : conn[q] # l /\ sock[q] # l
  BY <1>2, <1>3, NamesAreDistinct
<1>5. sock'[r] = l /\ \A q \in Rows \ {r} : sock'[q] = sock[q]
  BY <1>1
<1>6. \A q \in Rows : conn[q] # NoLink => link'[conn[q]] = link[conn[q]]
  BY <1>2, <1>3, <1>4
<1>7. \A q \in Rows \ {r} : RowIsHeard(q)'
  BY <1>1, <1>5, <1>6, RowFrame DEF SaysInv, Shortened, SameSays
<1>8. ~welcomed[r] /\ ~logOn[r] /\ TextHeard(r)
  BY <1>1 DEF SaysInv, RowIsHeard, WelcomeFirst
<1>9. RowIsHeard(r)'
  <2>1. ~Shared(r)'
    BY <1>1, <1>4, <1>5 DEF Shared
  <2>2. WelcomeFirst(r)' /\ Heard(r)'
    BY <1>1, <1>8, <2>1 DEF WelcomeFirst, Heard
  <2>3. conn[r] # NoLink => ShownUpto(link'[conn[r]], text[r].id)
    BY <1>6, <1>8 DEF TextHeard
  <2>4. TextHeard(r)'
    BY <1>1, <1>8, <2>1, <2>3 DEF TextHeard
  <2> QED BY <2>2, <2>4 DEF RowIsHeard
<1>10. SilentYet'
  <2> SUFFICES ASSUME NEW k \in Links, link'[k].m # "gone", link'[k].of = Nobody
               PROVE  /\ link'[k].down = <<>>
                      /\ \A i \in DOMAIN link'[k].up : link'[k].up[i].t = "Hello"
                      /\ \A q \in Rows : sock'[q] = k => ~welcomed[q]
    BY <1>1 DEF SilentYet
  <2>1. CASE k = l
    <3>1. \A i \in DOMAIN <<Hello(r)>> : <<Hello(r)>>[i].t = "Hello"
      BY DEF Hello
    <3>2. \A q \in Rows : sock'[q] = k => q = r
      BY <1>4, <1>5, <2>1
    <3> QED BY <1>2, <1>8, <2>1, <3>1, <3>2
  <2>2. CASE k # l
    <3>1. \A q \in Rows : sock'[q] = k => sock[q] = k
      BY <1>5, <2>2
    <3> QED BY <1>2, <2>2, <3>1 DEF SaysInv, SilentYet
  <2> QED BY <2>1, <2>2
<1> QED BY <1>7, <1>9, <1>10 DEF SaysInv

-----------------------------------------------------------------------------
(* Connections that come, go and break *)

\* The master has let go of the connections D, or they were no row's and not held.
LEMMA GoneSays ==
  ASSUME TypeOK, TypeOK', SaysInv, NEW D \in SUBSET Links, \A l \in D : link'[l].m = "gone",
         \A l \in Links \ D : link'[l] = link[l],
         \A r \in Rows : \/ conn'[r] = NoLink
                         \/ conn'[r] = conn[r] /\ conn[r] \notin D /\ busy'[r] = busy[r],
         UNCHANGED <<sock, text, told, logTold, wish, welcomed, busySent, lastSeq, shows,
                     known, logOn>>
  PROVE  SaysInv'
<1>1. \A l \in Links : link'[l].m # "gone" /\ link'[l].of = Nobody =>
        /\ link[l].m # "gone" /\ link[l].of = Nobody
        /\ link[l].down = <<>> => link'[l].down = <<>>
        /\ \A i \in DOMAIN link'[l].up :
             i \in DOMAIN link[l].up /\ link'[l].up[i] = link[l].up[i]
  OBVIOUS
<1>2. \A r \in Rows :
        \/ conn'[r] = NoLink /\ text'[r] \in {text[r], NoText}
        \/ /\ conn'[r] = conn[r] /\ SameSays(r)
           /\ conn[r] # NoLink => Shortened(link[conn[r]], link'[conn[r]])
  <2> TAKE r \in Rows
  <2>1. CASE conn'[r] = NoLink
    BY <2>1
  <2>2. CASE conn'[r] = conn[r] /\ conn[r] \notin D /\ busy'[r] = busy[r]
    <3>1. conn[r] # NoLink => link'[conn[r]] = link[conn[r]]
      BY <2>2 DEF TypeOK, MasterTypes
    <3> QED BY <2>2, <3>1 DEF SameSays, Shortened
  <2> QED BY <2>1, <2>2
<1> QED BY <1>1, <1>2, ComeAndGo

LEMMA ClosedSays ==
  ASSUME TypeOK, TypeOK', SaysInv, NEW l \in Links, link'[l].m = "gone",
         \A k \in Links \ {l} : link'[k] = link[k], Closed(l),
         UNCHANGED <<sock, text, told, logTold, wish, welcomed, busySent, lastSeq, shows,
                     known, logOn>>
  PROVE  SaysInv'
<1>1. \A r \in Rows : \/ conn'[r] = NoLink
                      \/ conn'[r] = conn[r] /\ conn[r] \notin {l} /\ busy'[r] = busy[r]
  BY DEF Closed
<1> QED BY <1>1, GoneSays

LEMMA AcceptSays ==
  ASSUME TypeOK, TypeOK', TableInv, SaysInv, NEW l \in Links, Accept(l)
  PROVE  SaysInv'
<1>1. /\ link \in [Links -> Connections] /\ nobodies \in Seq(Links)
      /\ Agree(link, conn, nobodies) /\ link[l].m = "backlog"
      /\ UNCHANGED <<conn, busy, sock, text, told, logTold, wish, welcomed, busySent, lastSeq,
                     shows, known, logOn>>
      /\ \A r \in Rows : conn[r] \in Links \cup {NoLink}
  BY DEF TypeOK, LinkTypes, MasterTypes, TableInv, Accept
<1>2. \A r \in Rows : conn[r] # NoLink => link[conn[r]].m = "open" /\ link[conn[r]].of = r
  BY <1>1 DEF Agree
<1>3. link[l].of = Nobody /\ \A r \in Rows : conn[r] # l
  <2>1. \A r \in Rows : conn[r] # l
    BY <1>1, <1>2, NamesAreDistinct
  <2>2. link[l].of \in Rows \cup {Nobody}
    BY <1>1 DEF Connections
  <2>3. link[l].of # Nobody => conn[link[l].of] = l
    BY <1>1 DEF Agree
  <2> QED BY <2>1, <2>2, <2>3
<1> DEFINE opened == [link[l] EXCEPT !.m = "open"]
<1>4. /\ opened.m = "open" /\ opened.of = Nobody /\ opened.down = link[l].down
      /\ opened.up = link[l].up
  BY <1>1, <1>3 DEF Connections
<1> HIDE DEF opened
<1>5. ASSUME NEW D \in SUBSET Links, l \notin D, \A k \in D : link'[k].m = "gone",
             \A k \in D : \A r \in Rows : conn[r] # k,
             \A k \in Links \ D : k # l => link'[k] = link[k], link'[l] = opened
      PROVE  SaysInv'
  <2>1. \A k \in Links : link'[k].m # "gone" /\ link'[k].of = Nobody =>
          /\ link[k].m # "gone" /\ link[k].of = Nobody
          /\ link[k].down = <<>> => link'[k].down = <<>>
          /\ \A i \in DOMAIN link'[k].up :
               i \in DOMAIN link[k].up /\ link'[k].up[i] = link[k].up[i]
    BY <1>1, <1>3, <1>4, <1>5
  <2>2. \A r \in Rows : conn[r] # NoLink => link'[conn[r]] = link[conn[r]]
    BY <1>1, <1>3, <1>5
  <2>3. \A r \in Rows : /\ conn'[r] = conn[r] /\ SameSays(r)
                        /\ conn[r] # NoLink => Shortened(link[conn[r]], link'[conn[r]])
    BY <1>1, <2>2 DEF SameSays, Shortened
  <2> QED BY <1>1, <2>1, <2>3, ComeAndGo
<1>6. CASE link' = [link EXCEPT ![l].m = "open"]
  <2>1. link'[l] = opened /\ \A k \in Links \ {l} : link'[k] = link[k]
    BY <1>1, <1>6 DEF opened
  <2>2. {} \in SUBSET Links /\ l \notin {}
    OBVIOUS
  <2> QED BY <1>5, <2>1, <2>2
<1>7. CASE /\ nobodies # <<>>
           /\ LET roomier == [link EXCEPT ![Head(nobodies)] = MasterLetsGo(@)]
              IN link' = [roomier EXCEPT ![l].m = "open"]
  <2> DEFINE h == Head(nobodies)
             roomier == [link EXCEPT ![h] = MasterLetsGo(@)]
  <2>1. h \in Links /\ h \in Members(nobodies)
    BY <1>1, <1>7 DEF Members
  <2>2. link[h].m = "open" /\ link[h].of = Nobody /\ h # l
    BY <1>1, <2>1 DEF Agree, Opened
  <2>3. \A r \in Rows : conn[r] # h
    BY <1>2, <2>2, <2>1, NamesAreDistinct
  <2> HIDE DEF h
  <2>4. roomier[l] = link[l] /\ roomier[h] = MasterLetsGo(link[h])
        /\ \A k \in Links \ {h} : roomier[k] = link[k]
    BY <1>1, <2>1, <2>2
  <2>5. DOMAIN roomier = Links
    BY <1>1
  <2>6. link' = [roomier EXCEPT ![l].m = "open"]
    BY <1>7 DEF h
  <2> HIDE DEF roomier
  <2>7. /\ link'[l] = opened /\ link'[h] = MasterLetsGo(link[h])
        /\ \A k \in Links \ {h} : k # l => link'[k] = link[k]
    BY <2>1, <2>2, <2>4, <2>5, <2>6 DEF opened
  <2>8. MasterLetsGo(link[h]).m = "gone"
    BY <1>1, <2>1, LetGoFields
  <2> QED BY <1>5, <2>1, <2>2, <2>3, <2>7, <2>8
<1>8. CASE link' = [link EXCEPT ![l] = MasterLetsGo(@)]
  <2>1. link'[l].m = "gone" /\ \A k \in Links \ {l} : link'[k] = link[k]
    BY <1>1, <1>8, LetGoFields
  <2>2. \A r \in Rows : conn'[r] = conn[r] /\ conn[r] \notin {l} /\ busy'[r] = busy[r]
    BY <1>1, <1>3
  <2> QED BY <1>1, <2>1, <2>2, GoneSays
<1> QED BY <1>6, <1>7, <1>8 DEF Accept

\* A Hello that is taken: the row's account starts anew, with nothing said.
LEMMA TakenHelloSays ==
  ASSUME TypeOK, TypeOK', TableInv, SaysInv, NEW l \in Links, NEW r \in Rows,
         link[l].m = "open", link[l].of = Nobody, link[l].up # <<>>,
         \A k \in Links \ {l} :
           link'[k] = IF k = conn[r] THEN MasterLetsGo(link[k]) ELSE link[k],
         link'[l] = [Down(ReadUp(link[l]), Welcome) EXCEPT !.of = r],
         conn' = [conn EXCEPT ![r] = l], busy' = [busy EXCEPT ![r] = FALSE],
         text' = [text EXCEPT ![r] = Resend(@)], told' = [told EXCEPT ![r] = {}],
         logTold' = [logTold EXCEPT ![r] = FALSE],
         UNCHANGED <<sock, wish, welcomed, busySent, lastSeq, shows, known, logOn>>
  PROVE  SaysInv'
<1> DEFINE c == link[l]
           d == link'[l]
<1>1. /\ c \in Connections /\ \A k \in Links : link[k] \in Connections
      /\ c.up \in Seq(ToMaster) /\ ReadUp(c) \in Connections
      /\ \A q \in Rows : conn[q] \in Links \cup {NoLink}
  BY EditTypes, QueueFields DEF TypeOK, LinkTypes, MasterTypes
<1>2. \A q \in Rows : conn[q] # NoLink => link[conn[q]].m = "open" /\ link[conn[q]].of = q
  BY DEF TableInv, Agree
<1>3. \A q \in Rows : conn[q] # l /\ (q # r /\ conn[q] # NoLink => conn[q] # conn[r])
  BY <1>2, NamesAreDistinct
<1>4. /\ c.down = <<>> /\ \A i \in DOMAIN c.up : c.up[i].t = "Hello" /\ i = 1
      /\ sock[r] = l => ~welcomed[r] /\ ~logOn[r]
  BY DEF SaysInv, SilentYet, RowIsHeard, WelcomeFirst, TableInv, EndsAgree, HellosAgree
<1>5. Tail(c.up) = <<>>
  <2>1. Len(c.up) \in DOMAIN c.up /\ 1 \in DOMAIN c.up
    BY <1>1
  <2>2. Len(c.up) = 1
    BY <1>4, <2>1
  <2> QED BY <1>1, <2>2, OneRead
<1>6. /\ d.of = r /\ d.m = "open" /\ d.up = <<>> /\ d.down \in {<<>>, <<Welcome>>}
  <2> DEFINE p == ReadUp(c)
             e == Down(p, Welcome)
  <2>1. p \in Connections /\ p.up = <<>> /\ p.down = <<>> /\ p.m = "open"
    BY <1>1, <1>4, <1>5, QueueFields
  <2>2. Append(<<>>, Welcome) = <<Welcome>>
    OBVIOUS
  <2>3. /\ e.up = <<>> /\ e.m = "open"
        /\ e.down \in {<<>>, <<Welcome>>}
    <3>1. /\ e.up = p.up /\ e.m = p.m
          /\ e = p \/ e.down = Append(p.down, Welcome)
      BY <2>1, QueueFields
    <3> HIDE DEF p, e
    <3> QED BY <2>1, <2>2, <3>1
  <2>4. e \in Connections
    BY <2>1, SaidTypes, HelperTypes
  <2> HIDE DEF e
  <2>5. LET f == [e EXCEPT !.of = r]
        IN  f.of = r /\ f.m = e.m /\ f.up = e.up /\ f.down = e.down
    BY <2>4 DEF Connections
  <2> QED BY <2>3, <2>5 DEF e
<1>7. \A i \in DOMAIN d.down : d.down[i].t = "Welcome"
  <2>1. \A i \in DOMAIN <<Welcome>> : <<Welcome>>[i].t = "Welcome"
    BY OtherMessages
  <2> QED BY <1>6, <2>1
<1>8. /\ conn'[r] = l /\ ~logTold'[r] /\ told'[r] = {} /\ text'[r] = Resend(text[r])
      /\ logTold'[r] = FALSE
      /\ \A q \in Rows \ {r} : conn'[q] = conn[q] /\ SameSays(q)
  BY DEF TypeOK, MasterTypes, SameSays
<1> HIDE DEF c, d
<1>9. \A q \in Rows \ {r} : RowIsHeard(q)'
  <2>1. \A q \in Rows \ {r} : conn[q] # NoLink => link'[conn[q]] = link[conn[q]]
    BY <1>1, <1>3
  <2> QED BY <1>8, <2>1, RowFrame DEF SaysInv, Shortened
<1>10. Shared(r)' => ~welcomed[r] /\ logOn[r] = FALSE
  <2>1. logOn[r] \in BOOLEAN
    BY DEF TypeOK, RowTypes
  <2> QED BY <1>4, <1>8, <2>1 DEF Shared
<1>11. WelcomeFirst(r)'
  BY <1>6, <1>8 DEF WelcomeFirst, SaysInv, RowIsHeard, d
<1>12. Heard(r)'
  <2>1. \A i \in DOMAIN d.down : d.down[i] \notin LogCtls
    BY <1>7, KindsOfMessages
  <2>2. Shared(r)' => Upto(d.down, LogCtls, LogCtl(logTold'[r]), logOn'[r], logTold'[r])
    BY <1>8, <1>10, <2>1 DEF Upto
  <2> QED BY <1>8, <1>10, <2>2 DEF Heard, d
<1>13. TextHeard(r)'
  <2>1. /\ text[r] \in [id : Nat, shown : Nat, pending : BOOLEAN, body : Texts \cup {Blank}]
        /\ text[r].shown <= text[r].id /\ (text[r].pending => text[r].id # 0)
    BY DEF TypeOK, MasterTypes, SaysInv, RowIsHeard, TextHeard
  <2>2. LET t == Resend(text[r])
        IN  /\ t.shown <= t.id /\ (t.pending => t.id # 0)
            /\ t.id = 0 \/ t.shown # t.id
    BY <2>1 DEF Resend, ToSend
  <2>3. ShownUpto(d, text'[r].id) /\ ShowsUpto(d, text'[r])
    BY <1>6, <1>7 DEF ShownUpto, ShowsUpto
  <2> QED BY <1>8, <1>10, <2>2, <2>3 DEF TextHeard, d
<1>14. SilentYet'
  <2> SUFFICES ASSUME NEW k \in Links, link'[k].m # "gone", link'[k].of = Nobody
               PROVE  /\ link'[k].down = <<>>
                      /\ \A i \in DOMAIN link'[k].up : link'[k].up[i].t = "Hello"
                      /\ \A q \in Rows : sock[q] = k => ~welcomed[q]
    BY DEF SilentYet
  <2>1. k # l
    BY <1>6, NamesAreDistinct DEF d
  <2>2. k # conn[r]
    BY <1>1, <2>1, LetGoFields
  <2>3. link'[k] = link[k]
    BY <2>1, <2>2
  <2> QED BY <2>3 DEF SaysInv, SilentYet
<1> QED BY <1>9, <1>11, <1>12, <1>13, <1>14, WithTheOthers

LEMMA HelloSays ==
  ASSUME TypeOK, TypeOK', TableInv, SaysInv, NEW l \in Links, ReadHello(l)
  PROVE  SaysInv'
<1> DEFINE hello == Head(link[l].up)
           r == hello.row
           popped == ReadUp(link[l])
           replaced == [k \in Links |-> IF k = conn[r] THEN MasterLetsGo(link[k]) ELSE link[k]]
           D == {k \in Links : k = conn[r] \/ k = l}
<1>1. /\ link \in [Links -> Connections] /\ conn \in [Rows -> Links \cup {NoLink}]
      /\ busy \in [Rows -> BOOLEAN] /\ Agree(link, conn, nobodies)
  BY DEF TypeOK, LinkTypes, MasterTypes, TableInv
<1>2. /\ link[l].m = "open" /\ link[l].of = Nobody /\ link[l].up # <<>> /\ hello.t = "Hello"
      /\ UNCHANGED <<sock, welcomed, busySent, lastSeq, shows, known, logOn>>
      /\ link[l] \in Connections
  BY <1>1 DEF ReadHello
<1>3. r \in Rows
  BY <1>2, EditTypes, MessageTypes
<1>4. popped \in Connections /\ MasterLetsGo(popped).m = "gone"
  BY <1>2, EditTypes, LetGoFields
<1>5. \A q \in Rows : conn[q] # l /\ (q # r => conn[q] \notin D)
  BY <1>1, <1>2, <1>3, NamesAreDistinct DEF Agree
<1>6. /\ DOMAIN replaced = Links
      /\ \A k \in Links : replaced[k] = IF k = conn[r] THEN MasterLetsGo(link[k]) ELSE link[k]
      /\ \A k \in Links : MasterLetsGo(link[k]).m = "gone"
  BY <1>1, LetGoFields
<1> HIDE DEF hello, popped, replaced, r
<1>7. CASE /\ link' = [link EXCEPT ![l] = MasterLetsGo(popped)]
           /\ Closed(l) /\ UNCHANGED masterButConns
  <2>1. (\A k \in Links \ {l} : link'[k] = link[k]) /\ link'[l].m = "gone"
    BY <1>1, <1>4, <1>7
  <2> QED BY <1>2, <1>7, <2>1, ClosedSays
<1>8. CASE /\ link' = [replaced EXCEPT ![l] = MasterLetsGo(popped)]
           /\ conn' = [conn EXCEPT ![r] = NoLink]
           /\ busy' = [busy EXCEPT ![r] = FALSE]
           /\ UNCHANGED masterButConns
  <2>1. /\ \A k \in D : link'[k].m = "gone"
        /\ \A k \in Links \ D : link'[k] = link[k]
    BY <1>4, <1>6, <1>8
  <2>2. \A q \in Rows : \/ conn'[q] = NoLink
                        \/ conn'[q] = conn[q] /\ conn[q] \notin D /\ busy'[q] = busy[q]
    BY <1>1, <1>3, <1>5, <1>8
  <2>3. D \in SUBSET Links
    OBVIOUS
  <2> HIDE DEF D
  <2> QED BY <1>2, <1>8, <2>1, <2>2, <2>3, GoneSays
<1>9. CASE /\ link' = [replaced EXCEPT ![l] = [Down(popped, Welcome) EXCEPT !.of = r]]
           /\ conn' = [conn EXCEPT ![r] = l] /\ busy' = [busy EXCEPT ![r] = FALSE]
           /\ text' = [text EXCEPT ![r] = Resend(@)] /\ told' = [told EXCEPT ![r] = {}]
           /\ logTold' = [logTold EXCEPT ![r] = FALSE] /\ wish' = wish
  <2>1. /\ \A k \in Links \ {l} :
             link'[k] = IF k = conn[r] THEN MasterLetsGo(link[k]) ELSE link[k]
        /\ link'[l] = [Down(popped, Welcome) EXCEPT !.of = r]
    BY <1>6, <1>9
  <2>2. link'[l] = [Down(ReadUp(link[l]), Welcome) EXCEPT !.of = r]
    BY <2>1 DEF popped
  <2> QED BY <1>2, <1>3, <1>9, <2>1, <2>2, TakenHelloSays
<1> QED BY <1>7, <1>8, <1>9 DEF ReadHello, hello, popped, replaced, r

LEMMA OnLinkSays ==
  ASSUME TypeOK, TypeOK', TableInv, SaysInv, NEW l \in Links, OnLink(l)
  PROVE  SaysInv'
<1>0. /\ link \in [Links -> Connections] /\ link[l] \in Connections
      /\ \A r \in Rows : /\ conn[r] \in Links \cup {NoLink}
                         /\ conn[r] # NoLink => link[conn[r]].m = "open" /\ link[conn[r]].by = r
      /\ \A r \in Rows : sock[r] # NoLink => link[sock[r]].held /\ link[sock[r]].by = r
  BY DEF TypeOK, LinkTypes, MasterTypes, TableInv, Agree, EndsAgree, SocksAgree
<1>1. CASE Accept(l)
  BY <1>1, AcceptSays
<1>2. CASE HelloTimeout(l) \/ SeesClosed(l)
  <2>1. /\ link' = [link EXCEPT ![l] = MasterLetsGo(@)] /\ Closed(l)
        /\ UNCHANGED <<sock, text, told, logTold, wish, welcomed, busySent, lastSeq, shows,
                       known, logOn>>
    BY <1>2 DEF HelloTimeout, SeesClosed
  <2>2. (\A k \in Links \ {l} : link'[k] = link[k]) /\ link'[l].m = "gone"
    BY <1>0, <2>1, LetGoFields
  <2> QED BY <2>1, <2>2, ClosedSays
<1>3. CASE ReadHello(l)
  BY <1>3, HelloSays
<1>4. CASE StrangerCloses(l)
  <2>1. /\ link[l].by = Stranger /\ link'[l] = DialerLetsGo(link[l])
        /\ \A k \in Links \ {l} : link'[k] = link[k]
        /\ UNCHANGED <<conn, busy, sock, text, told, logTold, wish, welcomed, busySent, lastSeq,
                       shows, known, logOn>>
    BY <1>0, <1>4 DEF StrangerCloses
  <2>2. \A r \in Rows : conn[r] # l /\ sock[r] # l
    BY <1>0, <2>1, NamesAreDistinct
  <2>3. link'[l].m # "gone" => /\ link[l].m # "gone" /\ link'[l].of = link[l].of
                               /\ link'[l].up = link[l].up /\ link'[l].down = <<>>
    <3>1. Free.m = "gone"
      BY DEF Free
    <3> QED BY <1>0, <2>1, <3>1 DEF DialerLetsGo, Connections
  <2>4. \A k \in Links : link'[k].m # "gone" /\ link'[k].of = Nobody =>
          /\ link[k].m # "gone" /\ link[k].of = Nobody
          /\ link[k].down = <<>> => link'[k].down = <<>>
          /\ \A i \in DOMAIN link'[k].up :
               i \in DOMAIN link[k].up /\ link'[k].up[i] = link[k].up[i]
    BY <2>1, <2>3
  <2>5. \A r \in Rows : /\ conn'[r] = conn[r] /\ SameSays(r)
                        /\ conn[r] # NoLink => Shortened(link[conn[r]], link'[conn[r]])
    BY <1>0, <2>1, <2>2 DEF SameSays, Shortened
  <2> QED BY <2>1, <2>4, <2>5, ComeAndGo
<1>5. ASSUME NEW a \in Addrs, StrangerDials(l, a) PROVE SaysInv'
  <2>1. /\ link[l] = Free /\ link'[l] = Fresh(Stranger, a, <<>>)
        /\ \A k \in Links \ {l} : link'[k] = link[k]
        /\ UNCHANGED <<conn, busy, sock, text, told, logTold, wish, welcomed, busySent, lastSeq,
                       shows, known, logOn>>
    BY <1>0, <1>5 DEF StrangerDials
  <2>2. /\ link[l].m = "gone" /\ ~link[l].held
        /\ link'[l].down = <<>> /\ link'[l].up = <<>>
    BY <2>1 DEF Free, Fresh
  <2>3. \A r \in Rows : conn[r] # l /\ sock[r] # l
    BY <1>0, <2>2, NamesAreDistinct
  <2>4. \A k \in Links : link'[k].m # "gone" /\ link'[k].of = Nobody =>
          \/ /\ link[k].m # "gone" /\ link[k].of = Nobody
             /\ link[k].down = <<>> => link'[k].down = <<>>
             /\ \A i \in DOMAIN link'[k].up :
                  i \in DOMAIN link[k].up /\ link'[k].up[i] = link[k].up[i]
          \/ link'[k].down = <<>> /\ link'[k].up = <<>> /\ \A r \in Rows : sock[r] # k
    BY <2>1, <2>2, <2>3
  <2>5. \A r \in Rows : /\ conn'[r] = conn[r] /\ SameSays(r)
                        /\ conn[r] # NoLink => Shortened(link[conn[r]], link'[conn[r]])
    BY <1>0, <2>1, <2>3 DEF SameSays, Shortened
  <2> QED BY <2>1, <2>4, <2>5, ComeAndGo
<1>6. ASSUME NEW u \in 0..Room, NEW d \in 0..Room, Break(l, u, d) PROVE SaysInv'
  <2> DEFINE e == [link[l] EXCEPT !.cut = TRUE, !.up = SubSeq(@, 1, u), !.down = SubSeq(@, 1, d)]
  <2>1. /\ link'[l] = e /\ \A k \in Links \ {l} : link'[k] = link[k]
        /\ u \in 0..Len(link[l].up) /\ d \in 0..Len(link[l].down)
        /\ UNCHANGED <<conn, busy, sock, text, told, logTold, wish, welcomed, busySent, lastSeq,
                       shows, known, logOn>>
    <3>1. Len(link[l].up) \in Nat /\ Len(link[l].down) \in Nat
      BY <1>0, QueueFields
    <3>2. u <= Len(link[l].up) /\ d <= Len(link[l].down)
      BY <1>6 DEF Break
    <3>3. u \in 0..Len(link[l].up) /\ d \in 0..Len(link[l].down)
      BY <3>1, <3>2, CountsAreNaturals
    <3> QED BY <1>0, <1>6, <3>3 DEF Break
  <2>2. /\ e.up = SubSeq(link[l].up, 1, u) /\ e.down = SubSeq(link[l].down, 1, d)
        /\ e.m = link[l].m /\ e.of = link[l].of /\ e.cut
    BY <1>0 DEF Connections
  <2>3. /\ \A i \in DOMAIN e.up : i \in DOMAIN link[l].up /\ e.up[i] = link[l].up[i]
        /\ \A i \in DOMAIN e.down : i \in DOMAIN link[l].down /\ e.down[i] = link[l].down[i]
    BY <1>0, <2>1, <2>2, QueueFields
  <2>4. link[l].down = <<>> => e.down = <<>>
    BY <2>1, <2>2
  <2> HIDE DEF e
  <2>5. \A k \in Links : link'[k].m # "gone" /\ link'[k].of = Nobody =>
          /\ link[k].m # "gone" /\ link[k].of = Nobody
          /\ link[k].down = <<>> => link'[k].down = <<>>
          /\ \A i \in DOMAIN link'[k].up :
               i \in DOMAIN link[k].up /\ link'[k].up[i] = link[k].up[i]
    BY <2>1, <2>2, <2>3, <2>4
  <2>6. \A k \in Links : Shortened(link[k], link'[k])
    BY <2>1, <2>2, <2>3 DEF Shortened
  <2>7. \A r \in Rows : /\ conn'[r] = conn[r] /\ SameSays(r)
                        /\ conn[r] # NoLink => Shortened(link[conn[r]], link'[conn[r]])
    BY <1>0, <2>1, <2>6 DEF SameSays
  <2> QED BY <2>1, <2>5, <2>7, ComeAndGo
<1> QED BY <1>1, <1>2, <1>3, <1>4, <1>5, <1>6 DEF OnLink

LEMMA FaultSays ==
  ASSUME TypeOK, TypeOK', TableInv, SaysInv, NEW r \in Rows, Faulty(r) \/ RowSeesClosed(r)
  PROVE  SaysInv'
<1>1. CASE DropSilent(r)
  <2>1. conn[r] \in Links /\ link[conn[r]] \in Connections /\ link \in [Links -> Connections]
    BY <1>1 DEF DropSilent, TypeOK, MasterTypes, LinkTypes
  <2>2. /\ link' = [link EXCEPT ![conn[r]] = MasterLetsGo(@)] /\ Closed(conn[r])
        /\ UNCHANGED <<sock, text, told, logTold, wish, welcomed, busySent, lastSeq, shows,
                       known, logOn>>
    BY <1>1 DEF DropSilent
  <2>3. /\ \A k \in Links \ {conn[r]} : link'[k] = link[k]
        /\ link'[conn[r]].m = "gone"
    BY <2>1, <2>2, LetGoFields
  <2> QED BY <2>1, <2>2, <2>3, ClosedSays
<1>2. CASE RowGivesUp(r) \/ RowSeesClosed(r)
  <2>1. /\ sock[r] # NoLink /\ link' = [link EXCEPT ![sock[r]] = DialerLetsGo(@)]
        /\ sock' = [sock EXCEPT ![r] = NoLink]
        /\ welcomed' = [welcomed EXCEPT ![r] = FALSE] /\ logOn' = [logOn EXCEPT ![r] = FALSE]
        /\ UNCHANGED <<conn, text, busy, told, logTold, wish, busySent, lastSeq, shows, known>>
    BY <1>2 DEF RowGivesUp, RowSeesClosed, RowDrops
  <2>2. ~welcomed'[r] /\ ~logOn'[r] /\ \A q \in Rows \ {r} : SameSays(q)
    BY <2>1 DEF TypeOK, RowTypes, SameSays
  <2> QED BY <2>1, <2>2, HangUpSays
<1>3. CASE RowRestarts(r)
  <2>1. /\ IF sock[r] = NoLink THEN link' = link
           ELSE link' = [link EXCEPT ![sock[r]] = DialerLetsGo(@)]
        /\ sock' = [sock EXCEPT ![r] = NoLink]
        /\ UNCHANGED <<conn, text, busy, told, logTold, wish>>
    BY <1>3 DEF RowRestarts
  <2>2. ~welcomed'[r] /\ ~logOn'[r] /\ \A q \in Rows \ {r} : SameSays(q)
    BY <1>3 DEF RowRestarts, TypeOK, RowTypes, SameSays
  <2> QED BY <2>1, <2>2, HangUpSays
<1> QED BY <1>1, <1>2, <1>3 DEF Faulty

LEMMA ForgetsSays ==
  ASSUME TypeOK, TypeOK', SaysInv, NEW how, ForgetsRows(how),
         UNCHANGED <<sock, welcomed, logOn>>
  PROVE  SaysInv'
<1>1. \A l \in Links : link'[l].m = "gone"
  BY LetGoFields DEF ForgetsRows, TypeOK, LinkTypes
<1>2. \A r \in Rows : conn'[r] = NoLink /\ text'[r] = NoText
  BY DEF ForgetsRows
<1> QED BY <1>1, <1>2, ComeAndGo

-----------------------------------------------------------------------------
LEMMA InitSays == Init => SaysInv
<1> SUFFICES ASSUME Init PROVE SaysInv
  OBVIOUS
<1>1. /\ \A l \in Links : link[l].m = "gone"
      /\ \A r \in Rows : /\ conn[r] = NoLink /\ sock[r] = NoLink /\ ~welcomed[r] /\ ~logOn[r]
                         /\ text[r].shown = 0 /\ text[r].id = 0 /\ ~text[r].pending
  BY DEF Init, Free, NoText
<1> QED BY <1>1 DEF SaysInv, SilentYet, RowIsHeard, WelcomeFirst, Heard, TextHeard, Shared

LEMMA StepSays ==
  ASSUME TypeOK, TypeOK', TableInv, SaysInv, [Next]_vars
  PROVE  SaysInv'
<1>1. CASE UNCHANGED vars
  BY <1>1, NothingSaid DEF SameSays, vars
<1>2. ASSUME NEW r \in Rows, MasterStep(r) \/ RowStep(r) \/ JobOverdue(r) \/ Asked(r) \/ Faulty(r)
      PROVE  SaysInv'
  BY <1>2, MasterStepSays, RowStepSays, FaultSays
<1>3. ASSUME NEW r \in Rows, NEW l \in Links, NEW a \in Addrs, Dial(r, l, a) PROVE SaysInv'
  BY <1>3, DialSays
<1>4. ASSUME NEW l \in Links, OnLink(l) PROVE SaysInv'
  BY <1>4, OnLinkSays
<1>5. ASSUME NEW k \in Kinds, ChangeSetting(k) PROVE SaysInv'
  BY <1>5, ChangeSettingSays
<1>6. CASE RowsChanged
  BY <1>6, ForgetsSays DEF RowsChanged
<1>7. CASE MasterRestarts
  BY <1>7, ForgetsSays DEF MasterRestarts
<1> QED BY <1>1, <1>2, <1>3, <1>4, <1>5, <1>6, <1>7 DEF Next

LEMMA SaysInvHolds == Spec => [](TypeOK /\ TableInv /\ SaysInv)
<1>1. Init => TypeOK /\ TableInv /\ SaysInv
  BY InitTypes, InitTables, InitSays
<1>2. TypeOK /\ TableInv /\ SaysInv /\ [Next]_vars => (TypeOK /\ TableInv /\ SaysInv)'
  BY StepTypes, StepTables, StepSays
<1> QED BY <1>1, <1>2, PTL DEF Spec

\* wallRowTextApplied: a text that the console shows as the row's is the one the row has
\* taken, however often texts change, connections break or either end starts again.
THEOREM ShownTextIsTaken == Spec => []ShownIsTrue
<1>1. TypeOK /\ TableInv /\ SaysInv => ShownIsTrue
  BY DEF SaysInv, RowIsHeard, TextHeard, Taken, ShownIsTrue, Applied, Shared
<1> QED BY <1>1, SaysInvHolds, PTL

\* tellSettings: a setting that counts as said is the one the row has, or the last of its
\* kind on the way to it.
THEOREM SettingsArriveLast == Spec => []SettingsReach
<1>1. ASSUME TypeOK, TableInv, SaysInv PROVE SettingsReach
  <2> SUFFICES ASSUME NEW r \in Rows, conn[r] # NoLink, sock[r] = conn[r], ~link[conn[r]].cut,
                      NEW k \in told[r]
               PROVE  IF Pending(r, k) = {} THEN known[r][k] = wish[k]
                      ELSE \E i \in Pending(r, k) :
                             /\ link[sock[r]].down[i].value = wish[k]
                             /\ \A n \in Pending(r, k) : n <= i
    BY DEF SettingsReach
  <2> DEFINE q == link[sock[r]].down
  <2>1. q \in Seq(ToRow)
    BY <1>1, QueueFields DEF TypeOK, LinkTypes, MasterTypes
  <2>2. Upto(q, SettingsOf(k), Setting(k, wish[k]), known[r][k], wish[k])
    BY <1>1 DEF SaysInv, RowIsHeard, Heard, Shared
  <2>3. \A i \in DOMAIN q : i \in Pending(r, k) => q[i] \in SettingsOf(k)
    BY <2>1, MessagesOfKinds DEF Pending
  <2>4. \A i \in DOMAIN q : q[i] = Setting(k, wish[k]) =>
          i \in Pending(r, k) /\ q[i].value = wish[k]
    BY OtherMessages DEF Pending
  <2>5. Pending(r, k) \subseteq DOMAIN q /\ \A i, n \in DOMAIN q : n > i \/ n <= i
    BY <2>1 DEF Pending
  <2> HIDE DEF q
  <2>6. CASE known[r][k] = wish[k] /\ \A i \in DOMAIN q : q[i] \notin SettingsOf(k)
    BY <2>3, <2>5, <2>6
  <2>7. CASE \E i \in DOMAIN q : /\ q[i] = Setting(k, wish[k])
                                 /\ \A n \in DOMAIN q : n > i => q[n] \notin SettingsOf(k)
    BY <2>3, <2>4, <2>5, <2>7 DEF q
  <2> QED BY <2>2, <2>6, <2>7 DEF Upto
<1> QED BY <1>1, SaysInvHolds, PTL

\* sendStatus and setLogWanted: while nothing is under way, master and row agree on who is
\* busy and on whether the row's log goes up.
THEOREM EndsAgreeOnBusy == Spec => []BusyAgrees
<1>1. ASSUME TypeOK, TableInv, SaysInv PROVE BusyAgrees
  <2> SUFFICES ASSUME NEW r \in Rows, conn[r] # NoLink, sock[r] = conn[r], welcomed[r],
                      ~link[conn[r]].cut
               PROVE  LET c == link[conn[r]]
                      IN  /\ (\A i \in DOMAIN c.up : c.up[i].t # "Status") => busy[r] = busySent[r]
                          /\ (\A i \in DOMAIN c.down : c.down[i].t # "LogCtl") =>
                               logOn[r] = logTold[r]
    BY DEF BusyAgrees
  <2> DEFINE c == link[conn[r]]
  <2>1. /\ Upto(c.down, LogCtls, LogCtl(logTold[r]), logOn[r], logTold[r])
        /\ Upto(c.up, Statuses, Status(busySent[r]), busy[r], busySent[r])
    BY <1>1 DEF SaysInv, RowIsHeard, Heard, Shared
  <2> QED BY <2>1, OtherMessages DEF Upto
<1> QED BY <1>1, SaysInvHolds, PTL
=============================================================================
