--------------------------- MODULE GitStoreProofs ---------------------------
(***************************************************************************)
(* The ref implements the operation log, and an answer that an operation   *)
(* is done is true, for any users, operations, conflicts and bounds.       *)
(***************************************************************************)
EXTENDS GitStore, SequenceTheorems, TLAPS

-----------------------------------------------------------------------------
(* The inductive invariant.                                                *)

Pristine == left.tampering = MaxTampering
Holding(u) == call[u].at \in {"observe", "try", "resolve"}
Awaiting(u) == At(u, "wait") /\ call[u].aim = "try"
Tip(p) == p.commit[Len(p.commit)]

\* The history carries the operation as this user sent it.
Carries(h, u, id, inp) == \E k \in DOMAIN h : h[k].id = id /\ h[k].by = u /\ h[k].inp = inp

\* Only the first commit of a history is a root.
Rooted(h) == \A k \in DOMAIN h : IF k = 1 THEN h[k].id = NoId ELSE h[k].id \in Ids /\ h[k].inp \in Inputs

\* No id is accepted twice.
OneRecord == \A j, k \in DOMAIN ref : ref[j].id = ref[k].id => j = k

\* A call knows its operation, and a call that has read holds what it read.
InCall ==
    \A u \in Users :
        /\ ~At(u, "idle") /\ call[u].aim # "init" => call[u].id \in Ids /\ call[u].inp \in Inputs
        /\ call[u].aim = "init" => At(u, "wait")
        /\ Holding(u) => call[u].head # <<>>
        /\ ~At(u, "wait") => call[u].reply = "none"

\* A push adds one commit to what it expects: a root to nothing, or an
\* operation that what it expects allows.
PushExtends ==
    \A p \in wire :
        /\ p.commit = Append(p.expected, Tip(p))
        /\ Tip(p) \in Commits /\ Tip(p).by = p.by
        /\ IF p.expected = <<>> THEN Tip(p).id = NoId
           ELSE /\ Tip(p).id \in Ids /\ Tip(p).inp \in Inputs
                /\ Log!Allowed(Operations(p.expected), Tip(p).id)

\* A push on its way was made before the next one will be.
PushNumbered == \A p \in wire : Tip(p).nonce > left.pushes

\* The push that a call awaits is of the call's operation.
PushAwaited ==
    \A p \in wire :
        Awaiting(p.by) /\ call[p.by].nonce = Tip(p).nonce =>
            call[p.by].id = Tip(p).id /\ call[p.by].inp = Tip(p).inp

\* Until the ref is tampered with: what a call holds is still there; a call that
\* was told "ok" has its operation in the ref, and nobody heard of it yet.
HeadKept ==
    Pristine => \A u \in Users : Holding(u) => \A k \in DOMAIN call[u].head : \E j \in DOMAIN ref : ref[j] = call[u].head[k]
OkLanded ==
    Pristine => \A u \in Users : Awaiting(u) /\ call[u].reply = "ok" => Carries(ref, u, call[u].id, call[u].inp)
OkFresh ==
    Pristine => \A u \in Users : Awaiting(u) /\ call[u].reply = "ok" => \A s \in told : s.id # call[u].id

Structure == left.tampering <= MaxTampering /\ Rooted(ref) /\ OneRecord /\ InCall /\ PushExtends /\ PushNumbered /\ PushAwaited
Truth == HeadKept /\ OkLanded /\ OkFresh /\ AnswersTrue
IInv == TypeOK /\ Structure /\ Truth

-----------------------------------------------------------------------------
(* Histories and the operations in them.                                   *)

Entry(c) == [id |-> c.id, by |-> c.by, inp |-> c.inp]
Rows == [id : Ids \cup {NoId}, by : Users, inp : Inputs \cup {NoId}]

\* Operations drops the root and keeps the rest in order.
LEMMA OperationsAre ==
  ASSUME NEW h \in Histories
  PROVE  /\ Operations(h) \in Seq(Rows)
         /\ h # <<>> => Len(h) \in Nat \ {0} /\ Len(Operations(h)) = Len(h) - 1
         /\ h = <<>> => Operations(h) = <<>>
         /\ \A k \in 1 .. Len(h) - 1 : Operations(h)[k] = Entry(h[k + 1])
<1>1. Len(h) \in Nat /\ h \in [1 .. Len(h) -> Commits] /\ (h # <<>> => Len(h) # 0)
  BY LenProperties, EmptySeq DEF Histories
<1>2. \A k \in 1 .. Len(h) - 1 : h[k + 1] \in Commits
  BY <1>1
<1>3. \A k \in 1 .. Len(h) - 1 : Entry(h[k + 1]) \in Rows
  BY <1>2 DEF Entry, Rows, Commits
<1>4. Operations(h) = [k \in 1 .. Len(h) - 1 |-> Entry(h[k + 1])]
  BY DEF Operations, Entry
<1>5. CASE h = <<>>
  <2>1. Len(h) = 0
    BY <1>5
  <2>2. 1 .. Len(h) - 1 = 1 .. 0 /\ 1 .. Len(h) - 1 = {}
    BY <2>1
  <2>3. Operations(h) = <<>>
    <3>1. Operations(h) \in [1 .. 0 -> Rows]
      BY <1>4, <2>2
    <3>2. Operations(h) \in Seq(Rows) /\ Len(Operations(h)) = 0
      BY <3>1
    <3> QED
      BY <3>2, EmptySeq
  <2> QED
    BY <1>4, <1>5, <2>2, <2>3, EmptySeq
<1>6. CASE h # <<>>
  <2>1. Len(h) - 1 \in Nat
    BY <1>1, <1>6
  <2> DEFINE n == Len(h) - 1
  <2>2. Operations(h) \in [1 .. n -> Rows]
    BY <1>3, <1>4
  <2>3. Operations(h) \in Seq(Rows) /\ Len(Operations(h)) = n
    BY <2>1, <2>2
  <2> QED
    BY <1>1, <1>4, <1>6, <2>3
<1> QED
  BY <1>5, <1>6

\* A commit on a history is an operation more.
LEMMA OperationsOfAppend ==
  ASSUME NEW h \in Histories, NEW c \in Commits, h # <<>>
  PROVE  Operations(Append(h, c)) = Append(Operations(h), Entry(c))
<1> DEFINE g == Append(h, c)
<1>1. g \in Histories /\ g # <<>> /\ Len(g) = Len(h) + 1 /\ g[Len(h) + 1] = c
      /\ \A k \in 1 .. Len(h) : g[k] = h[k]
  BY DEF Histories
<1>2. Entry(c) \in Rows
  BY DEF Entry, Rows, Commits
<1>3. Len(Operations(g)) = Len(h) /\ Len(Operations(h)) = Len(h) - 1 /\ Len(h) \in Nat \ {0}
      /\ Operations(g) \in Seq(Rows) /\ Operations(h) \in Seq(Rows)
  <2> HIDE DEF g
  <2>1. Len(Operations(h)) = Len(h) - 1 /\ Len(h) \in Nat \ {0} /\ Operations(h) \in Seq(Rows)
    BY OperationsAre
  <2>2. Len(Operations(g)) = Len(g) - 1 /\ Operations(g) \in Seq(Rows)
    BY <1>1, OperationsAre
  <2> QED
    BY <1>1, <2>1, <2>2
<1> DEFINE s == Append(Operations(h), Entry(c))
<1>4. s \in Seq(Rows) /\ Len(s) = Len(h) /\ s[Len(h)] = Entry(c)
      /\ \A k \in 1 .. Len(h) - 1 : s[k] = Operations(h)[k]
  <2>1. PICK o \in Seq(Rows), e \in Rows : o = Operations(h) /\ e = Entry(c)
    BY <1>2, <1>3
  <2>2. Append(o, e) \in Seq(Rows) /\ Len(Append(o, e)) = Len(o) + 1 /\ Append(o, e)[Len(o) + 1] = e
        /\ \A k \in 1 .. Len(o) : Append(o, e)[k] = o[k]
    OBVIOUS
  <2>3. Len(o) = Len(h) - 1 /\ Len(o) + 1 = Len(h)
    BY <1>3, <2>1
  <2> QED
    BY <2>1, <2>2, <2>3
<1> HIDE DEF g, s
<1>5. ASSUME NEW k \in 1 .. Len(h) PROVE Operations(g)[k] = s[k]
  <2>1. Operations(g)[k] = Entry(g[k + 1])
    BY <1>1, OperationsAre
  <2>2. CASE k = Len(h)
    BY <1>1, <1>4, <2>1, <2>2
  <2>3. CASE k # Len(h)
    <3>1. k \in 1 .. Len(h) - 1 /\ k + 1 \in 1 .. Len(h)
      BY <1>3, <2>3
    <3> QED
      BY <1>1, <1>4, <2>1, <3>1, OperationsAre
  <2> QED
    BY <2>2, <2>3
<1> QED
  BY <1>3, <1>4, <1>5, SeqEqual DEF g, s

\* Taking a history back takes its operations back, or leaves none.
LEMMA OperationsOfSubSeq ==
  ASSUME NEW h \in Histories, h # <<>>, NEW k \in 0 .. Len(h)
  PROVE  /\ SubSeq(h, 1, k) \in Histories
         /\ Operations(SubSeq(h, 1, k)) = SubSeq(Operations(h), 1, IF k = 0 THEN 0 ELSE k - 1)
<1> DEFINE g == SubSeq(h, 1, k)
           n == IF k = 0 THEN 0 ELSE k - 1
           s == SubSeq(Operations(h), 1, n)
<1>1. Len(h) \in Nat \ {0} /\ Len(Operations(h)) = Len(h) - 1 /\ Operations(h) \in Seq(Rows)
      /\ \A j \in 1 .. Len(h) - 1 : Operations(h)[j] = Entry(h[j + 1])
  BY OperationsAre
<1>2. g \in Histories /\ Len(g) = k /\ \A j \in 1 .. k : g[j] = h[j]
  <2>1. \A j \in 1 .. k : h[j] \in Commits
    BY <1>1 DEF Histories
  <2> QED
    BY <1>1, <2>1, SubSeqProperties DEF Histories
<1>3. s \in Seq(Rows) /\ Len(s) = n /\ \A j \in 1 .. n : s[j] = Operations(h)[j]
  <2>1. \A j \in 1 .. n : Operations(h)[j] \in Rows
    BY <1>1
  <2>2. n \in Nat
    BY <1>1
  <2> QED
    BY <2>1, <2>2, SubSeqProperties
<1>4. CASE k = 0
  <2>1. g = <<>>
    BY <1>2, <1>4, EmptySeq DEF Histories
  <2>2. s = <<>>
    BY <1>3, <1>4, EmptySeq
  <2> QED
    BY <1>2, <2>1, <2>2, OperationsAre
<1>5. CASE k # 0
  <2>1. n = k - 1 /\ k \in Nat \ {0} /\ n \in Nat
    BY <1>1, <1>5
  <2>2. g # <<>>
    BY <1>2, <1>5, EmptySeq
  <2>3. Len(Operations(g)) = n /\ Operations(g) \in Seq(Rows)
    BY <1>2, <2>1, <2>2, OperationsAre
  <2>4. ASSUME NEW j \in 1 .. n PROVE Operations(g)[j] = s[j]
    <3>1. Operations(g)[j] = Entry(g[j + 1])
      BY <1>2, <2>1, OperationsAre
    <3>2. j + 1 \in 1 .. k /\ j \in 1 .. Len(h) - 1
      BY <1>1, <2>1
    <3> QED
      BY <1>1, <1>2, <1>3, <3>1, <3>2
  <2> HIDE DEF g, s, n
  <2>5. Operations(g) = s
    BY <1>3, <2>3, <2>4, SeqEqual
  <2> QED
    BY <1>2, <2>5 DEF g, s, n
<1> QED
  BY <1>4, <1>5

\* A history that continues another continues its operations.
LEMMA OperationsOfPrefix ==
  ASSUME NEW g \in Histories, NEW h \in Histories, h # <<>>, Log!Prefix(g, h)
  PROVE  Log!Prefix(Operations(g), Operations(h))
<1>1. Len(g) \in 0 .. Len(h) /\ g = SubSeq(h, 1, Len(g))
  BY LenProperties DEF Log!Prefix, Histories
<1>2. Len(h) \in Nat \ {0} /\ Len(Operations(h)) = Len(h) - 1 /\ Len(g) \in Nat
  BY <1>1, OperationsAre
<1>3. Operations(g) = SubSeq(Operations(h), 1, IF Len(g) = 0 THEN 0 ELSE Len(g) - 1)
  BY <1>1, OperationsOfSubSeq
<1>4. Len(Operations(g)) = IF Len(g) = 0 THEN 0 ELSE Len(g) - 1
  <2>1. CASE g = <<>>
    BY <2>1, OperationsAre
  <2>2. CASE g # <<>>
    BY <2>2, OperationsAre
  <2> QED
    BY <2>1, <2>2
<1> QED
  BY <1>1, <1>2, <1>3, <1>4 DEF Log!Prefix

\* The ids applied by the operations are those of the commits after the root.
LEMMA AppliedAre ==
  ASSUME NEW h \in Histories
  PROVE  Log!Applied(Operations(h)) = {h[k].id : k \in 2 .. Len(h)}
<1>1. Operations(h) \in Seq(Rows) /\ Len(h) \in Nat
      /\ \A k \in 1 .. Len(h) - 1 : Operations(h)[k] = Entry(h[k + 1])
  BY OperationsAre DEF Histories
<1>2. DOMAIN Operations(h) = 1 .. Len(h) - 1
  BY DEF Operations
<1>3. \A k \in 1 .. Len(h) - 1 : Operations(h)[k].id = h[k + 1].id
  <2>1. \A c : Entry(c).id = c.id
    BY DEF Entry
  <2> QED
    BY <1>1, <2>1, Zenon
<1>4. \A k \in 2 .. Len(h) : k - 1 \in 1 .. Len(h) - 1 /\ (k - 1) + 1 = k
  BY <1>1
<1>5. \A k \in 1 .. Len(h) - 1 : k + 1 \in 2 .. Len(h)
  BY <1>1
<1>6. \A x : x \in Log!Applied(Operations(h)) => \E k \in 2 .. Len(h) : h[k].id = x
  BY <1>2, <1>3, <1>5 DEF Log!Applied
<1>7. \A k \in 2 .. Len(h) : h[k].id \in Log!Applied(Operations(h))
  <2>1. ASSUME NEW k \in 2 .. Len(h) PROVE h[k].id \in Log!Applied(Operations(h))
    <3>1. k - 1 \in DOMAIN Operations(h) /\ Operations(h)[k - 1].id = h[k].id
      BY <1>2, <1>3, <1>4
    <3> QED
      BY <3>1 DEF Log!Applied
  <2> QED
    BY <2>1
<1> DEFINE S == Log!Applied(Operations(h))
           T == {h[k].id : k \in 2 .. Len(h)}
<1>8. \A x : x \in T <=> \E k \in 2 .. Len(h) : h[k].id = x
  OBVIOUS
<1> HIDE DEF S
<1>9. \A x : x \in S <=> x \in T
  BY <1>6, <1>7, <1>8 DEF S
<1> HIDE DEF T
<1>10. S = T
  BY <1>9
<1> QED
  BY <1>10 DEF S, T

-----------------------------------------------------------------------------
(* What the steps are made of.                                             *)

LEMMA NoCallType == NoCall \in Calls
<1>1. 0 \in 0 .. Retries - 1
  BY GitStoreAssumption
<1>2. <<>> \in Histories
  BY DEF Histories
<1> QED
  BY <1>1, <1>2 DEF NoCall, Calls

\* Step replaces one user's call.
LEMMA StepIs ==
  ASSUME TypeOK, NEW u \in Users, NEW c \in Calls, Step(u, c)
  PROVE  /\ call' \in [Users -> Calls] /\ call'[u] = c
         /\ \A v \in Users : v # u => call'[v] = call[v]
BY DEF TypeOK, Step

LEMMA ClearType ==
  ASSUME TypeOK, NEW u \in Users, Clear(u)
  PROVE  owed' \in [Users -> [Ids -> Inputs \cup {NoId}]]
BY DEF TypeOK, Clear

\* An answer ends the call; that it is done is said of the call's operation.
LEMMA AnswerIs ==
  ASSUME TypeOK, NEW u \in Users, NEW how, Answer(u, how), call[u].id \in Ids, call[u].inp \in Inputs
  PROVE  /\ told' \subseteq Answers
         /\ Step(u, NoCall) /\ call' \in [Users -> Calls]
         /\ \A t \in told' \ told : /\ t.by = u /\ t.id = call[u].id /\ t.inp = call[u].inp
                                    /\ t.how = how /\ how \in {"accepted", "replayed"}
<1>1. Step(u, NoCall) /\ call' \in [Users -> Calls]
  BY NoCallType, StepIs DEF Answer
<1> DEFINE t == [by |-> u, id |-> call[u].id, inp |-> call[u].inp, how |-> how]
<1>2. CASE how \in {"accepted", "replayed"}
  <2>1. told' = told \cup {t}
    BY <1>2 DEF Answer
  <2>2. t \in Answers
    BY <1>2 DEF Answers
  <2>3. t.by = u /\ t.id = call[u].id /\ t.inp = call[u].inp /\ t.how = how
    OBVIOUS
  <2> HIDE DEF t
  <2> QED
    BY <1>1, <1>2, <2>1, <2>2, <2>3 DEF TypeOK
<1>3. CASE how \notin {"accepted", "replayed"}
  <2>1. told' = told
    BY <1>3 DEF Answer
  <2> QED
    BY <1>1, <2>1 DEF TypeOK
<1> QED
  BY <1>2, <1>3

\* One record of an id: two users cannot both have theirs in the ref.
LEMMA CarriedOnce ==
  ASSUME OneRecord, NEW u, NEW v, NEW id, NEW x, NEW y, Carries(ref, u, id, x), Carries(ref, v, id, y)
  PROVE  u = v /\ x = y
BY DEF OneRecord, Carries

\* A step of one user that neither pushes nor touches the ref: what it takes
\* into its call, and what it is told, it has from the ref.
LEMMA ClientKeeps ==
  ASSUME IInv, NEW u \in Users, NEW c \in Calls, Step(u, c), UNCHANGED <<ref, wire>>,
         left'.pushes = left.pushes, left'.tampering = left.tampering,
         c.at # "idle" => c.aim # "init" /\ c.id \in Ids /\ c.inp \in Inputs,
         c.at = "idle" => c.aim # "init",
         c.at # "wait", c.reply = "none",
         c.at \in {"observe", "try", "resolve"} =>
            /\ c.head # <<>>
            /\ Pristine => \A k \in DOMAIN c.head : \E j \in DOMAIN ref : ref[j] = c.head[k],
         \A t \in told' \ told : t.by = u /\ (Pristine => Carries(ref, u, t.id, t.inp))
  PROVE  Structure' /\ Truth'
<1>1. /\ call' \in [Users -> Calls] /\ call'[u] = c
      /\ \A v \in Users : v # u => call'[v] = call[v]
  BY StepIs DEF IInv
<1>2. Pristine' <=> Pristine
  BY DEF Pristine
<1>3. \A p \in wire : p.by \in Users
  BY DEF IInv, TypeOK, Pushes
<1>4. left'.tampering <= MaxTampering /\ Rooted(ref)' /\ OneRecord' /\ PushExtends' /\ PushNumbered'
  BY DEF IInv, Structure, Rooted, OneRecord, PushExtends, PushNumbered, Tip
<1>5. InCall'
  BY <1>1 DEF IInv, Structure, InCall, At, Holding
<1>6. PushAwaited'
  BY <1>1, <1>3 DEF IInv, Structure, PushAwaited, Awaiting, At, Tip
<1>7. HeadKept'
  BY <1>1, <1>2 DEF IInv, Truth, HeadKept, Holding
<1>8. OkLanded'
  <2>1. SUFFICES ASSUME Pristine, NEW v \in Users, Awaiting(v)', call'[v].reply = "ok"
                 PROVE  Carries(ref, v, call[v].id, call[v].inp)'
    BY <1>2 DEF OkLanded
  <2>2. v # u /\ call'[v] = call[v] /\ Awaiting(v)
    BY <1>1, <2>1 DEF Awaiting, At
  <2> QED
    BY <2>1, <2>2 DEF IInv, Truth, OkLanded, Carries
<1>9. OkFresh'
  <2>1. SUFFICES ASSUME Pristine, NEW v \in Users, Awaiting(v)', call'[v].reply = "ok", NEW s \in told'
                 PROVE  s.id # call'[v].id
    BY <1>2 DEF OkFresh
  <2>2. v # u /\ call'[v] = call[v] /\ Awaiting(v)
    BY <1>1, <2>1 DEF Awaiting, At
  <2>3. CASE s \in told
    BY <2>1, <2>2, <2>3 DEF IInv, Truth, OkFresh
  <2>4. CASE s \notin told
    <3>1. Carries(ref, u, s.id, s.inp)
      BY <2>1, <2>4
    <3>2. Carries(ref, v, call[v].id, call[v].inp)
      BY <2>1, <2>2 DEF IInv, Truth, OkLanded
    <3> QED
      BY <2>2, <3>1, <3>2, CarriedOnce DEF IInv, Structure
  <2> QED
    BY <2>3, <2>4
<1>10. AnswersTrue'
  <2>1. ASSUME Pristine, NEW t \in told' PROVE Carries(ref, t.by, t.id, t.inp)
    <3>1. CASE t \in told
      BY <2>1, <3>1 DEF IInv, Truth, AnswersTrue, Pristine, Carries
    <3>2. CASE t \notin told
      BY <2>1, <3>2
    <3> QED
      BY <3>1, <3>2
  <2>2. left'.tampering = MaxTampering => Pristine
    BY DEF Pristine
  <2>3. UNCHANGED ref
    OBVIOUS
  <2> QED
    BY <2>1, <2>2, <2>3 DEF AnswersTrue, Carries
<1> QED
  BY <1>4, <1>5, <1>6, <1>7, <1>8, <1>9, <1>10 DEF Structure, Truth

\* An answer keeps the invariant if what it says is in the ref.
LEMMA AnswerKeeps ==
  ASSUME IInv, NEW u \in Users, NEW how, Answer(u, how), ~At(u, "idle"), call[u].aim # "init",
         UNCHANGED <<ref, wire, left>>,
         how \in {"accepted", "replayed"} /\ Pristine => Carries(ref, u, call[u].id, call[u].inp)
  PROVE  Structure' /\ Truth' /\ told' \subseteq Answers /\ call' \in [Users -> Calls]
<1>1. call[u].id \in Ids /\ call[u].inp \in Inputs
  BY DEF IInv, Structure, InCall
<1>2. /\ told' \subseteq Answers /\ Step(u, NoCall) /\ call' \in [Users -> Calls]
      /\ \A t \in told' \ told : /\ t.by = u /\ t.id = call[u].id /\ t.inp = call[u].inp
                                 /\ how \in {"accepted", "replayed"}
  BY <1>1, AnswerIs DEF IInv
<1>3. NoCall.at = "idle" /\ NoCall.aim # "init" /\ NoCall.reply = "none"
  BY DEF NoCall
<1>4. \A t \in told' \ told : t.by = u /\ (Pristine => Carries(ref, u, t.id, t.inp))
  BY <1>2
<1> QED
  BY <1>2, <1>3, <1>4, NoCallType, ClientKeeps

-----------------------------------------------------------------------------
(* The steps, one by one.                                                  *)

\* transact begins.
LEMMA BeginStep ==
  ASSUME IInv, NEW u \in Users, NEW id \in Ids, NEW inp \in Inputs, Begin(u, id, inp)
  PROVE  IInv'
<1> DEFINE c == [NoCall EXCEPT !.at = "read", !.id = id, !.inp = inp]
<1>1. c \in Calls /\ c.at = "read" /\ c.aim = "try" /\ c.id = id /\ c.inp = inp /\ c.reply = "none"
  BY NoCallType DEF NoCall, Calls
<1>2. Step(u, c) /\ UNCHANGED <<ref, wire, observed, validated, owed, told>> /\ left.calls > 0
      /\ left' = [left EXCEPT !.calls = @ - 1]
  BY DEF Begin
<1> HIDE DEF c
<1>3. left' \in [pushes : Nat, calls : Nat, crashes : Nat, tampering : Nat]
      /\ left'.pushes = left.pushes /\ left'.tampering = left.tampering
  <2>1. PICK n \in Nat : n = left.calls - 1
    BY <1>2 DEF IInv, TypeOK
  <2> QED
    BY <1>2, <2>1 DEF IInv, TypeOK
<1>4. TypeOK'
  BY <1>1, <1>2, <1>3, StepIs DEF IInv, TypeOK
<1> QED
  BY <1>1, <1>2, <1>3, <1>4, ClientKeeps DEF IInv

\* _fetch up to _save_validated.
LEMMA FetchStep ==
  ASSUME IInv, NEW u \in Users, Fetch(u)
  PROVE  IInv'
<1> DEFINE c == [call[u] EXCEPT !.at = "observe", !.head = ref]
<1>1. At(u, "read") /\ ref # <<>> /\ Step(u, c) /\ UNCHANGED <<ref, wire, observed, owed, told, left>>
      /\ validated' = [validated EXCEPT ![u] = ref]
  BY DEF Fetch
<1>2. call[u] \in Calls /\ ref \in Histories
  BY DEF IInv, TypeOK
<1>3. c \in Calls /\ c.at = "observe" /\ c.head = ref /\ c.aim = call[u].aim /\ c.id = call[u].id
      /\ c.inp = call[u].inp /\ c.reply = call[u].reply
  BY <1>2 DEF Calls
<1>4. c.aim # "init" /\ c.id \in Ids /\ c.inp \in Inputs /\ c.reply = "none"
  BY <1>1, <1>3 DEF IInv, Structure, InCall, At
<1> HIDE DEF c
<1>5. TypeOK'
  BY <1>1, <1>2, <1>3, StepIs DEF IInv, TypeOK
<1> QED
  BY <1>1, <1>3, <1>4, <1>5, ClientKeeps DEF IInv

\* _fetch raises.
LEMMA FetchFailsStep ==
  ASSUME IInv, NEW u \in Users, FetchFails(u)
  PROVE  IInv'
<1>1. At(u, "read") /\ Answer(u, "failed") /\ UNCHANGED <<ref, wire, observed, validated, owed, left>>
  BY DEF FetchFails
<1>2. ~At(u, "idle") /\ call[u].aim # "init"
  BY <1>1 DEF IInv, Structure, InCall, At
<1>3. Structure' /\ Truth' /\ told' \subseteq Answers /\ call' \in [Users -> Calls]
  BY <1>1, <1>2, AnswerKeeps
<1> QED
  BY <1>1, <1>3 DEF IInv, TypeOK

\* _save_observed, the last line of _fetch.
LEMMA ObserveStep ==
  ASSUME IInv, NEW u \in Users, Observe(u)
  PROVE  IInv'
<1> DEFINE c == [call[u] EXCEPT !.at = call[u].aim]
<1>1. At(u, "observe") /\ Step(u, c) /\ UNCHANGED <<ref, wire, validated, owed, told, left>>
      /\ observed' = [observed EXCEPT ![u] = call[u].head]
  BY DEF Observe, Go
<1>2. call[u] \in Calls /\ call[u].head \in Histories
  BY DEF IInv, TypeOK, Calls
<1>3. call[u].aim \in {"try", "resolve"} /\ call[u].id \in Ids /\ call[u].inp \in Inputs /\ call[u].head # <<>>
      /\ call[u].reply = "none"
  BY <1>1, <1>2 DEF IInv, Structure, InCall, At, Holding, Calls
<1>4. c \in Calls /\ c.at = call[u].aim /\ c.head = call[u].head /\ c.aim = call[u].aim
      /\ c.id = call[u].id /\ c.inp = call[u].inp /\ c.reply = "none"
  BY <1>2, <1>3 DEF Calls
<1>5. Pristine => \A k \in DOMAIN call[u].head : \E j \in DOMAIN ref : ref[j] = call[u].head[k]
  BY <1>1 DEF IInv, Truth, HeadKept, Holding, At
<1> HIDE DEF c
<1>6. TypeOK'
  BY <1>1, <1>2, <1>4, StepIs DEF IInv, TypeOK
<1> QED
  BY <1>1, <1>3, <1>4, <1>5, <1>6, ClientKeeps DEF IInv

\* What a call found of its own in what it read is in the ref.
LEMMA FoundCarried ==
  ASSUME IInv, NEW u \in Users, Holding(u), Pristine,
         NEW r \in Record(call[u].head, call[u].id), Mine(u, r)
  PROVE  Carries(ref, u, call[u].id, call[u].inp)
<1>1. PICK k \in DOMAIN call[u].head : r = call[u].head[k] /\ call[u].head[k].id = call[u].id
  BY DEF Record
<1>2. PICK j \in DOMAIN ref : ref[j] = call[u].head[k]
  BY DEF IInv, Truth, HeadKept
<1> QED
  BY <1>1, <1>2 DEF Mine, Carries

\* An operation that was accepted before.
LEMMA ReplayStep ==
  ASSUME IInv, NEW u \in Users, Replay(u)
  PROVE  IInv'
<1>1. At(u, "try") /\ UNCHANGED <<ref, wire, observed, validated, left>>
  BY DEF Replay
<1>2. Holding(u) /\ ~At(u, "idle") /\ call[u].aim # "init"
  BY <1>1 DEF IInv, Structure, InCall, At, Holding
<1>3. PICK r \in Record(call[u].head, call[u].id) :
         IF Mine(u, r) THEN Answer(u, "replayed") /\ Clear(u)
         ELSE Answer(u, "mismatch") /\ UNCHANGED owed
  BY DEF Replay
<1>4. CASE Mine(u, r)
  <2>1. Pristine => Carries(ref, u, call[u].id, call[u].inp)
    BY <1>2, <1>4, FoundCarried
  <2>2. Structure' /\ Truth' /\ told' \subseteq Answers /\ call' \in [Users -> Calls]
    BY <1>1, <1>2, <1>3, <1>4, <2>1, AnswerKeeps
  <2>3. owed' \in [Users -> [Ids -> Inputs \cup {NoId}]]
    BY <1>3, <1>4, ClearType DEF IInv
  <2> QED
    BY <1>1, <2>2, <2>3 DEF IInv, TypeOK
<1>5. CASE ~Mine(u, r)
  <2>1. Structure' /\ Truth' /\ told' \subseteq Answers /\ call' \in [Users -> Calls]
    BY <1>1, <1>2, <1>3, <1>5, AnswerKeeps
  <2> QED
    BY <1>1, <1>3, <1>5, <2>1 DEF IInv, TypeOK
<1> QED
  BY <1>4, <1>5

\* The push is refused, or mutate raises.
LEMMA RejectStep ==
  ASSUME IInv, NEW u \in Users, Reject(u)
  PROVE  IInv'
<1>1. At(u, "try") /\ UNCHANGED <<ref, wire, observed, validated, left>> /\ Answer(u, "refused")
      /\ IF Unresolved(u) THEN UNCHANGED owed ELSE Clear(u)
  BY DEF Reject
<1>2. ~At(u, "idle") /\ call[u].aim # "init"
  BY <1>1 DEF IInv, Structure, InCall, At
<1>3. Structure' /\ Truth' /\ told' \subseteq Answers /\ call' \in [Users -> Calls]
  BY <1>1, <1>2, AnswerKeeps
<1>4. owed' \in [Users -> [Ids -> Inputs \cup {NoId}]]
  BY <1>1, ClearType DEF IInv, TypeOK
<1> QED
  BY <1>1, <1>3, <1>4 DEF IInv, TypeOK


\* The answer to the push: it was accepted.
LEMMA AcceptedStep ==
  ASSUME IInv, NEW u \in Users, Accepted(u)
  PROVE  IInv'
<1>1. Awaiting(u) /\ call[u].reply = "ok" /\ Answer(u, "accepted") /\ Clear(u)
      /\ UNCHANGED <<ref, wire, observed, validated, left>>
  BY DEF Accepted, Awaiting
<1>2. ~At(u, "idle") /\ call[u].aim # "init" /\ (Pristine => Carries(ref, u, call[u].id, call[u].inp))
  BY <1>1 DEF IInv, Truth, OkLanded, Awaiting, At
<1>3. Structure' /\ Truth' /\ told' \subseteq Answers /\ call' \in [Users -> Calls]
  BY <1>1, <1>2, AnswerKeeps
<1>4. owed' \in [Users -> [Ids -> Inputs \cup {NoId}]]
  BY <1>1, ClearType DEF IInv
<1> QED
  BY <1>1, <1>3, <1>4 DEF IInv, TypeOK

\* The outcome of a push that went unanswered is looked up.
LEMMA ResolveStep ==
  ASSUME IInv, NEW u \in Users, Resolve(u)
  PROVE  IInv'
<1> DEFINE how == IF Found(u) THEN "replayed" ELSE "failed"
<1>1. At(u, "resolve") /\ Answer(u, how) /\ Clear(u)
      /\ UNCHANGED <<ref, wire, observed, validated, left>>
  BY DEF Resolve
<1>2. ~At(u, "idle") /\ call[u].aim # "init" /\ Holding(u)
  BY <1>1 DEF IInv, Structure, InCall, Holding, At
<1>3. how \in {"accepted", "replayed"} /\ Pristine => Carries(ref, u, call[u].id, call[u].inp)
  BY <1>2, FoundCarried DEF Found
<1> HIDE DEF how
<1>4. Structure' /\ Truth' /\ told' \subseteq Answers /\ call' \in [Users -> Calls]
  BY <1>1, <1>2, <1>3, AnswerKeeps
<1>5. owed' \in [Users -> [Ids -> Inputs \cup {NoId}]]
  BY <1>1, ClearType DEF IInv
<1> QED
  BY <1>1, <1>4, <1>5 DEF IInv, TypeOK

\* The lease was lost to another push.
LEMMA ContendedStep ==
  ASSUME IInv, NEW u \in Users, Contended(u)
  PROVE  IInv'
<1>1. At(u, "wait") /\ call[u].aim = "try" /\ Clear(u) /\ UNCHANGED <<ref, wire, observed, validated, left>>
  BY DEF Contended
<1>2. owed' \in [Users -> [Ids -> Inputs \cup {NoId}]]
  BY <1>1, ClearType DEF IInv
<1>3. ~At(u, "idle") /\ call[u].aim # "init" /\ call[u].id \in Ids /\ call[u].inp \in Inputs
  BY <1>1 DEF IInv, Structure, InCall, At
<1>4. CASE LastTry(u)
  <2>1. Answer(u, "failed")
    BY <1>4 DEF Contended
  <2>2. Structure' /\ Truth' /\ told' \subseteq Answers /\ call' \in [Users -> Calls]
    BY <1>1, <1>3, <2>1, AnswerKeeps
  <2> QED
    BY <1>1, <1>2, <2>2 DEF IInv, TypeOK
<1>5. CASE ~LastTry(u)
  <2>1. call[u] \in Calls /\ call[u].tries \in 0 .. Retries - 1
    BY DEF IInv, TypeOK, Calls
  <2>2. PICK n \in 0 .. Retries - 1 : n = call[u].tries + 1
    BY <1>5, <2>1, GitStoreAssumption DEF LastTry
  <2> DEFINE c == [call[u] EXCEPT !.at = "read", !.tries = n, !.reply = "none"]
  <2>3. Step(u, c) /\ UNCHANGED told
    BY <1>5, <2>2 DEF Contended
  <2>4. c \in Calls /\ c.at = "read" /\ c.aim = "try" /\ c.id = call[u].id /\ c.inp = call[u].inp
        /\ c.reply = "none"
    BY <1>1, <2>1, <2>2 DEF Calls
  <2> HIDE DEF c
  <2>5. TypeOK'
    BY <1>1, <1>2, <2>3, <2>4, StepIs DEF IInv, TypeOK
  <2> QED
    BY <1>1, <1>3, <2>3, <2>4, <2>5, ClientKeeps DEF IInv
<1> QED
  BY <1>4, <1>5

\* No answer to the push.
LEMMA LostStep ==
  ASSUME IInv, NEW u \in Users, Lost(u)
  PROVE  IInv'
<1> DEFINE c == [call[u] EXCEPT !.at = "read", !.aim = "resolve", !.reply = "none"]
<1>1. At(u, "wait") /\ call[u].aim = "try" /\ Step(u, c)
      /\ UNCHANGED <<ref, wire, observed, validated, owed, told, left>>
  BY DEF Lost
<1>2. call[u].id \in Ids /\ call[u].inp \in Inputs
  BY <1>1 DEF IInv, Structure, InCall, At
<1>3. c \in Calls /\ c.at = "read" /\ c.aim = "resolve" /\ c.id = call[u].id /\ c.inp = call[u].inp
      /\ c.reply = "none"
  <2>1. call[u] \in Calls
    BY DEF IInv, TypeOK
  <2> QED
    BY <2>1 DEF Calls
<1> HIDE DEF c
<1>4. TypeOK'
  BY <1>1, <1>3, StepIs DEF IInv, TypeOK
<1> QED
  BY <1>1, <1>2, <1>3, <1>4, ClientKeeps DEF IInv

\* initialize returns, and a kill: the call is gone, nothing else has happened.
LEMMA Dropped ==
  ASSUME IInv, NEW u \in Users, Step(u, NoCall), UNCHANGED <<ref, wire, validated, owed, told>>,
         left'.pushes = left.pushes, left'.tampering = left.tampering,
         left' \in [pushes : Nat, calls : Nat, crashes : Nat, tampering : Nat],
         observed' \in [Users -> Histories]
  PROVE  IInv'
<1>1. NoCall.at = "idle" /\ NoCall.aim # "init" /\ NoCall.reply = "none"
  BY DEF NoCall
<1>2. TypeOK'
  BY NoCallType, StepIs DEF IInv, TypeOK
<1> QED
  BY <1>1, <1>2, NoCallType, ClientKeeps DEF IInv

LEMMA InitializedStep ==
  ASSUME IInv, NEW u \in Users, Initialized(u)
  PROVE  IInv'
<1>1. Step(u, NoCall) /\ UNCHANGED <<ref, wire, observed, validated, owed, told, left>>
  BY DEF Initialized
<1> QED
  BY <1>1, Dropped DEF IInv, TypeOK

LEMMA CrashStep ==
  ASSUME IInv, NEW u \in Users, Crash(u)
  PROVE  IInv'
<1>1. Step(u, NoCall) /\ UNCHANGED <<ref, wire, validated, owed, told>> /\ left.crashes > 0
      /\ left' = [left EXCEPT !.crashes = @ - 1]
      /\ (UNCHANGED observed \/ observed' = [observed EXCEPT ![u] = <<>>])
  BY DEF Crash
<1>2. left' \in [pushes : Nat, calls : Nat, crashes : Nat, tampering : Nat]
      /\ left'.pushes = left.pushes /\ left'.tampering = left.tampering
  <2>1. PICK n \in Nat : n = left.crashes - 1
    BY <1>1 DEF IInv, TypeOK
  <2> QED
    BY <1>1, <2>1 DEF IInv, TypeOK
<1>3. <<>> \in Histories
  BY DEF Histories
<1>4. observed' \in [Users -> Histories]
  BY <1>1, <1>3 DEF IInv, TypeOK
<1> QED
  BY <1>1, <1>2, <1>4, Dropped

-----------------------------------------------------------------------------
(* Pushes.                                                                 *)

\* One commit more.
LEMMA Extended ==
  ASSUME NEW h \in Histories, NEW c \in Commits
  PROVE  /\ Append(h, c) \in Histories /\ Append(h, c) # <<>>
         /\ Len(h) \in Nat /\ DOMAIN h = 1 .. Len(h) /\ DOMAIN Append(h, c) = 1 .. Len(h) + 1
         /\ Len(Append(h, c)) = Len(h) + 1 /\ Append(h, c)[Len(h) + 1] = c
         /\ \A k \in DOMAIN h : k \in DOMAIN Append(h, c) /\ Append(h, c)[k] = h[k]
BY DEF Histories

\* A push is numbered, and the next one will have a lower number.
LEMMA SendIs ==
  ASSUME TypeOK, NEW u \in Users, NEW h \in Histories, NEW g \in Histories, Send(u, h, g)
  PROVE  /\ left.pushes \in Nat \ {0} /\ left'.pushes = left.pushes - 1 /\ left'.tampering = left.tampering
         /\ left' \in [pushes : Nat, calls : Nat, crashes : Nat, tampering : Nat]
         /\ wire' = wire \cup {[by |-> u, commit |-> h, expected |-> g]} /\ wire' \subseteq Pushes
<1>1. left.pushes > 0 /\ left' = [left EXCEPT !.pushes = @ - 1]
      /\ wire' = wire \cup {[by |-> u, commit |-> h, expected |-> g]}
  BY DEF Send
<1>2. PICK n \in Nat : n = left.pushes - 1
  BY <1>1 DEF TypeOK
<1>3. left' = [left EXCEPT !.pushes = n]
  BY <1>1, <1>2
<1>4. [by |-> u, commit |-> h, expected |-> g] \in Pushes
  BY DEF Pushes
<1> QED
  BY <1>1, <1>2, <1>3, <1>4 DEF TypeOK

\* A push of one commit on what the caller read, and the caller waits for it.
LEMMA PushKeeps ==
  ASSUME IInv, NEW u \in Users, NEW g \in Histories, NEW c \in Commits, NEW d \in Calls,
         Send(u, Append(g, c), g), Step(u, d), UNCHANGED <<ref, told>>,
         c.by = u, c.nonce = left.pushes,
         d.at = "wait", d.nonce = left.pushes, d.reply = "none",
         IF g = <<>> THEN c.id = NoId /\ d.aim = "init"
         ELSE /\ c.id \in Ids /\ c.inp \in Inputs /\ Log!Allowed(Operations(g), c.id)
              /\ d.aim # "init" /\ d.id = c.id /\ d.inp = c.inp
  PROVE  Structure' /\ Truth'
<1> DEFINE new == [by |-> u, commit |-> Append(g, c), expected |-> g]
<1>1. /\ left.pushes \in Nat \ {0} /\ left'.pushes = left.pushes - 1 /\ left'.tampering = left.tampering
      /\ wire' = wire \cup {new}
  BY SendIs, Extended DEF IInv
<1>2. /\ call' \in [Users -> Calls] /\ call'[u] = d
      /\ \A v \in Users : v # u => call'[v] = call[v]
  BY StepIs DEF IInv
<1>3. new.by = u /\ new.commit = Append(g, c) /\ new.expected = g /\ Tip(new) = c
  BY Extended DEF Tip
<1>4. Pristine' <=> Pristine
  BY <1>1 DEF Pristine
<1>5. \A p \in wire : p.by \in Users /\ Tip(p) \in Commits /\ Tip(p).nonce \in Nat /\ Tip(p).nonce > left.pushes
  BY DEF IInv, TypeOK, Pushes, Structure, PushExtends, PushNumbered, Commits
<1> HIDE DEF new
<1>6. left'.tampering <= MaxTampering /\ Rooted(ref)' /\ OneRecord'
  BY <1>1 DEF IInv, Structure, Rooted, OneRecord
<1>7. InCall'
  BY <1>2 DEF IInv, Structure, InCall, At, Holding
<1>8. PushExtends'
  <2>1. \A p : Tip(p)' = Tip(p)
    BY DEF Tip
  <2>2. SUFFICES ASSUME NEW p \in wire'
                 PROVE  /\ p.commit = Append(p.expected, Tip(p))
                        /\ Tip(p) \in Commits /\ Tip(p).by = p.by
                        /\ IF p.expected = <<>> THEN Tip(p).id = NoId
                           ELSE /\ Tip(p).id \in Ids /\ Tip(p).inp \in Inputs
                                /\ Log!Allowed(Operations(p.expected), Tip(p).id)
    BY DEF PushExtends, Tip
  <2>3. CASE p \in wire
    BY <2>3 DEF IInv, Structure, PushExtends
  <2>4. CASE p = new
    BY <1>3, <2>4
  <2> QED
    BY <1>1, <2>2, <2>3, <2>4
<1>9. PushNumbered'
  <2>1. SUFFICES ASSUME NEW p \in wire' PROVE Tip(p).nonce > left'.pushes
    BY DEF PushNumbered, Tip
  <2>2. CASE p \in wire
    BY <1>1, <1>5, <2>2
  <2>3. CASE p = new
    BY <1>1, <1>3, <2>3
  <2> QED
    BY <1>1, <2>1, <2>2, <2>3
<1>10. PushAwaited'
  <2>1. SUFFICES ASSUME NEW p \in wire', Awaiting(p.by)', call'[p.by].nonce = Tip(p).nonce
                 PROVE  call'[p.by].id = Tip(p).id /\ call'[p.by].inp = Tip(p).inp
    BY DEF PushAwaited, Tip
  <2>2. CASE p \in wire /\ p.by # u
    <3>1. call'[p.by] = call[p.by]
      BY <1>2, <1>5, <2>2
    <3>2. Awaiting(p.by)
      BY <2>1, <3>1 DEF Awaiting, At
    <3> QED
      BY <2>1, <2>2, <3>1, <3>2 DEF IInv, Structure, PushAwaited
  <2>3. CASE p \in wire /\ p.by = u
    <3>1. Tip(p).nonce = left.pushes
      BY <1>2, <2>1, <2>3
    <3> QED
      BY <1>1, <1>5, <2>3, <3>1
  <2>4. CASE p = new
    BY <1>2, <1>3, <2>1, <2>4 DEF Awaiting, At
  <2> QED
    BY <1>1, <2>1, <2>2, <2>3, <2>4
<1>11. HeadKept'
  BY <1>2, <1>4 DEF IInv, Truth, HeadKept, Holding
<1>12. ASSUME NEW v \in Users, Awaiting(v)', call'[v].reply = "ok"
       PROVE  call'[v] = call[v] /\ Awaiting(v)
  BY <1>2, <1>12 DEF Awaiting, At
<1>13. OkLanded'
  BY <1>4, <1>12 DEF IInv, Truth, OkLanded, Carries
<1>14. OkFresh'
  BY <1>4, <1>12 DEF IInv, Truth, OkFresh
<1>15. AnswersTrue'
  BY <1>1 DEF IInv, Truth, AnswersTrue
<1> QED
  BY <1>6, <1>7, <1>8, <1>9, <1>10, <1>11, <1>13, <1>14, <1>15 DEF Structure, Truth

\* Commit, write the obligation, push.
LEMMA PushStep ==
  ASSUME IInv, NEW u \in Users, Push(u)
  PROVE  IInv'
<1> DEFINE g == call[u].head
           c == Commit(u, call[u].id, call[u].inp)
           d == [call[u] EXCEPT !.at = "wait", !.head = <<>>, !.nonce = left.pushes]
<1>1. At(u, "try") /\ Log!Allowed(Operations(g), call[u].id) /\ Send(u, Append(g, c), g) /\ Step(u, d)
      /\ owed' = [owed EXCEPT ![u][call[u].id] = call[u].inp]
      /\ UNCHANGED <<ref, observed, validated, told>>
  BY DEF Push
<1>2. call[u] \in Calls /\ g \in Histories /\ left.pushes \in Nat
  BY DEF IInv, TypeOK, Calls
<1>3. g # <<>> /\ call[u].aim # "init" /\ call[u].id \in Ids /\ call[u].inp \in Inputs /\ call[u].reply = "none"
  BY <1>1 DEF IInv, Structure, InCall, At, Holding
<1>4. c \in Commits /\ c.by = u /\ c.nonce = left.pushes /\ c.id = call[u].id /\ c.inp = call[u].inp
  BY <1>2, <1>3 DEF Commit, Commits
<1>5. d \in Calls /\ d.at = "wait" /\ d.nonce = left.pushes /\ d.reply = call[u].reply
      /\ d.aim = call[u].aim /\ d.id = call[u].id /\ d.inp = call[u].inp
  <2>1. <<>> \in Histories
    BY DEF Histories
  <2> QED
    BY <1>2, <2>1 DEF Calls
<1> HIDE DEF g, c, d
<1>6. Structure' /\ Truth'
  BY <1>1, <1>2, <1>3, <1>4, <1>5, PushKeeps
<1>7. Append(g, c) \in Histories
  BY <1>2, <1>4, Extended
<1>8. wire' \subseteq Pushes /\ left' \in [pushes : Nat, calls : Nat, crashes : Nat, tampering : Nat]
  BY <1>1, <1>2, <1>7, SendIs DEF IInv
<1>9. call' \in [Users -> Calls]
  BY <1>1, <1>5, StepIs DEF IInv
<1>10. owed' \in [Users -> [Ids -> Inputs \cup {NoId}]]
  BY <1>1, <1>3 DEF IInv, TypeOK
<1> QED
  BY <1>1, <1>6, <1>8, <1>9, <1>10 DEF IInv, TypeOK

\* initialize pushes a root.
LEMMA InitializeStep ==
  ASSUME IInv, NEW u \in Users, Initialize(u)
  PROVE  IInv'
<1> DEFINE c == Commit(u, NoId, NoId)
           d == [NoCall EXCEPT !.at = "wait", !.aim = "init", !.nonce = left.pushes]
<1>1. Send(u, <<c>>, <<>>) /\ Step(u, d) /\ UNCHANGED <<ref, observed, validated, owed, told>>
  BY DEF Initialize
<1>2. left.pushes \in Nat /\ <<>> \in Histories
  BY DEF IInv, TypeOK, Histories
<1>3. c \in Commits /\ c.by = u /\ c.nonce = left.pushes /\ c.id = NoId
  BY <1>2 DEF Commit, Commits
<1>4. d \in Calls /\ d.at = "wait" /\ d.nonce = left.pushes /\ d.reply = "none" /\ d.aim = "init"
  BY <1>2, NoCallType DEF NoCall, Calls
<1> HIDE DEF c, d
<1>5. Append(<<>>, c) = <<c>>
  OBVIOUS
<1>6. Structure' /\ Truth'
  BY <1>1, <1>2, <1>3, <1>4, <1>5, PushKeeps
<1>7. Append(<<>>, c) \in Histories
  BY <1>2, <1>3, Extended
<1>8. wire' \subseteq Pushes /\ left' \in [pushes : Nat, calls : Nat, crashes : Nat, tampering : Nat]
  BY <1>1, <1>2, <1>5, <1>7, SendIs DEF IInv
<1>9. call' \in [Users -> Calls]
  BY <1>1, <1>4, StepIs DEF IInv
<1> QED
  BY <1>1, <1>6, <1>8, <1>9 DEF IInv, TypeOK

\* A push is lost on its way.
LEMMA VanishStep ==
  ASSUME IInv, NEW p \in wire, Vanish(p)
  PROVE  IInv'
<1>1. wire' \subseteq wire /\ UNCHANGED <<ref, observed, validated, owed, call, told, left>>
  BY DEF Vanish
<1>2. TypeOK'
  BY <1>1 DEF IInv, TypeOK
<1>3. left'.tampering <= MaxTampering /\ Rooted(ref)' /\ OneRecord' /\ InCall'
  BY <1>1 DEF IInv, Structure, Rooted, OneRecord, InCall, At, Holding
<1>4. PushExtends' /\ PushNumbered' /\ PushAwaited'
  BY <1>1 DEF IInv, Structure, PushExtends, PushNumbered, PushAwaited, Tip, Awaiting, At
<1>5. Truth'
  BY <1>1 DEF IInv, Truth, HeadKept, OkLanded, OkFresh, AnswersTrue, Pristine, Holding, Awaiting, At, Carries
<1> QED
  BY <1>2, <1>3, <1>4, <1>5 DEF IInv, Structure

\* What is told to the sender goes to the call that waits for this push.
LEMMA ReplyIs ==
  ASSUME TypeOK, NEW p \in Pushes, NEW r \in {"ok", "stale"}, Reply(p, r)
  PROVE  /\ call' \in [Users -> Calls]
         /\ \A v \in Users :
              /\ call'[v].at = call[v].at /\ call'[v].id = call[v].id /\ call'[v].inp = call[v].inp
              /\ call'[v].aim = call[v].aim /\ call'[v].head = call[v].head /\ call'[v].nonce = call[v].nonce
              /\ \/ call'[v].reply = call[v].reply
                 \/ v = p.by /\ At(v, "wait") /\ call[v].nonce = Tip(p).nonce /\ call'[v].reply = r
<1>1. p.by \in Users
  BY DEF Pushes
<1>2. CASE At(p.by, "wait") /\ call[p.by].nonce = p.commit[Len(p.commit)].nonce
  <2> DEFINE c == [call[p.by] EXCEPT !.reply = r]
  <2>1. Step(p.by, c)
    BY <1>2 DEF Reply
  <2>2. call[p.by] \in Calls
    BY <1>1 DEF TypeOK
  <2>3. c \in Calls /\ c.at = call[p.by].at /\ c.id = call[p.by].id /\ c.inp = call[p.by].inp
        /\ c.aim = call[p.by].aim /\ c.head = call[p.by].head /\ c.nonce = call[p.by].nonce /\ c.reply = r
    BY <2>2 DEF Calls
  <2> HIDE DEF c
  <2>4. /\ call' \in [Users -> Calls] /\ call'[p.by] = c
        /\ \A v \in Users : v # p.by => call'[v] = call[v]
    BY <1>1, <2>1, <2>3, StepIs
  <2> QED
    BY <1>2, <2>3, <2>4 DEF Tip
<1>3. CASE ~(At(p.by, "wait") /\ call[p.by].nonce = p.commit[Len(p.commit)].nonce)
  BY <1>3 DEF Reply, TypeOK
<1> QED
  BY <1>2, <1>3

\* Tip(p) is in the ref when the push has landed, and its id was not.
LEMMA LandedIs ==
  ASSUME IInv, NEW p \in wire, Lands(p), ref' = p.commit
  PROVE  /\ ref' = Append(ref, Tip(p)) /\ Tip(p) \in Commits /\ Tip(p).by = p.by /\ p \in Pushes
         /\ ref' \in Histories
         /\ Len(ref) \in Nat /\ DOMAIN ref = 1 .. Len(ref) /\ DOMAIN ref' = 1 .. Len(ref) + 1
         /\ ref'[Len(ref) + 1] = Tip(p)
         /\ \A k \in DOMAIN ref : k \in DOMAIN ref' /\ ref'[k] = ref[k]
         /\ \A k \in DOMAIN ref : ref[k].id # Tip(p).id
<1>1. /\ p.commit = Append(p.expected, Tip(p)) /\ Tip(p) \in Commits /\ Tip(p).by = p.by /\ p.expected = ref
      /\ IF p.expected = <<>> THEN Tip(p).id = NoId
         ELSE /\ Tip(p).id \in Ids /\ Tip(p).inp \in Inputs
              /\ Log!Allowed(Operations(p.expected), Tip(p).id)
  BY DEF IInv, Structure, PushExtends, Lands
<1>2. ref' = Append(ref, Tip(p)) /\ ref \in Histories /\ p \in Pushes
  BY <1>1 DEF IInv, TypeOK
<1>3. /\ Append(ref, Tip(p)) \in Histories
      /\ Len(ref) \in Nat /\ DOMAIN ref = 1 .. Len(ref) /\ DOMAIN Append(ref, Tip(p)) = 1 .. Len(ref) + 1
      /\ Append(ref, Tip(p))[Len(ref) + 1] = Tip(p)
      /\ \A k \in DOMAIN ref : k \in DOMAIN Append(ref, Tip(p)) /\ Append(ref, Tip(p))[k] = ref[k]
  BY <1>1, <1>2, Extended
<1>4. ASSUME NEW k \in DOMAIN ref PROVE ref[k].id # Tip(p).id
  <2>1. ref # <<>>
    BY <1>3
  <2>2. Tip(p).id \in Ids /\ Tip(p).id \notin Log!Applied(Operations(ref))
    BY <1>1, <2>1 DEF Log!Allowed
  <2>3. CASE k = 1
    BY <2>2, <2>3, GitStoreAssumption DEF IInv, Structure, Rooted
  <2>4. CASE k # 1
    <3>1. k \in 2 .. Len(ref)
      BY <1>3, <2>4
    <3> QED
      BY <1>2, <2>2, <3>1, AppliedAre
  <2> QED
    BY <2>3, <2>4
<1> QED
  BY <1>1, <1>2, <1>3, <1>4

\* The push reaches the server, and the ref is what it expects or is not.
LEMMA ArriveStep ==
  ASSUME IInv, NEW p \in wire, Arrive(p)
  PROVE  IInv'
<1> DEFINE r == IF Lands(p) THEN "ok" ELSE "stale"
<1>1. /\ wire' \subseteq wire /\ UNCHANGED <<observed, validated, owed, told, left>> /\ p \in Pushes
      /\ Reply(p, r) /\ ref' = IF Lands(p) THEN p.commit ELSE ref
  BY DEF Arrive, IInv, TypeOK
<1>2. r \in {"ok", "stale"} /\ (r = "ok" <=> Lands(p))
  OBVIOUS
<1> HIDE DEF r
<1>3. /\ call' \in [Users -> Calls]
      /\ \A v \in Users :
           /\ call'[v].at = call[v].at /\ call'[v].id = call[v].id /\ call'[v].inp = call[v].inp
           /\ call'[v].aim = call[v].aim /\ call'[v].head = call[v].head /\ call'[v].nonce = call[v].nonce
           /\ \/ call'[v].reply = call[v].reply
              \/ v = p.by /\ At(v, "wait") /\ call[v].nonce = Tip(p).nonce /\ call'[v].reply = r
  BY <1>1, <1>2, ReplyIs DEF IInv
<1>4. /\ ref' \in Histories
      /\ \A k \in DOMAIN ref : k \in DOMAIN ref' /\ ref'[k] = ref[k]
  <2>1. CASE Lands(p)
    BY <1>1, <2>1, LandedIs
  <2>2. CASE ~Lands(p)
    BY <1>1, <2>2 DEF IInv, TypeOK
  <2> QED
    BY <2>1, <2>2
<1>5. TypeOK'
  BY <1>1, <1>3, <1>4 DEF IInv, TypeOK
<1>6. Rooted(ref)' /\ OneRecord'
  <2>1. CASE ~Lands(p)
    BY <1>1, <2>1 DEF IInv, Structure, Rooted, OneRecord
  <2>2. CASE Lands(p)
    <3>1. /\ Len(ref) \in Nat /\ DOMAIN ref = 1 .. Len(ref) /\ DOMAIN ref' = 1 .. Len(ref) + 1
          /\ ref'[Len(ref) + 1] = Tip(p)
          /\ \A k \in DOMAIN ref : ref'[k] = ref[k] /\ ref[k].id # Tip(p).id
      BY <1>1, <2>2, LandedIs
    <3>2. \A k \in DOMAIN ref' : k \in DOMAIN ref \/ k = Len(ref) + 1
      BY <3>1
    <3>3. OneRecord'
      BY <3>1, <3>2 DEF IInv, Structure, OneRecord
    <3>4. IF ref = <<>> THEN Tip(p).id = NoId ELSE Tip(p).id \in Ids /\ Tip(p).inp \in Inputs
      BY <2>2 DEF IInv, Structure, PushExtends, Lands
    <3>5. ref = <<>> <=> Len(ref) = 0
      BY EmptySeq DEF IInv, TypeOK, Histories
    <3>6. Rooted(ref)'
      <4>1. SUFFICES ASSUME NEW k \in DOMAIN ref'
                     PROVE  IF k = 1 THEN ref'[k].id = NoId ELSE ref'[k].id \in Ids /\ ref'[k].inp \in Inputs
        BY DEF Rooted
      <4>2. CASE k \in DOMAIN ref
        BY <3>1, <4>2 DEF IInv, Structure, Rooted
      <4>3. CASE k = Len(ref) + 1
        <5>1. k = 1 <=> ref = <<>>
          BY <3>1, <3>5, <4>3
        <5> QED
          BY <3>1, <3>4, <4>3, <5>1
      <4> QED
        BY <3>2, <4>1, <4>2, <4>3
    <3> QED
      BY <3>3, <3>6
  <2> QED
    BY <2>1, <2>2
<1>7. left'.tampering <= MaxTampering /\ InCall'
  BY <1>1, <1>3 DEF IInv, Structure, InCall, At, Holding
<1>8. PushExtends' /\ PushNumbered'
  BY <1>1 DEF IInv, Structure, PushExtends, PushNumbered, Tip
<1>9. PushAwaited'
  <2>1. \A q \in wire : q.by \in Users
    BY DEF IInv, TypeOK, Pushes
  <2> QED
    BY <1>1, <1>3, <2>1 DEF IInv, Structure, PushAwaited, Awaiting, At, Tip
<1>10. Pristine' <=> Pristine
  BY <1>1 DEF Pristine
<1>11. HeadKept'
  BY <1>3, <1>4, <1>10 DEF IInv, Truth, HeadKept, Holding
<1>12. ASSUME NEW u, NEW id, NEW inp, Carries(ref, u, id, inp)
       PROVE  Carries(ref', u, id, inp)
  BY <1>4, <1>12 DEF Carries
<1>13. ASSUME NEW v \in Users, Pristine, Awaiting(v)', call'[v].reply = "ok"
       PROVE  Carries(ref', v, call'[v].id, call'[v].inp) /\ \A s \in told : s.id # call'[v].id
  <2>1. Awaiting(v) /\ call'[v].id = call[v].id /\ call'[v].inp = call[v].inp
    BY <1>3, <1>13 DEF Awaiting, At
  <2>2. CASE call[v].reply = "ok"
    BY <1>12, <1>13, <2>1, <2>2 DEF IInv, Truth, OkLanded, OkFresh
  <2>3. CASE call[v].reply # "ok"
    <3>1. v = p.by /\ call[v].nonce = Tip(p).nonce /\ r = "ok"
      BY <1>3, <1>13, <2>3
    <3>2. call[v].id = Tip(p).id /\ call[v].inp = Tip(p).inp
      BY <2>1, <3>1 DEF IInv, Structure, PushAwaited
    <3>3. /\ Len(ref) + 1 \in DOMAIN ref' /\ ref'[Len(ref) + 1] = Tip(p) /\ Tip(p).by = p.by
          /\ \A k \in DOMAIN ref : ref[k].id # Tip(p).id
      BY <1>1, <1>2, <3>1, LandedIs
    <3>4. Carries(ref', v, call'[v].id, call'[v].inp)
      BY <2>1, <3>1, <3>2, <3>3 DEF Carries
    <3>5. \A s \in told : \E k \in DOMAIN ref : ref[k].id = s.id
      BY <1>13 DEF IInv, Truth, AnswersTrue, Pristine
    <3> QED
      BY <2>1, <3>2, <3>3, <3>4, <3>5
  <2> QED
    BY <2>2, <2>3
<1>14. OkLanded' /\ OkFresh'
  BY <1>1, <1>10, <1>13 DEF OkLanded, OkFresh, Carries
<1>15. AnswersTrue'
  <2>1. SUFFICES ASSUME Pristine, NEW t \in told PROVE Carries(ref', t.by, t.id, t.inp)
    BY <1>1 DEF AnswersTrue, Carries, Pristine
  <2>2. Carries(ref, t.by, t.id, t.inp)
    BY <2>1 DEF IInv, Truth, AnswersTrue, Carries, Pristine
  <2> QED
    BY <1>12, <2>2
<1> QED
  BY <1>5, <1>6, <1>7, <1>8, <1>9, <1>11, <1>14, <1>15 DEF IInv, Structure, Truth

\* The ref is taken back from outside.
LEMMA TamperStep ==
  ASSUME IInv, Tamper
  PROVE  IInv'
<1>1. PICK k \in 0 .. Len(ref) - 1 : ref' = SubSeq(ref, 1, k)
  BY DEF Tamper
<1>2. left.tampering > 0 /\ left' = [left EXCEPT !.tampering = @ - 1] /\ ref # <<>>
      /\ UNCHANGED <<wire, observed, validated, owed, call, told>>
  BY DEF Tamper
<1>3. left' \in [pushes : Nat, calls : Nat, crashes : Nat, tampering : Nat]
      /\ left'.pushes = left.pushes /\ left'.tampering = left.tampering - 1
  <2>1. PICK n \in Nat : n = left.tampering - 1
    BY <1>2 DEF IInv, TypeOK
  <2> QED
    BY <1>2, <2>1 DEF IInv, TypeOK
<1>4. ref \in Histories /\ left.tampering \in Nat /\ left.tampering <= MaxTampering /\ MaxTampering \in Nat
  BY GitStoreAssumption DEF IInv, TypeOK, Structure
<1>5. Len(ref) \in Nat /\ DOMAIN ref = 1 .. Len(ref) /\ k \in 0 .. Len(ref)
  BY <1>1, <1>4 DEF Histories
<1>6. ref' \in Histories /\ DOMAIN ref' \subseteq DOMAIN ref /\ \A j \in DOMAIN ref' : ref'[j] = ref[j]
  <2>1. \A j \in 1 .. k : ref[j] \in Commits
    BY <1>4, <1>5 DEF Histories
  <2>2. ref' \in Seq(Commits) /\ Len(ref') = k /\ \A j \in 1 .. k : ref'[j] = ref[j]
    BY <1>1, <1>5, <2>1, SubSeqProperties
  <2>3. DOMAIN ref' = 1 .. k
    BY <2>2
  <2> QED
    BY <1>5, <2>2, <2>3 DEF Histories
<1>7. TypeOK'
  BY <1>2, <1>3, <1>6 DEF IInv, TypeOK
<1>8. Rooted(ref)' /\ OneRecord'
  BY <1>6 DEF IInv, Structure, Rooted, OneRecord
<1>9. InCall' /\ PushExtends' /\ PushNumbered' /\ PushAwaited'
  BY <1>2, <1>3 DEF IInv, Structure, InCall, PushExtends, PushNumbered, PushAwaited, Tip, Awaiting, At, Holding
<1>10. left'.tampering <= MaxTampering /\ ~Pristine'
  BY <1>2, <1>3, <1>4 DEF Pristine
<1>11. Truth'
  BY <1>10 DEF Truth, HeadKept, OkLanded, OkFresh, AnswersTrue, Pristine
<1> QED
  BY <1>7, <1>8, <1>9, <1>10, <1>11 DEF IInv, Structure

-----------------------------------------------------------------------------
(* The theorems.                                                           *)

LEMMA InitInvariant ==
  ASSUME Init
  PROVE  IInv
<1>1. <<>> \in Histories /\ DOMAIN ref = {}
  BY DEF Init, Histories
<1>2. TypeOK
  BY <1>1, NoCallType, GitStoreAssumption DEF Init, TypeOK
<1>3. Structure
  BY <1>1, GitStoreAssumption DEF Init, Structure, Rooted, OneRecord, InCall, PushExtends, PushNumbered, PushAwaited,
     At, Holding, NoCall
<1>4. Truth
  BY DEF Init, Truth, HeadKept, OkLanded, OkFresh, AnswersTrue, Awaiting, At, Holding, NoCall
<1> QED
  BY <1>2, <1>3, <1>4 DEF IInv

LEMMA StepInvariant ==
  ASSUME IInv, [Next]_vars
  PROVE  IInv'
<1>1. CASE UNCHANGED vars
  <2>1. TypeOK'
    BY <1>1 DEF vars, IInv, TypeOK
  <2>2. Structure'
    BY <1>1 DEF vars, IInv, Structure, Rooted, OneRecord, InCall, PushExtends, PushNumbered, PushAwaited,
       At, Holding, Awaiting, Tip
  <2>3. Truth'
    BY <1>1 DEF vars, IInv, Truth, HeadKept, OkLanded, OkFresh, AnswersTrue, Awaiting, At, Holding, Pristine, Carries
  <2> QED
    BY <2>1, <2>2, <2>3 DEF IInv
<1>2. CASE \E u \in Users : Client(u)
  BY <1>2, FetchStep, ObserveStep, ReplayStep, RejectStep, PushStep, AcceptedStep, ContendedStep, ResolveStep,
     InitializedStep DEF Client
<1>3. CASE \E u \in Users : Initialize(u) \/ FetchFails(u) \/ Lost(u) \/ Crash(u)
  BY <1>3, InitializeStep, FetchFailsStep, LostStep, CrashStep
<1>4. CASE \E u \in Users, id \in Ids, inp \in Inputs : Begin(u, id, inp)
  BY <1>4, BeginStep
<1>5. CASE \E p \in wire : Arrive(p) \/ Vanish(p)
  BY <1>5, ArriveStep, VanishStep
<1> QED
  BY <1>1, <1>2, <1>3, <1>4, <1>5, TamperStep DEF Next

\* The invariant that the other theorems rest on.
THEOREM StoreInvariant == Spec => []IInv
<1>1. Init => IInv
  BY InitInvariant
<1>2. IInv /\ [Next]_vars => IInv'
  BY StepInvariant
<1> QED
  BY <1>1, <1>2, PTL DEF Spec

\* transact tells the truth: an operation it reports as accepted or replayed is in
\* the ref with the caller's inputs, however pushes were lost, delayed or raced.
THEOREM TransactTrue == Spec => []AnswersTrue
<1>1. IInv => AnswersTrue
  BY DEF IInv, Truth
<1> QED
  BY <1>1, StoreInvariant, PTL

\* An id is in the history at most once, even when the ref was taken back.
THEOREM IdOnce == Spec => []OneRecord
<1>1. IInv => OneRecord
  BY DEF IInv, Structure
<1> QED
  BY <1>1, StoreInvariant, PTL

\* "accepted" is said of an operation to one caller, once.
THEOREM AcceptedOnce == Spec => FreshOnce
<1>1. ASSUME IInv, [Next]_vars, NEW t \in told' \ told, NEW s \in told,
             t.how = "accepted", t.id = s.id
      PROVE  left.tampering < MaxTampering
  <2>1. SUFFICES ASSUME Pristine PROVE FALSE
    <3>1. left.tampering \in Nat /\ MaxTampering \in Nat /\ left.tampering <= MaxTampering
      BY <1>1, GitStoreAssumption DEF IInv, TypeOK, Structure
    <3> QED
      BY <3>1 DEF Pristine
  <2>2. PICK u \in Users : FetchFails(u) \/ Replay(u) \/ Reject(u) \/ Accepted(u) \/ Contended(u) \/ Resolve(u)
    BY <1>1 DEF Next, Client, vars, Fetch, Observe, Push, Initialized, Initialize, Lost, Crash, Begin, Arrive,
       Vanish, Tamper
  <2>3. PICK how : Answer(u, how) /\ (how = "accepted" => Accepted(u)) /\ ~At(u, "idle") /\ call[u].aim # "init"
    <3>1. UNCHANGED told \/ \E how : Answer(u, how) /\ (how = "accepted" => Accepted(u))
      BY <2>2 DEF FetchFails, Replay, Reject, Accepted, Contended, Resolve
    <3>2. ~At(u, "idle") /\ call[u].aim # "init"
      BY <1>1, <2>2 DEF FetchFails, Replay, Reject, Accepted, Contended, Resolve, At, IInv, Structure, InCall
    <3> QED
      BY <1>1, <3>1, <3>2
  <2>4. call[u].id \in Ids /\ call[u].inp \in Inputs
    BY <1>1, <2>3 DEF IInv, Structure, InCall
  <2>5. t.id = call[u].id /\ t.how = how
    BY <1>1, <2>3, <2>4, AnswerIs DEF IInv
  <2>6. Awaiting(u) /\ call[u].reply = "ok"
    BY <1>1, <2>3, <2>5 DEF Accepted, Awaiting
  <2> QED
    BY <1>1, <2>1, <2>5, <2>6 DEF IInv, Truth, OkFresh
<1>2. IInv /\ [Next]_vars =>
        [\A t \in told' \ told, s \in told :
           ~(t.how = "accepted" /\ s.how = "accepted" /\ t.id = s.id) \/ left.tampering < MaxTampering]_vars
  BY <1>1
<1> QED
  BY <1>2, StoreInvariant, PTL DEF Spec, FreshOnce

-----------------------------------------------------------------------------
(* The refinement: one push that lands is one operation, one completed     *)
(* fetch is what a user learns, everything else is invisible.              *)

LEMMA InitRefines ==
  ASSUME Init
  PROVE  Log!Init
<1>1. Operations(<<>>) = <<>>
  BY OperationsAre, EmptySeq DEF Histories
<1>2. [u \in Users |-> Operations(validated[u])] = [u \in Users |-> <<>>]
  BY <1>1 DEF Init
<1> QED
  BY <1>1, <1>2 DEF Init, Log!Init

\* What neither the ref nor a checkpoint sees is a stutter of the log.
LEMMA Invisible ==
  ASSUME UNCHANGED <<ref, validated>>
  PROVE  UNCHANGED <<Operations(ref), [u \in Users |-> Operations(validated[u])]>>
BY DEF Operations

LEMMA FetchRefines ==
  ASSUME IInv, NEW u \in Users, Fetch(u)
  PROVE  Log!Learn(u)
<1>1. ref # <<>> /\ Log!Prefix(validated[u], ref) /\ validated' = [validated EXCEPT ![u] = ref] /\ UNCHANGED ref
  BY DEF Fetch, Continues
<1>2. ref \in Histories /\ validated \in [Users -> Histories]
  BY DEF IInv, TypeOK
<1>3. Log!Prefix(Operations(validated[u]), Operations(ref))
  BY <1>1, <1>2, OperationsOfPrefix
<1> DEFINE seen == [v \in Users |-> Operations(validated[v])]
<1>4. seen[u] = Operations(validated[u])
  OBVIOUS
<1>5. \A v \in Users : Operations(validated'[v]) = IF v = u THEN Operations(ref) ELSE Operations(validated[v])
  BY <1>1, <1>2
<1>6. seen' = [v \in Users |-> Operations(validated'[v])]
  BY DEF Operations
<1>7. seen' = [seen EXCEPT ![u] = Operations(ref)]
  BY <1>5, <1>6
<1>8. Operations(ref)' = Operations(ref)
  BY <1>1 DEF Operations
<1> QED
  BY <1>3, <1>4, <1>7, <1>8 DEF Log!Learn

LEMMA ArriveRefines ==
  ASSUME IInv, NEW p \in wire, Arrive(p)
  PROVE  \/ \E e \in Log!Entries : Log!Apply(e)
         \/ UNCHANGED <<Operations(ref), [u \in Users |-> Operations(validated[u])]>>
<1>1. UNCHANGED validated /\ ref' = IF Lands(p) THEN p.commit ELSE ref
  BY DEF Arrive
<1>2. [u \in Users |-> Operations(validated[u])]' = [u \in Users |-> Operations(validated[u])]
  BY <1>1 DEF Operations
<1>3. CASE ~Lands(p)
  BY <1>1, <1>3, Invisible
<1>4. CASE Lands(p)
  <2>1. ref' = Append(ref, Tip(p)) /\ Tip(p) \in Commits /\ ref \in Histories
    BY <1>1, <1>4, LandedIs DEF IInv, TypeOK
  <2>2. Operations(ref)' = Operations(ref')
    BY DEF Operations
  <2>3. CASE ref = <<>>
    <3>1. Len(ref') = 1 /\ ref' \in Histories
      <4>1. Len(ref) = 0
        BY <2>3, EmptySeq
      <4>2. Len(Append(ref, Tip(p))) = Len(ref) + 1 /\ Append(ref, Tip(p)) \in Histories
        BY <2>1, Extended
      <4> QED
        BY <2>1, <4>1, <4>2
    <3>2. ref' # <<>> /\ Len(Operations(ref')) = 0 /\ Operations(ref') \in Seq(Rows)
      <4>1. ref' # <<>>
        BY <2>1, Extended
      <4> QED
        BY <3>1, <4>1, OperationsAre
    <3>3. Operations(ref') = <<>> /\ Operations(ref) = <<>>
      BY <2>1, <2>3, <3>2, EmptySeq, OperationsAre
    <3> QED
      BY <1>2, <2>2, <3>3
  <2>4. CASE ref # <<>>
    <3>1. Operations(ref') = Append(Operations(ref), Entry(Tip(p)))
      BY <2>1, <2>4, OperationsOfAppend
    <3>2. Tip(p).id \in Ids /\ Tip(p).inp \in Inputs /\ Log!Allowed(Operations(ref), Tip(p).id)
      BY <1>4, <2>4 DEF IInv, Structure, PushExtends, Lands
    <3>3. Entry(Tip(p)) \in Log!Entries /\ Entry(Tip(p)).id = Tip(p).id
      BY <2>1, <3>2 DEF Entry, Commits, Log!Entries
    <3> QED
      BY <1>2, <2>2, <3>1, <3>2, <3>3 DEF Log!Apply
  <2> QED
    BY <2>3, <2>4
<1> QED
  BY <1>3, <1>4

LEMMA TamperRefines ==
  ASSUME IInv, Tamper
  PROVE  Log!Outside \/ UNCHANGED <<Operations(ref), [u \in Users |-> Operations(validated[u])]>>
<1>1. PICK k \in 0 .. Len(ref) - 1 : ref' = SubSeq(ref, 1, k)
  BY DEF Tamper
<1>2. ref # <<>> /\ UNCHANGED validated /\ ref \in Histories
  BY DEF Tamper, IInv, TypeOK
<1>3. [u \in Users |-> Operations(validated[u])]' = [u \in Users |-> Operations(validated[u])]
  BY <1>2 DEF Operations
<1>4. Len(ref) \in Nat \ {0} /\ Len(Operations(ref)) = Len(ref) - 1 /\ Operations(ref) \in Seq(Rows)
  BY <1>2, OperationsAre
<1> DEFINE n == IF k = 0 THEN 0 ELSE k - 1
<1>5. Operations(ref)' = SubSeq(Operations(ref), 1, n)
  <2>1. k \in 0 .. Len(ref)
    BY <1>4
  <2>2. Operations(ref)' = Operations(ref')
    BY DEF Operations
  <2>3. Operations(SubSeq(ref, 1, k)) = SubSeq(Operations(ref), 1, n)
    BY <1>2, <2>1, OperationsOfSubSeq
  <2> QED
    BY <1>1, <2>2, <2>3
<1>6. CASE Len(ref) = 1
  <2>1. n = 0 /\ Len(Operations(ref)) = 0
    BY <1>4, <1>6
  <2>2. Operations(ref) = <<>> /\ SubSeq(Operations(ref), 1, 0) = <<>>
    BY <1>4, <2>1, EmptySeq, SubSeqEmpty
  <2> QED
    BY <1>3, <1>5, <2>1, <2>2
<1>7. CASE Len(ref) # 1
  <2>1. n \in 0 .. Len(Operations(ref)) - 1
    BY <1>4, <1>7
  <2> HIDE DEF n
  <2> QED
    BY <1>3, <1>5, <2>1 DEF Log!Outside
<1> QED
  BY <1>6, <1>7

\* Fetching, pushing with a lease, losing answers, retrying and crashing amount to
\* one log of operations that nobody is taken back behind.
THEOREM StoreRefinesLog == Spec => ImplementsLog
<1>1. Init => Log!Init
  BY InitRefines
<1>2. IInv /\ [Next]_vars => [Log!Next]_<<Operations(ref), [u \in Users |-> Operations(validated[u])]>>
  <2> SUFFICES ASSUME IInv, [Next]_vars
               PROVE  Log!Next \/ UNCHANGED <<Operations(ref), [u \in Users |-> Operations(validated[u])]>>
    OBVIOUS
  <2>1. CASE UNCHANGED <<ref, validated>>
    BY <2>1, Invisible
  <2>2. CASE \E u \in Users : Fetch(u)
    BY <2>2, FetchRefines DEF Log!Next
  <2>3. CASE \E p \in wire : Arrive(p)
    BY <2>3, ArriveRefines DEF Log!Next
  <2>4. CASE Tamper
    BY <2>4, TamperRefines DEF Log!Next
  <2> QED
    BY <2>1, <2>2, <2>3, <2>4 DEF Next, Client, vars, Observe, Replay, Reject, Push, Accepted, Contended, Resolve,
       Initialized, Initialize, FetchFails, Lost, Crash, Begin, Vanish
<1> QED
  BY <1>1, <1>2, StoreInvariant, PTL DEF Spec, ImplementsLog, Log!Spec
=============================================================================
