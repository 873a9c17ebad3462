--------------------------- MODULE AppLocksProofs ---------------------------
(***************************************************************************)
(* Proofs about AppLocks, for any number of threads and every mix of the   *)
(* requests but bridge_reply, which breaks the order of the mutexes (see   *)
(* the run BridgeReply).                                                   *)
(***************************************************************************)
EXTENDS AppLocks, TLAPS, Integers, SequenceTheorems

Op == [op : {"lock", "unlock"}, mutex : Mutex]

\* After its first j operations, the next thing p does to m is to unlock it:
\* m is held then.
Closes(p, j, m) ==
    \E k \in (j + 1)..Len(p) :
        /\ p[k].op = "unlock" /\ p[k].mutex = m
        /\ \A i \in (j + 1)..(k - 1) : p[i].mutex # m

\* Every mutex is locked and unlocked in turn.
Alternates(p) ==
    \A i \in 1..Len(p) : p[i].op = "lock" <=> Closes(p, i, p[i].mutex)

\* Nothing happens under a mutex other than the guardian's.
Tight(p) ==
    \A i \in 2..Len(p) :
        p[i].op = "unlock" /\ p[i].mutex # "guardian" =>
            p[i - 1].mutex = p[i].mutex

Tidy(p) == p \in Seq(Op) /\ Alternates(p) /\ Tight(p)

\* A path that begins and ends with nothing held.
Whole(p) == Tidy(p) /\ \A m \in Mutex : ~Closes(p, 0, m)

-----------------------------------------------------------------------------
(* The paths of the handlers are whole.                                    *)

\* A whole path begins with a lock, whatever comes before it.
LEMMA WholeBegins ==
    ASSUME NEW p, Whole(p), p # <<>>
    PROVE  Len(p) \in Nat \ {0} /\ p[1] \in Op /\ p[1].op = "lock"
<1>1. p \in Seq(Op) /\ Len(p) \in Nat \ {0}
  BY EmptySeq DEF Whole, Tidy
<1>2. p[1] \in Op
  BY <1>1, ElementOfSeq
<1>3. p[1].op # "unlock"
  BY <1>1, <1>2 DEF Whole, Closes, Op
<1> QED
  BY <1>1, <1>2, <1>3 DEF Op

LEMMA WholeConcat ==
    ASSUME NEW p, NEW q, Whole(p), Whole(q)
    PROVE  Whole(p \o q)
<1> DEFINE r == p \o q
           n == Len(p)
<1>1. /\ p \in Seq(Op) /\ q \in Seq(Op) /\ r \in Seq(Op)
      /\ n \in Nat /\ Len(q) \in Nat /\ Len(r) = n + Len(q)
      /\ \A i \in 1..n : r[i] = p[i]
      /\ \A i \in 1..Len(q) : r[n + i] = q[i]
  BY ConcatProperties, LenProperties DEF Whole, Tidy
<1>2. \A i \in 1..n : p[i] \in Op
  BY <1>1, ElementOfSeq
<1>3. \A i \in 1..Len(q) : q[i] \in Op
  BY <1>1, ElementOfSeq
<1> HIDE DEF r, n
<1>4. ASSUME NEW j \in 0..Len(q), NEW m
      PROVE  Closes(r, n + j, m) <=> Closes(q, j, m)
  <2>1. ASSUME Closes(q, j, m) PROVE Closes(r, n + j, m)
    <3>1. PICK k \in (j + 1)..Len(q) :
            /\ q[k].op = "unlock" /\ q[k].mutex = m
            /\ \A i \in (j + 1)..(k - 1) : q[i].mutex # m
      BY <2>1 DEF Closes
    <3>2. PICK e : e = n + k
      OBVIOUS
    <3>3. e \in (n + j + 1)..Len(r) /\ r[e] = q[k]
      BY <1>1, <3>1, <3>2
    <3>4. ASSUME NEW i \in (n + j + 1)..(e - 1) PROVE r[i].mutex # m
      <4>1. i - n \in (j + 1)..(k - 1) /\ i - n \in 1..Len(q) /\ i = n + (i - n)
        BY <1>1, <3>1, <3>2, <3>4
      <4> QED
        BY <1>1, <3>1, <4>1
    <3> QED
      BY <3>1, <3>3, <3>4 DEF Closes
  <2>2. ASSUME Closes(r, n + j, m) PROVE Closes(q, j, m)
    <3>1. PICK k \in (n + j + 1)..Len(r) :
            /\ r[k].op = "unlock" /\ r[k].mutex = m
            /\ \A i \in (n + j + 1)..(k - 1) : r[i].mutex # m
      BY <2>2 DEF Closes
    <3>2. k - n \in (j + 1)..Len(q) /\ k = n + (k - n)
      BY <1>1, <3>1
    <3>3. r[k] = q[k - n]
      BY <1>1, <3>2
    <3>4. ASSUME NEW i \in (j + 1)..(k - n - 1) PROVE q[i].mutex # m
      <4>1. n + i \in (n + j + 1)..(k - 1) /\ i \in 1..Len(q)
        BY <1>1, <3>1, <3>2, <3>4
      <4> QED
        BY <1>1, <3>1, <4>1
    <3> QED
      BY <3>1, <3>2, <3>3, <3>4 DEF Closes
  <2> QED
    BY <2>1, <2>2
<1>5. ASSUME NEW j \in 0..n, NEW m \in Mutex
      PROVE  Closes(r, j, m) <=> Closes(p, j, m)
  <2>1. ASSUME Closes(p, j, m) PROVE Closes(r, j, m)
    <3>1. PICK k \in (j + 1)..n :
            /\ p[k].op = "unlock" /\ p[k].mutex = m
            /\ \A i \in (j + 1)..(k - 1) : p[i].mutex # m
      BY <2>1 DEF Closes, n
    <3>2. k \in (j + 1)..Len(r) /\ r[k] = p[k]
      BY <1>1, <3>1
    <3>3. \A i \in (j + 1)..(k - 1) : r[i] = p[i]
      BY <1>1, <3>1
    <3> QED
      BY <3>1, <3>2, <3>3 DEF Closes
  <2>2. ASSUME Closes(r, j, m) PROVE Closes(p, j, m)
    <3>1. PICK k \in (j + 1)..Len(r) :
            /\ r[k].op = "unlock" /\ r[k].mutex = m
            /\ \A i \in (j + 1)..(k - 1) : r[i].mutex # m
      BY <2>2 DEF Closes
    <3>2. CASE k <= n
      <4>1. k \in (j + 1)..n /\ r[k] = p[k]
        BY <1>1, <3>1, <3>2
      <4>2. \A i \in (j + 1)..(k - 1) : r[i] = p[i]
        BY <1>1, <4>1
      <4> QED
        BY <3>1, <4>1, <4>2 DEF Closes, n
    <3>3. CASE k > n
      <4>1. k \in (n + 1)..Len(r) /\ \A i \in (n + 1)..(k - 1) : r[i].mutex # m
        BY <1>1, <3>1, <3>3
      <4>2. Closes(r, n + 0, m)
        BY <1>1, <3>1, <4>1 DEF Closes
      <4>3. Closes(q, 0, m)
        BY <1>1, <1>4, <4>2
      <4> QED
        BY <4>3 DEF Whole
    <3> QED
      BY <1>1, <3>1, <3>2, <3>3
  <2> QED
    BY <2>1, <2>2
<1>6. Alternates(r)
  <2> SUFFICES ASSUME NEW i \in 1..Len(r)
               PROVE  r[i].op = "lock" <=> Closes(r, i, r[i].mutex)
    BY DEF Alternates
  <2>1. CASE i <= n
    <3>1. i \in 1..n /\ i \in 0..n /\ r[i] = p[i] /\ p[i].mutex \in Mutex
      BY <1>1, <1>2, <2>1 DEF Op
    <3>2. p[i].op = "lock" <=> Closes(p, i, p[i].mutex)
      BY <3>1 DEF Whole, Tidy, Alternates, n
    <3> QED
      BY <3>1, <3>2, <1>5
  <2>2. CASE i > n
    <3>1. PICK j \in 1..Len(q) : i = n + j
      <4>1. i - n \in 1..Len(q) /\ i = n + (i - n)
        BY <1>1, <2>2
      <4> QED
        BY <4>1
    <3>2. r[i] = q[j] /\ j \in 0..Len(q)
      BY <1>1, <3>1
    <3>3. q[j].op = "lock" <=> Closes(q, j, q[j].mutex)
      BY <3>1 DEF Whole, Tidy, Alternates
    <3> QED
      BY <3>1, <3>2, <3>3, <1>4
  <2> QED
    BY <1>1, <2>1, <2>2
<1>7. Tight(r)
  <2> SUFFICES ASSUME NEW i \in 2..Len(r),
                      r[i].op = "unlock", r[i].mutex # "guardian"
               PROVE  r[i - 1].mutex = r[i].mutex
    BY DEF Tight
  <2>1. CASE i <= n
    <3>1. i \in 2..n /\ r[i] = p[i] /\ r[i - 1] = p[i - 1]
      BY <1>1, <2>1
    <3> QED
      BY <3>1 DEF Whole, Tidy, Tight, n
  <2>2. CASE i > n
    <3>1. PICK j \in 1..Len(q) : i = n + j
      <4>1. i - n \in 1..Len(q) /\ i = n + (i - n)
        BY <1>1, <2>2
      <4> QED
        BY <4>1
    <3>2. r[i] = q[j]
      BY <1>1, <3>1
    <3>3. j # 1
      <4>1. q # <<>>
        BY <1>1, <3>1, EmptySeq
      <4> QED
        BY <3>2, <4>1, WholeBegins
    <3>4. j \in 2..Len(q) /\ j - 1 \in 1..Len(q) /\ i - 1 = n + (j - 1)
      BY <1>1, <3>1, <3>3
    <3>5. r[i - 1] = q[j - 1]
      BY <1>1, <3>4
    <3> QED
      BY <3>2, <3>4, <3>5 DEF Whole, Tidy, Tight
  <2> QED
    BY <1>1, <2>1, <2>2
<1>8. \A m \in Mutex : ~Closes(r, 0, m)
  BY <1>1, <1>5 DEF Whole
<1>9. Whole(r)
  BY <1>1, <1>6, <1>7, <1>8 DEF Whole, Tidy
<1> QED
  BY <1>9 DEF r

\* A whole path under the guardian, which it does not itself lock; and under
\* any mutex, one that does nothing.
LEMMA WholeHolding ==
    ASSUME NEW m \in Mutex, NEW body, Whole(body),
           \A i \in 1..Len(body) : body[i].mutex # m,
           m = "guardian" \/ body = <<>>
    PROVE  Whole(Holding(m, body))
<1> DEFINE n == Len(body)
           r == Holding(m, body)
<1>1. PICK a, z : /\ a = [op |-> "lock", mutex |-> m]
                  /\ z = [op |-> "unlock", mutex |-> m]
  OBVIOUS
<1>2. a \in Op /\ z \in Op /\ a.op = "lock" /\ z.op = "unlock"
      /\ a.mutex = m /\ z.mutex = m
  BY <1>1 DEF Op
<1>3. r = (<<a>> \o body) \o <<z>>
  BY <1>1 DEF Holding, Lock, Unlock
<1>4. /\ body \in Seq(Op) /\ n \in Nat
      /\ <<a>> \in Seq(Op) /\ <<z>> \in Seq(Op)
      /\ Len(<<a>>) = 1 /\ Len(<<z>>) = 1
  BY <1>2, LenProperties DEF Whole, Tidy
<1>5. PICK s : s = <<a>> \o body
  OBVIOUS
<1>6. /\ s \in Seq(Op) /\ Len(s) = n + 1 /\ s[1] = a
      /\ \A i \in 1..n : s[i + 1] = body[i]
  BY <1>4, <1>5, ConcatProperties
<1>7. /\ r \in Seq(Op) /\ Len(r) = n + 2
      /\ r[1] = a /\ r[n + 2] = z
      /\ \A i \in 1..n : r[i + 1] = body[i]
  <2>1. /\ r \in Seq(Op) /\ Len(r) = n + 2
        /\ \A i \in 1..(n + 2) : r[i] = IF i <= n + 1 THEN s[i]
                                        ELSE <<z>>[i - (n + 1)]
    BY <1>3, <1>4, <1>5, <1>6, ConcatProperties
  <2> HIDE DEF n, r
  <2>2. r[1] = a /\ \A i \in 1..n : r[i + 1] = body[i]
    BY <1>4, <1>6, <2>1
  <2>3. r[n + 2] = z
    BY <1>4, <2>1
  <2> QED
    BY <2>1, <2>2, <2>3
<1>8. \A i \in 1..n : body[i] \in Op
  BY <1>4, ElementOfSeq
<1>9. n = 0 \/ m = "guardian"
  BY EmptySeq
<1> HIDE DEF n, r
<1>10. ASSUME NEW j \in 0..n, NEW mm \in Mutex, mm # m
       PROVE  Closes(r, j + 1, mm) <=> Closes(body, j, mm)
  <2>1. ASSUME Closes(body, j, mm) PROVE Closes(r, j + 1, mm)
    <3>1. PICK k \in (j + 1)..n :
            /\ body[k].op = "unlock" /\ body[k].mutex = mm
            /\ \A i \in (j + 1)..(k - 1) : body[i].mutex # mm
      BY <2>1 DEF Closes, n
    <3>2. PICK e : e = k + 1
      OBVIOUS
    <3>3. e \in (j + 1 + 1)..Len(r) /\ r[e] = body[k]
      BY <1>4, <1>7, <3>1, <3>2
    <3>4. ASSUME NEW i \in (j + 1 + 1)..(e - 1) PROVE r[i].mutex # mm
      <4>1. i - 1 \in (j + 1)..(k - 1) /\ i - 1 \in 1..n /\ i = (i - 1) + 1
        BY <1>4, <3>1, <3>2, <3>4
      <4> QED
        BY <1>7, <3>1, <4>1
    <3> QED
      BY <3>1, <3>3, <3>4 DEF Closes
  <2>2. ASSUME Closes(r, j + 1, mm) PROVE Closes(body, j, mm)
    <3>1. PICK k \in (j + 1 + 1)..Len(r) :
            /\ r[k].op = "unlock" /\ r[k].mutex = mm
            /\ \A i \in (j + 1 + 1)..(k - 1) : r[i].mutex # mm
      BY <2>2 DEF Closes
    <3>2. k # n + 2
      BY <1>2, <1>7, <1>10, <3>1
    <3>3. PICK e : e = k - 1
      OBVIOUS
    <3>4. e \in (j + 1)..n /\ e \in 1..n /\ k = e + 1
      BY <1>4, <1>7, <3>1, <3>2, <3>3
    <3>5. r[k] = body[e]
      BY <1>7, <3>4
    <3>6. ASSUME NEW i \in (j + 1)..(e - 1) PROVE body[i].mutex # mm
      <4>1. i + 1 \in (j + 1 + 1)..(k - 1) /\ i \in 1..n
        BY <1>4, <3>1, <3>4, <3>6
      <4> QED
        BY <1>7, <3>1, <4>1
    <3> QED
      BY <3>1, <3>4, <3>5, <3>6 DEF Closes, n
  <2> QED
    BY <2>1, <2>2
<1>11. Closes(r, 1, m)
  <2>1. PICK e : e = n + 2
    OBVIOUS
  <2>2. ASSUME NEW i \in (1 + 1)..(e - 1) PROVE r[i].mutex # m
    <3>1. i - 1 \in 1..n /\ i = (i - 1) + 1
      BY <1>4, <2>1, <2>2
    <3>2. r[i] = body[i - 1]
      BY <1>7, <3>1
    <3> QED
      BY <3>1, <3>2 DEF n
  <2>3. e \in (1 + 1)..Len(r) /\ r[e].op = "unlock" /\ r[e].mutex = m
    BY <1>2, <1>4, <1>7, <2>1
  <2> QED
    BY <2>2, <2>3 DEF Closes
<1>12. ~Closes(r, n + 2, m) /\ ~Closes(r, 0, m)
  <2>1. ~Closes(r, n + 2, m)
    BY <1>4, <1>7 DEF Closes
  <2>2. ~Closes(r, 0, m)
    BY <1>2, <1>7 DEF Closes
  <2> QED
    BY <2>1, <2>2
<1>13. Alternates(r)
  <2> SUFFICES ASSUME NEW i \in 1..Len(r)
               PROVE  r[i].op = "lock" <=> Closes(r, i, r[i].mutex)
    BY DEF Alternates
  <2>1. CASE i = 1
    BY <1>2, <1>7, <1>11, <2>1
  <2>2. CASE i = n + 2
    BY <1>2, <1>7, <1>12, <2>2
  <2>3. CASE i # 1 /\ i # n + 2
    <3>1. PICK j \in 1..n : i = j + 1
      <4>1. i - 1 \in 1..n /\ i = (i - 1) + 1
        BY <1>4, <1>7, <2>3
      <4> QED
        BY <4>1
    <3>2. r[i] = body[j] /\ j \in 0..n
      BY <1>4, <1>7, <3>1
    <3>3. body[j].mutex \in Mutex /\ body[j].mutex # m
      BY <1>8, <3>1 DEF Op, n
    <3>4. body[j].op = "lock" <=> Closes(body, j, body[j].mutex)
      BY <3>1 DEF Whole, Tidy, Alternates, n
    <3> QED
      BY <1>10, <3>1, <3>2, <3>3, <3>4
  <2> QED
    BY <2>1, <2>2, <2>3
<1>14. Tight(r)
  <2> SUFFICES ASSUME NEW i \in 2..Len(r),
                      r[i].op = "unlock", r[i].mutex # "guardian"
               PROVE  r[i - 1].mutex = r[i].mutex
    BY DEF Tight
  <2>1. CASE i = n + 2
    <3>1. m # "guardian"
      BY <1>2, <1>7, <2>1
    <3>2. n = 0
      BY <1>9, <3>1
    <3> QED
      BY <1>2, <1>7, <2>1, <3>2
  <2>2. CASE i # n + 2
    <3>1. PICK j \in 1..n : i = j + 1
      <4>1. i - 1 \in 1..n /\ i = (i - 1) + 1
        BY <1>4, <1>7, <2>2
      <4> QED
        BY <4>1
    <3>2. r[i] = body[j]
      BY <1>7, <3>1
    <3>3. j # 1
      <4>1. body # <<>>
        BY <3>1, EmptySeq DEF n
      <4> QED
        BY <3>2, <4>1, WholeBegins
    <3>4. j \in 2..n /\ j - 1 \in 1..n /\ i - 1 = (j - 1) + 1
      BY <1>4, <3>1, <3>3
    <3>5. r[i - 1] = body[j - 1]
      BY <1>7, <3>4
    <3> QED
      BY <3>2, <3>4, <3>5 DEF Whole, Tidy, Tight, n
  <2> QED
    BY <2>1, <2>2
<1>15. ASSUME NEW mm \in Mutex PROVE ~Closes(r, 0, mm)
  <2>1. CASE mm = m
    BY <1>12, <2>1
  <2>2. CASE mm # m
    <3> SUFFICES ASSUME Closes(r, 0, mm) PROVE FALSE
      OBVIOUS
    <3>1. PICK k \in 1..Len(r) :
            /\ r[k].op = "unlock" /\ r[k].mutex = mm
            /\ \A i \in 1..(k - 1) : r[i].mutex # mm
      BY DEF Closes
    <3>2. k # 1
      BY <1>2, <1>7, <2>2, <3>1
    <3>3. Closes(r, 0 + 1, mm)
      <4>1. k \in (0 + 1 + 1)..Len(r)
        BY <1>4, <1>7, <3>1, <3>2
      <4>2. \A i \in (0 + 1 + 1)..(k - 1) : r[i].mutex # mm
        BY <1>4, <1>7, <3>1
      <4> QED
        BY <3>1, <4>1, <4>2 DEF Closes
    <3>4. 0 \in 0..n
      BY <1>4
    <3>5. Closes(body, 0, mm)
      BY <1>10, <2>2, <3>3, <3>4
    <3> QED
      BY <3>5 DEF Whole
  <2> QED
    BY <2>1, <2>2
<1>16. Whole(r)
  BY <1>7, <1>13, <1>14, <1>15 DEF Whole, Tidy
<1> QED
  BY <1>16 DEF r

LEMMA WholeEmpty == Whole(<<>>)
<1>1. <<>> \in Seq(Op) /\ Len(<<>>) = 0
  BY EmptySeq
<1> QED
  BY <1>1 DEF Whole, Tidy, Alternates, Tight, Closes

LEMMA WholeUse ==
    ASSUME NEW m \in Mutex
    PROVE  Whole(Use(m))
<1>1. \A i \in 1..Len(<<>>) : <<>>[i].mutex # m
  BY EmptySeq
<1> QED
  BY <1>1, WholeEmpty, WholeHolding DEF Use

\* A path that leaves the guardian alone may run under it.
Unguarded(p) == \A i \in 1..Len(p) : p[i].mutex # "guardian"

LEMMA UnguardedConcat ==
    ASSUME NEW p \in Seq(Op), NEW q \in Seq(Op), Unguarded(p), Unguarded(q)
    PROVE  Unguarded(p \o q)
<1>1. /\ Len(p) \in Nat /\ Len(q) \in Nat
      /\ Len(p \o q) = Len(p) + Len(q)
      /\ \A i \in 1..(Len(p) + Len(q)) :
            (p \o q)[i] = IF i <= Len(p) THEN p[i] ELSE q[i - Len(p)]
  BY ConcatProperties, LenProperties
<1>2. ASSUME NEW i \in 1..Len(p \o q) PROVE (p \o q)[i].mutex # "guardian"
  <2>1. CASE i <= Len(p)
    BY <1>1, <2>1 DEF Unguarded
  <2>2. CASE i > Len(p)
    <3>1. i - Len(p) \in 1..Len(q) /\ (p \o q)[i] = q[i - Len(p)]
      BY <1>1, <2>2
    <3> QED
      BY <3>1 DEF Unguarded
  <2> QED
    BY <1>1, <2>1, <2>2
<1> QED
  BY <1>2 DEF Unguarded

LEMMA UnguardedUse ==
    ASSUME NEW m \in Mutex, m # "guardian"
    PROVE  Unguarded(Use(m))
<1>1. PICK a, z : /\ a = [op |-> "lock", mutex |-> m]
                  /\ z = [op |-> "unlock", mutex |-> m]
  OBVIOUS
<1>2. a \in Op /\ z \in Op
  BY <1>1 DEF Op
<1>3. Use(m) = (<<a>> \o <<>>) \o <<z>>
  BY <1>1 DEF Use, Holding, Lock, Unlock
<1>4. <<a>> \o <<>> = <<a>>
  BY <1>2, ConcatEmptySeq
<1>5. /\ <<a>> \in Seq(Op) /\ <<z>> \in Seq(Op)
      /\ Unguarded(<<a>>) /\ Unguarded(<<z>>)
  BY <1>1, <1>2 DEF Unguarded
<1> QED
  BY <1>3, <1>4, <1>5, UnguardedConcat

\* register_spend and reset_guardian, which save a snapshot and write the log
\* with the guardian in hand.
LEMMA WholeGuardianWrite == \A p \in GuardianWrite : Whole(p)
<1> DEFINE s == Use("sqlite")
           l == Use("logs")
<1>1. Whole(s) /\ Whole(l) /\ Unguarded(s) /\ Unguarded(l)
  BY WholeUse, UnguardedUse DEF Mutex
<1> HIDE DEF s, l
<1>2. Whole(l \o s) /\ Unguarded(l \o s)
  BY <1>1, WholeConcat, UnguardedConcat DEF Whole, Tidy
<1>3. Whole(s \o (l \o s)) /\ Unguarded(s \o (l \o s))
  BY <1>1, <1>2, WholeConcat, UnguardedConcat DEF Whole, Tidy
<1>4. Whole(Holding("guardian", s \o (l \o s)))
  BY <1>3, WholeHolding DEF Unguarded, Mutex
<1> QED
  BY <1>4 DEF GuardianWrite, PersistGuardianSnapshot, LogAction, s, l

LEMMA SoundIsWhole == \A p \in SoundRequests : Whole(p)
<1> DEFINE s == Use("sqlite")
           l == Use("logs")
           h == Use("hub")
           g == Use("guardian")
<1>1. Whole(s) /\ Whole(l) /\ Whole(h) /\ Whole(g)
  BY WholeUse DEF Mutex
<1>2. PICK log : log = LogAction
  OBVIOUS
<1>3. PICK report : report = Report
  OBVIOUS
<1>4. Whole(log) /\ log = l \o s
  BY <1>1, <1>2, WholeConcat DEF LogAction
<1>5. Whole(report)
  BY <1>1, <1>2, <1>3, <1>4, WholeConcat DEF Report, AppendTimeline
<1> HIDE DEF s, l, h, g
<1>6. \A p \in StoreAndLog : Whole(p)
  BY <1>1, <1>2, <1>4, WholeConcat DEF StoreAndLog, SqliteOnly, s
<1>7. \A p \in SqliteOnly : Whole(p)
  BY <1>1 DEF SqliteOnly, s
<1>8. \A p \in GuardianRead \cup BridgesHealth \cup ObservabilityActions : Whole(p)
  BY <1>1 DEF GuardianRead, BridgesHealth, ObservabilityActions, g, h, l
<1>9. \A p \in PermissionCheck : Whole(p)
  BY <1>1, <1>2, <1>4, WholeConcat
  DEF PermissionCheck, AppendApprovalEvent, s
<1>10. \A p \in QueueEnqueue : Whole(p)
  <2>1. Whole(s \o s)
    BY <1>1, WholeConcat
  <2>2. Whole((s \o s) \o log)
    BY <1>4, <2>1, WholeConcat
  <2>3. Whole(((s \o s) \o log) \o s)
    BY <1>1, <2>2, WholeConcat
  <2> QED
    BY <1>2, <1>7, <2>3 DEF QueueEnqueue, AppendTimeline, s
<1>11. \A p \in Webhook : Whole(p)
  <2>1. Whole(h \o s)
    BY <1>1, WholeConcat
  <2>2. Whole((h \o s) \o s)
    BY <1>1, <2>1, WholeConcat
  <2>3. Whole(((h \o s) \o s) \o log)
    BY <1>4, <2>2, WholeConcat
  <2> QED
    BY <1>1, <1>2, <2>3 DEF Webhook, AppendTimeline, s, h
<1>12. \A p \in WorkerCycle : Whole(p)
  <2>1. Whole(s \o s)
    BY <1>1, WholeConcat
  <2>2. Whole((s \o s) \o s)
    BY <1>1, <2>1, WholeConcat
  <2>3. Whole(s \o report)
    BY <1>1, <1>5, WholeConcat
  <2>4. Whole(h \o s)
    BY <1>1, WholeConcat
  <2>5. Whole((h \o s) \o report)
    BY <1>5, <2>4, WholeConcat
  <2>6. \A body \in {s, s \o report, (h \o s) \o report} :
           Whole(((s \o s) \o s) \o body)
    BY <1>1, <2>2, <2>3, <2>5, WholeConcat
  <2> QED
    BY <1>3, <2>1, <2>6 DEF WorkerCycle, AppendTimeline, s, h
<1>13. \A p \in WorkerTick : Whole(p)
  BY <1>1, <1>12, WholeConcat DEF WorkerTick, s
<1> QED
  BY <1>6, <1>7, <1>8, <1>9, <1>10, <1>11, <1>12, <1>13, WholeGuardianWrite
  DEF SoundRequests, QueueControl, Memory, ApprovalDecision

-----------------------------------------------------------------------------
(* The inductive invariant: a thread holds exactly the mutexes whose next  *)
(* operation on its path is to unlock them.                                *)

LockInv ==
    /\ owner \in [Mutex -> Threads \cup {None}]
    /\ path \in [Threads -> Seq(Op)]
    /\ \A t \in Threads :
          /\ Tidy(path[t])
          /\ \A m \in Mutex : Holds(t, m) <=> Closes(path[t], 0, m)

LEMMA LockInit == Init => LockInv
<1> SUFFICES ASSUME Init PROVE LockInv
  OBVIOUS
<1>1. <<>> \in Seq(Op) /\ Whole(<<>>)
  BY WholeEmpty DEF Whole, Tidy
<1> QED
  BY <1>1, NoneAssumption DEF Init, LockInv, Holds, Whole

\* One operation done, the rest of the path is as tidy as the whole was.
LEMMA TidyTail ==
    ASSUME NEW p, Tidy(p), p # <<>>
    PROVE  /\ Head(p) = p[1] /\ p[1] \in Op
           /\ Tidy(Tail(p))
           /\ Closes(Tail(p), 0, p[1].mutex) <=> p[1].op = "lock"
           /\ \A m \in Mutex : m # p[1].mutex =>
                 (Closes(Tail(p), 0, m) <=> Closes(p, 0, m))
           /\ p[1].op = "unlock" => Closes(p, 0, p[1].mutex)
           /\ p[1].op = "lock" => ~Closes(p, 0, p[1].mutex)
<1> DEFINE q == Tail(p)
<1>1. p \in Seq(Op) /\ Len(p) \in Nat \ {0}
  BY EmptySeq DEF Tidy
<1>2. /\ q \in Seq(Op) /\ Len(q) = Len(p) - 1
      /\ \A i \in 1..Len(q) : q[i] = p[i + 1]
      /\ Head(p) = p[1]
  BY <1>1, HeadTailProperties
<1>3. p[1] \in Op
  BY <1>1, ElementOfSeq
<1> HIDE DEF q
<1>4. ASSUME NEW j \in 0..Len(q), NEW m
      PROVE  Closes(q, j, m) <=> Closes(p, j + 1, m)
  <2>1. ASSUME Closes(q, j, m) PROVE Closes(p, j + 1, m)
    <3>1. PICK k \in (j + 1)..Len(q) :
            /\ q[k].op = "unlock" /\ q[k].mutex = m
            /\ \A i \in (j + 1)..(k - 1) : q[i].mutex # m
      BY <2>1 DEF Closes
    <3>2. PICK e : e = k + 1
      OBVIOUS
    <3>3. e \in (j + 1 + 1)..Len(p) /\ p[e] = q[k]
      BY <1>1, <1>2, <3>1, <3>2
    <3>4. ASSUME NEW i \in (j + 1 + 1)..(e - 1) PROVE p[i].mutex # m
      <4>1. i - 1 \in (j + 1)..(k - 1) /\ i - 1 \in 1..Len(q) /\ i = (i - 1) + 1
        BY <1>1, <1>2, <3>1, <3>2, <3>4
      <4> QED
        BY <1>2, <3>1, <4>1
    <3> QED
      BY <3>1, <3>3, <3>4 DEF Closes
  <2>2. ASSUME Closes(p, j + 1, m) PROVE Closes(q, j, m)
    <3>1. PICK k \in (j + 1 + 1)..Len(p) :
            /\ p[k].op = "unlock" /\ p[k].mutex = m
            /\ \A i \in (j + 1 + 1)..(k - 1) : p[i].mutex # m
      BY <2>2 DEF Closes
    <3>2. PICK e : e = k - 1
      OBVIOUS
    <3>3. e \in (j + 1)..Len(q) /\ e \in 1..Len(q) /\ k = e + 1
      BY <1>1, <1>2, <3>1, <3>2
    <3>4. q[e] = p[k]
      BY <1>2, <3>3
    <3>5. ASSUME NEW i \in (j + 1)..(e - 1) PROVE q[i].mutex # m
      <4>1. i + 1 \in (j + 1 + 1)..(k - 1) /\ i \in 1..Len(q)
        BY <1>1, <1>2, <3>1, <3>3, <3>5
      <4> QED
        BY <1>2, <3>1, <4>1
    <3> QED
      BY <3>1, <3>3, <3>4, <3>5 DEF Closes
  <2> QED
    BY <2>1, <2>2
<1>5. Tidy(q)
  <2>1. Alternates(q)
    <3> SUFFICES ASSUME NEW i \in 1..Len(q)
                 PROVE  q[i].op = "lock" <=> Closes(q, i, q[i].mutex)
      BY DEF Alternates
    <3>1. i + 1 \in 1..Len(p) /\ q[i] = p[i + 1] /\ i \in 0..Len(q)
      BY <1>1, <1>2
    <3>2. p[i + 1].op = "lock" <=> Closes(p, i + 1, p[i + 1].mutex)
      BY <3>1 DEF Tidy, Alternates
    <3> QED
      BY <1>4, <3>1, <3>2
  <2>2. Tight(q)
    <3> SUFFICES ASSUME NEW i \in 2..Len(q),
                        q[i].op = "unlock", q[i].mutex # "guardian"
                 PROVE  q[i - 1].mutex = q[i].mutex
      BY DEF Tight
    <3>1. /\ i + 1 \in 2..Len(p) /\ q[i] = p[i + 1]
          /\ i - 1 \in 1..Len(q) /\ (i - 1) + 1 = (i + 1) - 1
      BY <1>1, <1>2
    <3>2. q[i - 1] = p[(i + 1) - 1]
      BY <1>2, <3>1
    <3> QED
      BY <3>1, <3>2 DEF Tidy, Tight
  <2> QED
    BY <1>2, <2>1, <2>2 DEF Tidy
<1>6. Closes(q, 0, p[1].mutex) <=> p[1].op = "lock"
  <2>1. p[1].op = "lock" <=> Closes(p, 1, p[1].mutex)
    BY <1>1 DEF Tidy, Alternates
  <2>2. 0 \in 0..Len(q) /\ 0 + 1 = 1
    BY <1>1, <1>2
  <2> QED
    BY <1>4, <2>1, <2>2
<1>7. ASSUME NEW m \in Mutex, m # p[1].mutex
      PROVE  Closes(q, 0, m) <=> Closes(p, 0, m)
  <2>1. 0 \in 0..Len(q) /\ 0 + 1 = 1
    BY <1>1, <1>2
  <2>2. ASSUME Closes(p, 0, m) PROVE Closes(p, 1, m)
    <3>1. PICK k \in 1..Len(p) :
            /\ p[k].op = "unlock" /\ p[k].mutex = m
            /\ \A i \in 1..(k - 1) : p[i].mutex # m
      BY <2>2 DEF Closes
    <3>2. k \in (1 + 1)..Len(p) /\ \A i \in (1 + 1)..(k - 1) : p[i].mutex # m
      BY <1>1, <1>7, <3>1
    <3> QED
      BY <3>1, <3>2 DEF Closes
  <2>3. ASSUME Closes(p, 1, m) PROVE Closes(p, 0, m)
    <3>1. PICK k \in (1 + 1)..Len(p) :
            /\ p[k].op = "unlock" /\ p[k].mutex = m
            /\ \A i \in (1 + 1)..(k - 1) : p[i].mutex # m
      BY <2>3 DEF Closes
    <3>2. k \in (0 + 1)..Len(p)
      BY <1>1, <3>1
    <3>3. ASSUME NEW i \in (0 + 1)..(k - 1) PROVE p[i].mutex # m
      <4>1. i = 1 \/ i \in (1 + 1)..(k - 1)
        BY <3>2, <3>3
      <4> QED
        BY <1>7, <3>1, <4>1
    <3> QED
      BY <3>1, <3>2, <3>3 DEF Closes
  <2> QED
    BY <1>4, <2>1, <2>2, <2>3
<1>8. p[1].op = "unlock" => Closes(p, 0, p[1].mutex)
  <2>1. 1 \in (0 + 1)..Len(p) /\ \A i \in (0 + 1)..(1 - 1) : FALSE
    BY <1>1
  <2> QED
    BY <2>1 DEF Closes
<1>9. p[1].op = "lock" => ~Closes(p, 0, p[1].mutex)
  BY <1>1 DEF Closes
<1> QED
  BY <1>2, <1>3, <1>5, <1>6, <1>7, <1>8, <1>9 DEF q

LEMMA LockStep ==
    ASSUME Requests \subseteq SoundRequests, LockInv, [Next]_vars
    PROVE  LockInv'
<1>1. ASSUME NEW t \in Threads, Begin(t) PROVE LockInv'
  <2>1. PICK r \in Requests : path' = [path EXCEPT ![t] = r]
    BY <1>1 DEF Begin
  <2>2. Whole(r) /\ r \in Seq(Op)
    BY SoundIsWhole DEF Whole, Tidy
  <2>3. path[t] = <<>> /\ owner' = owner
    BY <1>1 DEF Begin
  <2>4. \A m \in Mutex : ~Holds(t, m)
    <3>1. \A m \in Mutex : ~Closes(<<>>, 0, m)
      BY WholeEmpty DEF Whole
    <3> QED
      BY <2>3, <3>1 DEF LockInv
  <2> QED
    BY <2>1, <2>2, <2>3, <2>4 DEF LockInv, Holds, Whole
<1>2. ASSUME NEW t \in Threads, Acquire(t) \/ Release(t) PROVE LockInv'
  <2>1. PICK p : p = path[t]
    OBVIOUS
  <2>2. Tidy(p) /\ p # <<>>
    BY <1>2, <2>1 DEF Acquire, Release, At, LockInv
  <2>3. PICK q : q = Tail(p)
    OBVIOUS
  <2>4. PICK m : m = p[1].mutex
    OBVIOUS
  <2>5. /\ Head(p) = p[1] /\ m \in Mutex
        /\ Tidy(q) /\ q \in Seq(Op)
        /\ Closes(q, 0, m) <=> p[1].op = "lock"
        /\ \A mm \in Mutex : mm # m => (Closes(q, 0, mm) <=> Closes(p, 0, mm))
        /\ p[1].op = "unlock" => Closes(p, 0, m)
        /\ p[1].op = "lock" => ~Closes(p, 0, m)
    BY <2>2, <2>3, <2>4, TidyTail DEF Op, Tidy
  <2>6. path' = [path EXCEPT ![t] = q]
    BY <1>2, <2>1, <2>3 DEF Acquire, Release
  <2>7. /\ path'[t] = q /\ \A u \in Threads : u # t => path'[u] = path[u]
        /\ path' \in [Threads -> Seq(Op)]
    BY <2>5, <2>6 DEF LockInv
  <2>8. CASE Acquire(t)
    <3>1. /\ p[1].op = "lock" /\ owner[m] = None
          /\ owner' = [owner EXCEPT ![m] = t]
      BY <2>1, <2>4, <2>5, <2>8 DEF Acquire, At
    <3>2. /\ owner' \in [Mutex -> Threads \cup {None}] /\ owner'[m] = t
          /\ \A mm \in Mutex : mm # m => owner'[mm] = owner[mm]
      BY <2>5, <3>1 DEF LockInv
    <3>3. ASSUME NEW u \in Threads, NEW mm \in Mutex
          PROVE  Holds(u, mm)' <=> Closes(path'[u], 0, mm)
      <4>1. Holds(u, mm) <=> Closes(path[u], 0, mm)
        BY DEF LockInv
      <4>2. CASE mm # m
        <5>1. Holds(u, mm)' <=> Holds(u, mm)
          BY <3>2, <4>2 DEF Holds
        <5>2. Closes(path'[u], 0, mm) <=> Closes(path[u], 0, mm)
          BY <2>1, <2>5, <2>7, <4>2
        <5> QED
          BY <4>1, <5>1, <5>2
      <4>3. CASE mm = m /\ u = t
        BY <2>5, <2>7, <3>1, <3>2, <4>3, NoneAssumption DEF Holds
      <4>4. CASE mm = m /\ u # t
        BY <2>7, <3>1, <3>2, <4>1, <4>4, NoneAssumption DEF Holds
      <4> QED
        BY <4>2, <4>3, <4>4
    <3> QED
      BY <2>5, <2>7, <3>2, <3>3 DEF LockInv
  <2>9. CASE Release(t)
    <3>1. p[1].op = "unlock" /\ owner' = [owner EXCEPT ![m] = None]
      BY <2>1, <2>4, <2>5, <2>9 DEF Release, At
    <3>2. /\ owner' \in [Mutex -> Threads \cup {None}] /\ owner'[m] = None
          /\ \A mm \in Mutex : mm # m => owner'[mm] = owner[mm]
      BY <2>5, <3>1 DEF LockInv
    <3>3. owner[m] = t
      BY <2>1, <2>5, <3>1 DEF LockInv, Holds
    <3>4. ASSUME NEW u \in Threads, NEW mm \in Mutex
          PROVE  Holds(u, mm)' <=> Closes(path'[u], 0, mm)
      <4>1. Holds(u, mm) <=> Closes(path[u], 0, mm)
        BY DEF LockInv
      <4>2. CASE mm # m
        <5>1. Holds(u, mm)' <=> Holds(u, mm)
          BY <3>2, <4>2 DEF Holds
        <5>2. Closes(path'[u], 0, mm) <=> Closes(path[u], 0, mm)
          BY <2>1, <2>5, <2>7, <4>2
        <5> QED
          BY <4>1, <5>1, <5>2
      <4>3. CASE mm = m /\ u = t
        BY <2>5, <2>7, <3>1, <3>2, <4>3, NoneAssumption DEF Holds
      <4>4. CASE mm = m /\ u # t
        BY <2>7, <3>1, <3>2, <3>3, <4>1, <4>4, NoneAssumption DEF Holds
      <4> QED
        BY <4>2, <4>3, <4>4
    <3> QED
      BY <2>5, <2>7, <3>2, <3>4 DEF LockInv
  <2> QED
    BY <1>2, <2>8, <2>9
<1>3. CASE UNCHANGED vars
  BY <1>3 DEF vars, LockInv, Holds
<1> QED
  BY <1>1, <1>2, <1>3 DEF Next

LEMMA LockInvariant ==
    ASSUME Requests \subseteq SoundRequests
    PROVE  Spec => []LockInv
<1>1. LockInv /\ [Next]_vars => LockInv'
  BY LockStep
<1> QED
  BY LockInit, <1>1, PTL DEF Spec

\* A thread that is about to lock holds the guardian at most, and does not
\* ask for it again.
LEMMA InvOrder == LockInv => LockOrder
<1> SUFFICES ASSUME LockInv, NEW t \in Threads, At(t, "lock"),
                    NEW m \in Mutex, Holds(t, m)
             PROVE  m = "guardian" /\ Head(path[t]).mutex # "guardian"
  BY DEF LockOrder
<1>1. PICK p : p = path[t]
  OBVIOUS
<1>2. Tidy(p) /\ p # <<>> /\ Closes(p, 0, m)
  BY <1>1 DEF LockInv, At
<1>3. Head(p) = p[1] /\ p[1].op = "lock" /\ p[1].mutex # m
  BY <1>1, <1>2, TidyTail DEF At
<1>4. PICK k \in 1..Len(p) :
         /\ p[k].op = "unlock" /\ p[k].mutex = m
         /\ \A i \in 1..(k - 1) : p[i].mutex # m
  BY <1>2 DEF Closes
<1>5. Len(p) \in Nat /\ k # 1
  BY <1>2, <1>3, <1>4, EmptySeq DEF Tidy
<1>6. k \in 2..Len(p) /\ k - 1 \in 1..(k - 1)
  BY <1>4, <1>5
<1>7. m = "guardian"
  BY <1>2, <1>4, <1>6 DEF Tidy, Tight
<1> QED
  BY <1>1, <1>3, <1>7

\* The order of the mutexes holds for any number of threads: the guardian
\* first, and nothing else is waited for while anything else is held.
THEOREM LockOrderHolds ==
    ASSUME Requests \subseteq SoundRequests
    PROVE  Spec => []LockOrder
  BY LockInvariant, InvOrder, PTL

-----------------------------------------------------------------------------
(* What the order is for.                                                  *)

\* A thread that holds a mutex has something left to do.
LEMMA HolderBusy ==
    ASSUME LockInv, NEW t \in Threads, NEW m \in Mutex, Holds(t, m)
    PROVE  At(t, "lock") \/ At(t, "unlock")
<1>1. Tidy(path[t]) /\ Closes(path[t], 0, m)
  BY DEF LockInv
<1>2. path[t] # <<>>
  <2>1. ~Closes(<<>>, 0, m)
    BY WholeEmpty DEF Whole
  <2> QED
    BY <1>1, <2>1
<1>3. Head(path[t]) \in Op
  BY <1>1, <1>2, TidyTail
<1> QED
  BY <1>2, <1>3 DEF At, Op

\* The handlers and the worker never wait for one another in a circle: whoever
\* waits for the guardian waits for one who waits for no guardian, and whoever
\* waits for another mutex waits for one who waits for nothing.
THEOREM NoCircularWaitHolds ==
    ASSUME Requests \subseteq SoundRequests
    PROVE  Spec => []NoCircularWait
<1>1. ASSUME LockInv, NEW t \in Threads, Waits(t)
      PROVE  \E u \in Threads : CanGo(u)
  <2>1. ASSUME NEW v \in Threads, Waits(v)
        PROVE  \E u \in Threads, m \in Mutex :
                  Holds(u, m) /\ m = Head(path[v]).mutex
    <3>1. Tidy(path[v]) /\ path[v] # <<>>
      BY <1>1, <2>1 DEF LockInv, Waits, At
    <3>2. Head(path[v]).mutex \in Mutex
      BY <3>1, TidyTail DEF Op
    <3> QED
      BY <1>1, <2>1, <3>2 DEF LockInv, Waits, Holds
  <2>2. ASSUME NEW v \in Threads, NEW m \in Mutex, m # "guardian", Holds(v, m)
        PROVE  CanGo(v)
    BY <1>1, <2>2, HolderBusy, InvOrder DEF LockOrder, CanGo
  <2>3. PICK u \in Threads, m \in Mutex : Holds(u, m) /\ m = Head(path[t]).mutex
    BY <1>1, <2>1
  <2>4. CASE ~Waits(u)
    BY <1>1, <2>3, <2>4, HolderBusy DEF Waits, CanGo
  <2>5. CASE Waits(u)
    <3>1. PICK v \in Threads, n \in Mutex :
             Holds(v, n) /\ n = Head(path[u]).mutex
      BY <2>1, <2>5
    <3>2. n # "guardian"
      BY <1>1, <2>3, <2>5, <3>1, InvOrder DEF LockOrder, Waits
    <3> QED
      BY <2>2, <3>1, <3>2
  <2> QED
    BY <2>4, <2>5
<1>2. LockInv => NoCircularWait
  BY <1>1 DEF NoCircularWait
<1> QED
  BY LockInvariant, <1>2, PTL
=============================================================================
