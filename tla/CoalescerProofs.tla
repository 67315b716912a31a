--------------------------- MODULE CoalescerProofs ---------------------------
(***************************************************************************)
(* The safety properties of Coalescer, and that it implements              *)
(* EmbeddingService, for any number of requests, all texts, modes and      *)
(* limits.  They follow from one inductive invariant, IInv.                *)
(***************************************************************************)
EXTENDS Coalescer, WellFoundedInduction, TLAPS

\* Two texts that get the same vector.
Alike(t, u) == DedupKey(t) = DedupKey(u)

Dispatches(d) == pc[d] \in {"slot", "call"}

\* Which of its local variables a request has set, by how far it has come.
CallOK(r) ==
    /\ text[r] = None <=> pc[r] = "idle"
    /\ answer[r] # None <=> pc[r] \in {"done", "raised"}
    /\ seen[r] # "off" => AtWork(r)
    /\ tries[r] # 0 => pc[r] \in {"slot", "call", "write", "await"}
    /\ pc[r] = "lookup" => Owner(r)

\* A joiner waits for a request with its own key.
JoinOK(r) ==
    /\ joined[r] # None <=> pc[r] = "join"
    /\ joined[r] # None => /\ text[joined[r]] # None /\ MyKey(r) # None
                           /\ MyKey(joined[r]) = MyKey(r)

\* What a member got is the vector of its key, and it is an owner or writes first.
FutOK(r) ==
    /\ fut[r] # None => /\ pc[r] = "write" \/ (pc[r] = "await" /\ Owner(r))
                        /\ fut[r] = Failed \/ Alike(fut[r], text[r])
    /\ pc[r] = "write" => fut[r] # None

\* Until the fan-out the dispatcher is in its batch and all others wait.
BatchOK(d) ==
    /\ \A m \in Members(d) : text[m] # None
    /\ Dispatches(d) => /\ d \in Members(d)
                        /\ \A m \in Members(d) : m = d \/ pc[m] = "await"
                        /\ \A m \in Members(d) : fut[m] = None

\* No request is in two batches that are still to be fanned out.
Apart == \A d, e \in Request : Dispatches(d) /\ Dispatches(e) /\ d # e =>
             Members(d) \cap Members(e) = {}

\* Only a batch that was never sent is open, and its tokens are counted.
OpenOK == open.batch # None => /\ pc[open.batch] = "slot" /\ tries[open.batch] = 0
                               /\ open.tokens = TokensOf(open.batch)

CacheOK == \A k \in Key : cache[k] # None => KeyOf[cache[k]] = k

RequestOK(r) == CallOK(r) /\ JoinOK(r) /\ FutOK(r)

IInv == /\ TypeOK /\ Apart /\ OpenOK /\ CacheOK
        /\ SingleFlight /\ DispatcherAtWork /\ BatchFits
        /\ \A r \in Request : RequestOK(r) /\ BatchOK(r)
----------------------------------------------------------------------------
\* A set of numbers that is not empty has a least element.
LEMMA Least ==
    ASSUME NEW S, S \subseteq Nat, S # {}
    PROVE  \E m \in S : \A v \in S : m <= v
<1>1. \E m \in S : \A v \in S : ~(<<v, m>> \in OpToRel(<, Nat))
  BY NatLessThanWellFounded, WFMin, Zenon
<1>2. \A m, v \in Nat : v < m => <<v, m>> \in OpToRel(<, Nat)
  BY DEF OpToRel
<1>3. \A m, v \in Nat : ~(v < m) => m <= v
  OBVIOUS
<1> QED BY <1>1, <1>2, <1>3, Zenon

\* Induction up to n, for a set instead of a predicate.
LEMMA Induct ==
    ASSUME NEW n \in Nat, NEW P, 0 \in P, \A i \in 0..n - 1 : i \in P => i + 1 \in P
    PROVE  \A i \in 0..n : i \in P
<1> DEFINE Bad == (0..n) \ P
<1>1. SUFFICES ASSUME Bad # {} PROVE FALSE OBVIOUS
<1>2. Bad \subseteq Nat OBVIOUS
<1>3. PICK m \in Bad : \A v \in Bad : m <= v
  <2> HIDE DEF Bad
  <2> QED BY <1>1, <1>2, Least, Zenon
<1>4. m - 1 \in 0..n - 1 /\ ~(m <= m - 1) /\ m - 1 + 1 = m OBVIOUS
<1>5. m - 1 \in P BY <1>3
<1> QED BY <1>5

\* f is the function of the partial sums of w up to n.
Adds(w, n, f) == /\ f \in [0..n -> Nat] /\ f[0] = 0
                 /\ \A i \in 0..n - 1 : f[i + 1] = f[i] + w[i + 1]

\* There is such a function for every w ...
LEMMA SumsExist == ASSUME NEW w \in Seq(Nat) PROVE \E f : Adds(w, Len(w), f)
<1> DEFINE P == {n \in 0..Len(w) : \E f : Adds(w, n, f)}
<1>1. 0 \in P
  <2> DEFINE g == [i \in 0..0 |-> 0]
  <2>1. Adds(w, 0, g) BY DEF Adds
  <2> HIDE DEF g
  <2>2. \E f : Adds(w, 0, f) BY <2>1, Zenon
  <2> QED BY <2>2
<1>2. ASSUME NEW n \in 0..Len(w) - 1, n \in P PROVE n + 1 \in P
  <2>1. PICK f : Adds(w, n, f) BY <1>2, Zenon
  <2> DEFINE g == [i \in 0..n + 1 |-> IF i = n + 1 THEN f[n] + w[n + 1] ELSE f[i]]
  <2>2. w[n + 1] \in Nat /\ n \in Nat OBVIOUS
  <2>3. f \in [0..n -> Nat] /\ f[0] = 0 /\ \A i \in 0..n - 1 : f[i + 1] = f[i] + w[i + 1]
    BY <2>1, Zenon DEF Adds
  <2>4. g \in [0..n + 1 -> Nat] /\ g[0] = 0 BY <2>2, <2>3
  <2>5. ASSUME NEW i \in 0..n PROVE g[i + 1] = g[i] + w[i + 1]
    BY <2>2, <2>3, SMTT(20)
  <2>6. 0..n + 1 - 1 = 0..n OBVIOUS
  <2> HIDE DEF g
  <2>7. Adds(w, n + 1, g) BY <2>4, <2>5, <2>6 DEF Adds
  <2>8. \E h : Adds(w, n + 1, h) BY <2>7, Zenon
  <2> QED BY <2>8
<1>3. Len(w) \in 0..Len(w) /\ Len(w) \in Nat OBVIOUS
<1>4. Len(w) \in P
  <2> HIDE DEF P
  <2> QED BY <1>1, <1>2, <1>3, Induct, Zenon
<1> QED BY <1>4, Zenon

\* ... and Sums is one.
LEMMA SumsAdd == ASSUME NEW w \in Seq(Nat) PROVE Adds(w, Len(w), Sums(w))
<1> DEFINE G(f) == [i \in 0..Len(w) |-> IF i = 0 THEN 0 ELSE f[i - 1] + w[i]]
           F == Sums(w)
<1>1. PICK f : Adds(w, Len(w), f) BY SumsExist, Zenon
<1>2. f = G(f) BY <1>1 DEF Adds
<1>3. F = CHOOSE h : h = G(h) BY DEF Sums
<1>4. F = G(F)
  <2> HIDE DEF G, F
  <2> QED BY <1>2, <1>3, Zenon
<1> HIDE DEF F
<1>5. DOMAIN F = 0..Len(w) /\ F[0] = 0
      /\ \A i \in 0..Len(w) - 1 : F[i + 1] = F[i] + w[i + 1]
  BY <1>4
<1> DEFINE P == {n \in 0..Len(w) : F[n] \in Nat}
<1>6. 0 \in P BY <1>5
<1>7. ASSUME NEW n \in 0..Len(w) - 1, n \in P PROVE n + 1 \in P
  BY <1>5, <1>7
<1>8. Len(w) \in Nat OBVIOUS
<1>9. \A i \in 0..Len(w) : i \in P
  <2> HIDE DEF P
  <2> QED BY <1>6, <1>7, <1>8, Induct, Zenon
<1>10. F \in [0..Len(w) -> Nat] BY <1>4, <1>9
<1> QED BY <1>5, <1>10, Zenon DEF Adds, F

\* The sums of a sequence and of one that continues it.
LEMMA SumsAgree ==
    ASSUME NEW v \in Seq(Nat), NEW w \in Seq(Nat), Len(v) <= Len(w),
           \A i \in 1..Len(v) : v[i] = w[i]
    PROVE  Sums(v)[Len(v)] = Sums(w)[Len(v)]
<1> DEFINE f == Sums(v)
           g == Sums(w)
           P == {i \in 0..Len(v) : f[i] = g[i]}
<1>1. Adds(v, Len(v), f) /\ Adds(w, Len(w), g) BY SumsAdd, Zenon
<1>2. Len(v) \in Nat /\ Len(w) \in Nat OBVIOUS
<1> HIDE DEF f, g
<1>3. 0 \in P BY <1>1, <1>2 DEF Adds
<1>4. ASSUME NEW i \in 0..Len(v) - 1, i \in P PROVE i + 1 \in P
  <2>1. i \in 0..Len(w) - 1 /\ i + 1 \in 1..Len(v) /\ i + 1 \in 0..Len(v) BY <1>2
  <2>2. f[i + 1] = f[i] + v[i + 1] /\ g[i + 1] = g[i] + w[i + 1]
    BY <1>1, <2>1, Zenon DEF Adds
  <2> QED BY <1>4, <2>1, <2>2, Zenon
<1>5. \A i \in 0..Len(v) : i \in P
  <2> HIDE DEF P
  <2> QED BY <1>2, <1>3, <1>4, Induct, Zenon
<1>6. Len(v) \in 0..Len(v) BY <1>2
<1> QED BY <1>5, <1>6, Zenon DEF f, g

\* The sum of a longer sequence.
LEMMA SumOfAppend ==
    ASSUME NEW w \in Seq(Nat), NEW x \in Nat
    PROVE  Sums(Append(w, x))[Len(w) + 1] = Sums(w)[Len(w)] + x
<1> DEFINE u == Append(w, x)
<1>1. /\ u \in Seq(Nat) /\ Len(u) = Len(w) + 1 /\ Len(w) \in Nat /\ u[Len(w) + 1] = x
      /\ \A i \in 1..Len(w) : w[i] = u[i]
  OBVIOUS
<1> HIDE DEF u
<1>2. Adds(w, Len(w), Sums(w)) /\ Adds(u, Len(u), Sums(u)) BY <1>1, SumsAdd, Zenon
<1>3. Len(w) <= Len(u) /\ Len(u) \in Nat /\ Len(w) \in 0..Len(u) - 1
  BY <1>1
<1>4. Sums(w)[Len(w)] = Sums(u)[Len(w)] BY <1>1, <1>2, <1>3, SumsAgree, Zenon
<1>5. Sums(u)[Len(w) + 1] = Sums(u)[Len(w)] + u[Len(w) + 1]
  BY <1>2, <1>3, Zenon DEF Adds
<1> QED BY <1>1, <1>4, <1>5, Zenon DEF u

\* The sum of one number.
LEMMA SumOfOne == ASSUME NEW x \in Nat PROVE Sums(<<x>>)[1] = x
<1> DEFINE u == <<x>>
<1>1. u \in Seq(Nat) /\ Len(u) = 1 /\ u[1] = x /\ 0 \in 0..1 - 1 /\ 0 + 1 = 1 OBVIOUS
<1> HIDE DEF u
<1>2. Adds(u, 1, Sums(u)) BY <1>1, SumsAdd, Zenon
<1>3. Sums(u)[1] = Sums(u)[0] + u[1] /\ Sums(u)[0] = 0 BY <1>1, <1>2, Zenon DEF Adds
<1> QED BY <1>1, <1>3 DEF u

----------------------------------------------------------------------------
\* What a type-correct state looks like at one request.
LEMMA Typed ==
    ASSUME TypeOK, NEW r \in Request
    PROVE  /\ batch[r] \in Seq(Request) /\ text[r] \in Text \cup {None}
           /\ joined[r] \in Request \cup {None} /\ fut[r] \in Resolution
           /\ answer[r] \in Resolution /\ tries[r] \in 0..MaxRetries
           /\ seen[r] \in Mode \cup {"off"}
  BY Zenon DEF TypeOK

LEMMA MembersIn == ASSUME TypeOK, NEW d \in Request PROVE Members(d) \subseteq Request
<1>1. batch[d] \in Seq(Request) BY Typed, Zenon
<1> QED BY <1>1 DEF Members

LEMMA Keyed == ASSUME NEW r \in Request, TypeOK, text[r] # None, MyKey(r) # None
               PROVE  MyKey(r) \in Key /\ text[r] \in Text
<1>1. text[r] \in Text BY Typed, Zenon
<1> QED BY <1>1, Zenon DEF MyKey, Key

LEMMA AppendIs ==
    ASSUME NEW w \in Seq(Nat), NEW x \in Nat
    PROVE  Append(w, x) = [i \in 1..Len(w) + 1 |-> IF i = Len(w) + 1 THEN x ELSE w[i]]
<1> DEFINE u == Append(w, x)
           v == [i \in 1..Len(w) + 1 |-> IF i = Len(w) + 1 THEN x ELSE w[i]]
<1>1. /\ u \in Seq(Nat) /\ Len(u) = Len(w) + 1 /\ Len(w) \in Nat
      /\ \A i \in 1..Len(w) + 1 : u[i] = v[i]
  OBVIOUS
<1>2. v \in Seq(Nat) /\ Len(v) = Len(w) + 1
  <2>1. v \in [1..Len(w) + 1 -> Nat] OBVIOUS
  <2> HIDE DEF v
  <2> QED BY <1>1, <2>1
<1> HIDE DEF u, v
<1>3. u = v BY <1>1, <1>2
<1> QED BY <1>3, Zenon DEF u, v

\* Counting the texts of a batch gives numbers.
LEMMA CountsIn ==
    ASSUME TypeOK, NEW d \in Request, \A m \in Members(d) : text[m] # None
    PROVE  Counts(d) \in Seq(Nat) /\ Len(Counts(d)) = Len(batch[d])
<1> DEFINE s == batch[d]
<1>1. s \in Seq(Request) BY Typed, Zenon
<1>2. DOMAIN s = 1..Len(s) /\ Len(s) \in Nat /\ \A i \in 1..Len(s) : s[i] \in Request BY <1>1
<1> HIDE DEF s
<1>3. ASSUME NEW i \in 1..Len(s) PROVE TokenCount(text[s[i]]) \in Nat
  <2>1. s[i] \in Members(d) BY <1>2, Zenon DEF Members, s
  <2>2. text[s[i]] \in Text BY <1>2, <2>1, Typed, Zenon
  <2>3. text[s[i]] \in Seq(Nat) BY <2>2, TextAssumption, Zenon
  <2> HIDE DEF s
  <2> QED BY <2>3 DEF TokenCount
<1>4. Counts(d) = [i \in 1..Len(s) |-> TokenCount(text[s[i]])] BY <1>2, Zenon DEF Counts, s
<1>5. Counts(d) \in [1..Len(s) -> Nat] BY <1>3, <1>4, Zenon
<1> HIDE DEF Counts
<1> QED BY <1>2, <1>5 DEF s

\* A batch that is left alone has the tokens it had.
LEMMA TokensKept ==
    ASSUME NEW d \in Request, batch'[d] = batch[d], \A m \in Members(d) : text'[m] = text[m]
    PROVE  TokensOf(d)' = TokensOf(d)
<1>1. \A i \in DOMAIN batch[d] : text'[batch[d][i]] = text[batch[d][i]]
  BY Zenon DEF Members
<1>2. Counts(d)' = Counts(d) BY <1>1 DEF Counts
<1> QED BY <1>2, Zenon DEF TokensOf

\* A member adds its own tokens ...
LEMMA TokensAppend ==
    ASSUME TypeOK, NEW d \in Request, NEW r \in Request, text' = text, text[r] # None,
           \A m \in Members(d) : text[m] # None, batch'[d] = Append(batch[d], r)
    PROVE  /\ Members(d)' = Members(d) \cup {r} /\ Len(batch'[d]) = Len(batch[d]) + 1
           /\ TokensOf(d)' = TokensOf(d) + TokenCount(text[r])
<1> DEFINE s == batch[d]
           u == Append(s, r)
           x == TokenCount(text[r])
<1>1. s \in Seq(Request) BY Typed, Zenon
<1>2. /\ DOMAIN s = 1..Len(s) /\ Len(s) \in Nat /\ DOMAIN u = 1..Len(s) + 1
      /\ Len(u) = Len(s) + 1 /\ u[Len(s) + 1] = r
      /\ \A i \in 1..Len(s) : u[i] = s[i]
  BY <1>1
<1>3. Counts(d) \in Seq(Nat) /\ Len(Counts(d)) = Len(s) BY CountsIn, Zenon
<1>4. x \in Nat
  <2>1. text[r] \in Seq(Nat) BY Typed, TextAssumption, Zenon
  <2> QED BY <2>1 DEF TokenCount
<1> HIDE DEF s, u
<1>5. Members(d)' = Members(d) \cup {r}
  <2> DEFINE D == DOMAIN u
             E == DOMAIN s
  <2>1. Members(d)' = {u[i] : i \in D} /\ D = 1..Len(s) + 1
    <3>1. batch'[d] = u BY Zenon DEF u, s
    <3>2. Members(d)' = {u[i] : i \in D} BY <3>1, Zenon DEF Members
    <3> QED BY <1>2, <3>2, Zenon
  <2>2. Members(d) = {s[i] : i \in E} /\ E = 1..Len(s) BY <1>2, Zenon DEF Members, s
  <2> HIDE DEF D, E
  <2>3. 1..Len(s) + 1 = (1..Len(s)) \cup {Len(s) + 1} BY <1>2
  <2>4. ASSUME NEW m \in Members(d) \cup {r} PROVE m \in Members(d)'
    BY <1>2, <2>1, <2>2, <2>3, <2>4
  <2>5. ASSUME NEW i \in D PROVE u[i] \in Members(d) \cup {r}
    BY <1>2, <2>1, <2>2, <2>3
  <2> QED BY <2>1, <2>4, <2>5, Zenon
<1>6. Counts(d)' = Append(Counts(d), x)
  <2>1. Counts(d)' = [i \in 1..Len(s) + 1 |-> TokenCount(text[u[i]])]
    BY <1>2, Zenon DEF Counts, u, s
  <2>2. Counts(d) = [i \in 1..Len(s) |-> TokenCount(text[s[i]])]
    BY <1>2, Zenon DEF Counts, s
  <2>3. Append(Counts(d), x) =
          [i \in 1..Len(s) + 1 |-> IF i = Len(s) + 1 THEN x ELSE Counts(d)[i]]
    <3> HIDE DEF x, Counts
    <3>1. Append(Counts(d), x) =
            [i \in 1..Len(Counts(d)) + 1 |-> IF i = Len(Counts(d)) + 1 THEN x
                                             ELSE Counts(d)[i]]
      BY <1>3, <1>4, AppendIs, Zenon
    <3> QED BY <1>3, <3>1, Zenon
  <2> HIDE DEF Counts
  <2>4. \A i \in 1..Len(s) + 1 :
          TokenCount(text[u[i]]) = IF i = Len(s) + 1 THEN x ELSE Counts(d)[i]
    <3> HIDE DEF TokenCount
    <3> QED BY <1>2, <2>2
  <2> HIDE DEF x
  <2> QED BY <2>1, <2>3, <2>4, Zenon
<1>7. TokensOf(d)' = Sums(Counts(d)')[Len(s) + 1] BY <1>2, Zenon DEF TokensOf, u, s
<1>8. TokensOf(d) = Sums(Counts(d))[Len(s)] BY Zenon DEF TokensOf, s
<1> HIDE DEF x, Counts
<1>9. TokensOf(d)' = TokensOf(d) + x
  BY <1>3, <1>4, <1>6, <1>7, <1>8, SumOfAppend, Zenon
<1> QED BY <1>2, <1>5, <1>9, Zenon DEF x, u, s

\* ... and the first has only those.
LEMMA TokensOne ==
    ASSUME TypeOK, NEW r \in Request, text' = text, text[r] # None, batch'[r] = <<r>>
    PROVE  /\ Members(r)' = {r} /\ Len(batch'[r]) = 1
           /\ TokensOf(r)' = TokenCount(text[r]) /\ TokenCount(text[r]) \in Nat
<1> DEFINE x == TokenCount(text[r])
<1>1. text[r] \in Seq(Nat) BY Typed, TextAssumption, Zenon
<1>2. x \in Nat BY <1>1 DEF TokenCount
<1> HIDE DEF x
<1>3. Members(r)' = {r} BY DEF Members
<1>4. Counts(r)' = <<x>> BY DEF Counts, x
<1>5. Len(batch'[r]) = 1 OBVIOUS
<1>6. TokensOf(r)' = Sums(<<x>>)[1] BY <1>4, <1>5, Zenon DEF TokensOf
<1> QED BY <1>2, <1>3, <1>5, <1>6, SumOfOne, Zenon DEF x

\* The text that is sent for a member has the member's key.
LEMMA FirstTextIs ==
    ASSUME TypeOK, NEW d \in Request, NEW m \in Members(d),
           \A q \in Members(d) : text[q] # None
    PROVE  FirstText(d, text[m]) \in Text /\ Alike(FirstText(d, text[m]), text[m])
<1> DEFINE s == batch[d]
           same == {i \in DOMAIN s : DedupKey(text[s[i]]) = DedupKey(text[m])}
           j == CHOOSE i \in same : \A v \in same : i <= v
<1>1. s \in Seq(Request) BY Typed, Zenon
<1>2. same \subseteq Nat
  <2>1. DOMAIN s \subseteq Nat BY <1>1
  <2> QED BY <2>1, Zenon
<1>3. same # {} BY Zenon DEF Members
<1>4. j \in same
  <2> HIDE DEF same
  <2> QED BY <1>2, <1>3, Least, Zenon
<1>5. FirstText(d, text[m]) = text[s[j]] BY Zenon DEF FirstText
<1> HIDE DEF j
<1>6. s[j] \in Members(d) /\ s[j] \in Request
  <2>1. s[j] \in Members(d) BY <1>4, Zenon DEF Members
  <2> QED BY <2>1, MembersIn, Zenon
<1>7. text[s[j]] \in Text BY <1>6, Typed, Zenon
<1> QED BY <1>4, <1>5, <1>7, Zenon DEF Alike

----------------------------------------------------------------------------
\* A step leaves the local variables of a request alone.
Frame(q) == /\ pc'[q] = pc[q] /\ text'[q] = text[q] /\ seen'[q] = seen[q]
            /\ joined'[q] = joined[q] /\ tries'[q] = tries[q] /\ fut'[q] = fut[q]
            /\ answer'[q] = answer[q]

\* A text is set once.
TextsStay == \A q \in Request : text[q] # None => text'[q] = text[q]

\* An owner that is at work on its key.
Works(r) == AtWork(r) /\ Owner(r)

LEMMA Given == ASSUME IInv, NEW r \in Request
               PROVE  /\ TypeOK /\ CallOK(r) /\ JoinOK(r) /\ FutOK(r) /\ BatchOK(r)
                      /\ Members(r) \subseteq Request
  BY MembersIn, Zenon DEF IInv, RequestOK

LEMMA FrameOK == ASSUME IInv, TextsStay, NEW q \in Request, Frame(q)
                 PROVE  RequestOK(q)'
<1>1. /\ CallOK(q) /\ JoinOK(q) /\ FutOK(q) /\ joined[q] \in Request \cup {None}
  BY Given, Typed, Zenon
<1>2. CallOK(q)' BY <1>1, Zenon DEF CallOK, Frame, AtWork, Owner, MyKey
<1>3. joined[q] # None => text'[joined[q]] = text[joined[q]]
  BY <1>1, Zenon DEF JoinOK, TextsStay
<1>4. JoinOK(q)' BY <1>1, <1>3, Zenon DEF JoinOK, Frame, MyKey
<1>5. FutOK(q)' BY <1>1, Zenon DEF FutOK, Frame, Owner, MyKey
<1> QED BY <1>2, <1>4, <1>5, Zenon DEF RequestOK

LEMMA NoMembers == ASSUME NEW d, batch'[d] = <<>> PROVE Members(d)' = {} /\ Len(batch'[d]) = 0
  BY DEF Members

LEMMA BatchKept ==
    ASSUME IInv, TextsStay, NEW d \in Request, batch'[d] \in {batch[d], <<>>},
           Dispatches(d)' => /\ Dispatches(d) /\ batch'[d] = batch[d]
                             /\ \A m \in Members(d) : fut'[m] = fut[m]
                             /\ \A m \in Members(d) : m = d \/ pc'[m] = pc[m]
    PROVE  BatchOK(d)'
<1>1. BatchOK(d) /\ Members(d) \subseteq Request BY Given, Zenon
<1>2. CASE batch'[d] = batch[d]
  <2>1. Members(d)' = Members(d) BY <1>2, Zenon DEF Members
  <2>2. \A m \in Members(d) : text'[m] # None BY <1>1, Zenon DEF BatchOK, TextsStay
  <2> QED BY <1>1, <2>1, <2>2, Zenon DEF BatchOK
<1>3. CASE batch'[d] = <<>> /\ batch'[d] # batch[d]
  BY <1>3, NoMembers, Zenon DEF BatchOK
<1> QED BY <1>2, <1>3, Zenon

LEMMA FitsKept ==
    ASSUME IInv, TextsStay, NEW d \in Request, batch'[d] \in {batch[d], <<>>}
    PROVE  Len(batch'[d]) <= RawCap /\ (Len(batch'[d]) <= 1 \/ TokensOf(d)' <= TokenLimit)
<1>1. CASE batch'[d] = batch[d]
  <2>1. BatchOK(d) /\ Members(d) \subseteq Request BY Given, Zenon
  <2>2. TokensOf(d)' = TokensOf(d) BY <1>1, <2>1, TokensKept, Zenon DEF BatchOK, TextsStay
  <2> QED BY <1>1, <2>2, Zenon DEF IInv, BatchFits
<1>2. CASE batch'[d] = <<>>
  <2>1. Len(batch'[d]) = 0 BY <1>2, NoMembers, Zenon
  <2> QED BY <2>1, LimitAssumption
<1> QED BY <1>1, <1>2, Zenon

LEMMA OpenKept ==
    ASSUME IInv, TextsStay, open' \in {open, NoBatch},
           open' = open /\ open.batch # None =>
              /\ pc'[open.batch] = pc[open.batch] /\ tries'[open.batch] = tries[open.batch]
              /\ batch'[open.batch] = batch[open.batch]
    PROVE  OpenOK'
<1>1. CASE open' = NoBatch BY <1>1 DEF OpenOK, NoBatch
<1>2. CASE open' = open /\ open.batch # None
  <2>1. open.batch \in Request BY <1>2 DEF IInv, TypeOK
  <2>2. BatchOK(open.batch) /\ Members(open.batch) \subseteq Request BY <2>1, Given, Zenon
  <2>3. TokensOf(open.batch)' = TokensOf(open.batch)
    <3> DEFINE d == open.batch
    <3>1. d' = d BY <1>2, Zenon
    <3>2. batch'[d] = batch[d] /\ \A m \in Members(d) : text'[m] = text[m]
      BY <1>2, <2>2, Zenon DEF BatchOK, TextsStay
    <3>3. \A e \in Request : e = d => TokensOf(e)' = TokensOf(e)
      BY <3>2, TokensKept, Zenon
    <3> QED BY <2>1, <3>1, <3>3, Zenon
  <2> QED BY <1>2, <2>3, Zenon DEF OpenOK, IInv
<1>3. CASE open' = open /\ open.batch = None BY <1>3, Zenon DEF OpenOK
<1> QED BY <1>1, <1>2, <1>3, Zenon

LEMMA ApartKept ==
    ASSUME IInv, \A d \in Request : Dispatches(d)' => Dispatches(d) /\ batch'[d] = batch[d]
    PROVE  Apart'
<1>1. \A d \in Request : Dispatches(d)' => Dispatches(d) /\ Members(d)' = Members(d)
  BY Zenon DEF Members
<1> HIDE DEF Members, Dispatches
<1> QED BY <1>1, Zenon DEF Apart, IInv

LEMMA AwaitKept ==
    ASSUME IInv,
           \A q \in Request : pc'[q] = "await" /\ fut'[q] = None =>
              /\ pc[q] = "await" /\ fut[q] = None
              /\ \A d \in Request : Dispatches(d) /\ q \in Members(d) =>
                                      Dispatches(d)' /\ batch'[d] = batch[d]
    PROVE  DispatcherAtWork'
<1> SUFFICES ASSUME NEW q \in Request, pc'[q] = "await", fut'[q] = None
             PROVE  \E d \in Request : q \in Members(d)' /\ pc'[d] \in {"slot", "call"}
  BY Zenon DEF DispatcherAtWork
<1>1. PICK d \in Request : q \in Members(d) /\ Dispatches(d)
  BY Zenon DEF IInv, DispatcherAtWork, Dispatches
<1>2. Dispatches(d)' /\ batch'[d] = batch[d] BY <1>1, Zenon
<1>3. Members(d)' = Members(d) BY <1>2, Zenon DEF Members
<1> HIDE DEF Members
<1> QED BY <1>1, <1>2, <1>3, Zenon DEF Dispatches

LEMMA FlightKept ==
    ASSUME IInv, TextsStay, flight' = flight,
           \A q \in Request : /\ Works(q)' => Works(q)
                              /\ Works(q) => Works(q)' \/ Raised(q)'
                              /\ Raised(q) => Raised(q)'
    PROVE  SingleFlight'
<1>1. ASSUME NEW q \in Request, Works(q) \/ Raised(q) PROVE MyKey(q)' = MyKey(q)
  <2>1. text[q] # None BY <1>1, Given, TextAssumption, Zenon DEF CallOK, AtWork, Works, Raised
  <2> QED BY <2>1, Zenon DEF TextsStay, MyKey
<1>2. ASSUME NEW q \in Request, Works(q)' PROVE flight'[MyKey(q)'] = q
  BY <1>1, <1>2, Zenon DEF IInv, SingleFlight, Works
<1>3. ASSUME NEW k \in Key, flight'[k] # None
      PROVE  /\ MyKey(flight[k])' = k /\ (Works(flight[k])' \/ Raised(flight[k])')
  <2>1. flight[k] # None /\ flight[k] \in Request
    BY <1>3, Zenon DEF IInv, TypeOK
  <2>2. /\ MyKey(flight[k]) = k
        /\ Works(flight[k]) \/ Raised(flight[k])
    BY <2>1, Zenon DEF IInv, SingleFlight, Works
  <2> QED BY <1>1, <2>1, <2>2, Zenon
<1> QED BY <1>2, <1>3, Zenon DEF SingleFlight, Works

\* A step of one request outside of the fan-out, which no batch waits for.
LEMMA LocalKept ==
    ASSUME IInv, TextsStay, NEW r \in Request, \A q \in Request : q # r => Frame(q),
           cache' = cache, batch' = batch, fut'[r] = fut[r],
           pc[r] # "await", pc'[r] # "await", Dispatches(r)' <=> Dispatches(r),
           open' = NoBatch \/ (open' = open /\ open.batch # r)
    PROVE  /\ Apart' /\ OpenOK' /\ CacheOK' /\ DispatcherAtWork' /\ BatchFits'
           /\ \A d \in Request : BatchOK(d)' /\ (d # r => RequestOK(d)')
<1>1. \A q \in Request : fut'[q] = fut[q] /\ (Dispatches(q)' <=> Dispatches(q))
  BY Zenon DEF Frame, Dispatches
<1>2. Apart' BY <1>1, ApartKept, Zenon
<1>3. OpenOK'
  <2>1. open.batch # None => open.batch \in Request BY DEF IInv, TypeOK
  <2>2. open' = open /\ open.batch # None =>
           /\ pc'[open.batch] = pc[open.batch] /\ tries'[open.batch] = tries[open.batch]
           /\ batch'[open.batch] = batch[open.batch]
    BY <2>1 DEF Frame, NoBatch
  <2>3. open' \in {open, NoBatch} BY Zenon
  <2> QED BY <2>2, <2>3, OpenKept, Zenon
<1>4. CacheOK' BY Zenon DEF CacheOK, IInv
<1>5. DispatcherAtWork'
  <2>1. ASSUME NEW q \in Request, pc'[q] = "await", fut'[q] = None
        PROVE  pc[q] = "await" /\ fut[q] = None
    BY <1>1, <2>1, Zenon DEF Frame
  <2> QED BY <1>1, <2>1, AwaitKept, Zenon
<1>6. BatchFits' BY FitsKept, Zenon DEF BatchFits
<1>7. ASSUME NEW d \in Request PROVE BatchOK(d)'
  <2>1. BatchOK(d) /\ Members(d) \subseteq Request BY Given, Zenon
  <2>2. Dispatches(d) => \A m \in Members(d) : m = d \/ pc'[m] = pc[m]
    <3>1. ASSUME Dispatches(d), NEW m \in Members(d), m # d PROVE pc'[m] = pc[m]
      <4>1. m \in Request /\ m # r BY <2>1, <3>1, Zenon DEF BatchOK
      <4> QED BY <4>1, Zenon DEF Frame
    <3> QED BY <3>1, Zenon
  <2> QED BY <1>1, <2>1, <2>2, BatchKept, Zenon
<1>8. ASSUME NEW d \in Request, d # r PROVE RequestOK(d)' BY <1>8, FrameOK, Zenon
<1> QED BY <1>2, <1>3, <1>4, <1>5, <1>6, <1>7, <1>8, Zenon

LEMMA LocalStep ==
    ASSUME IInv, TextsStay, NEW r \in Request, \A q \in Request : q # r => Frame(q),
           cache' = cache, batch' = batch, fut'[r] = fut[r],
           pc[r] # "await", pc'[r] # "await", Dispatches(r)' <=> Dispatches(r),
           open' = NoBatch \/ (open' = open /\ open.batch # r),
           TypeOK', SingleFlight', RequestOK(r)'
    PROVE  IInv'
<1>1. /\ Apart' /\ OpenOK' /\ CacheOK' /\ DispatcherAtWork' /\ BatchFits'
      /\ \A d \in Request : BatchOK(d)' /\ (d # r => RequestOK(d)')
  BY LocalKept, Zenon
<1> QED BY <1>1, Zenon DEF IInv

\* The open batch is not that of a request anywhere but at its first attempt.
LEMMA NotOpen == ASSUME IInv, NEW r \in Request, pc[r] # "slot" \/ tries[r] # 0
                 PROVE  open.batch # r
  BY RequestAssumption, Zenon DEF IInv, OpenOK

\* Finish, request by request.
Leaves(q, v) == /\ answer'[q] = v /\ seen'[q] = "off"
                /\ joined'[q] = None /\ tries'[q] = 0
Stays(q) == /\ answer'[q] = answer[q] /\ seen'[q] = seen[q]
            /\ joined'[q] = joined[q] /\ tries'[q] = tries[q]

LEMMA FinishAt ==
    ASSUME NEW S, NEW v, Finish(S, v)
    PROVE  \A q \in Request : IF q \in S THEN Leaves(q, v[q]) ELSE Stays(q)
  BY Zenon DEF Finish, Leaves, Stays

LEMMA FinishTyped ==
    ASSUME TypeOK, NEW S, NEW v, Finish(S, v),
           \A q \in Request : q \in S => v[q] \in Resolution
    PROVE  /\ answer' \in [Request -> Resolution] /\ seen' \in [Request -> Mode \cup {"off"}]
           /\ joined' \in [Request -> Request \cup {None}]
           /\ tries' \in [Request -> 0..MaxRetries]
<1>1. 0 \in 0..MaxRetries BY LimitAssumption
<1>2. answer' \in [Request -> Resolution] BY Zenon DEF TypeOK, Finish
<1>3. seen' \in [Request -> Mode \cup {"off"}] BY Zenon DEF TypeOK, Finish
<1>4. joined' \in [Request -> Request \cup {None}] BY Zenon DEF TypeOK, Finish
<1>5. tries' \in [Request -> 0..MaxRetries] BY <1>1, Zenon DEF TypeOK, Finish
<1> QED BY <1>2, <1>3, <1>4, <1>5, Zenon

LEMMA GotoAt ==
    ASSUME TypeOK, NEW r \in Request, NEW p, Goto(r, p)
    PROVE  pc'[r] = p /\ \A q \in Request : q # r => pc'[q] = pc[q]
  BY Zenon DEF Goto, TypeOK

----------------------------------------------------------------------------
LEMMA MissIInv == ASSUME IInv, NEW r \in Request, Miss(r) PROVE IInv'
<1>1. /\ TypeOK /\ CallOK(r) /\ JoinOK(r) /\ FutOK(r) /\ open.batch # r
  BY Given, NotOpen, Zenon DEF Miss
<1>2. /\ pc[r] = "lookup" /\ pc'[r] = "count" /\ \A q \in Request : q # r => pc'[q] = pc[q]
      /\ UNCHANGED <<cache, flight, joined, open, batch, text, seen, tries, fut, answer>>
  BY <1>1, GotoAt, Zenon DEF Miss, registry
<1>3. TypeOK' BY <1>1, <1>2, Zenon DEF Miss, Goto, TypeOK
<1>4. TextsStay /\ \A q \in Request : q # r => Frame(q)
  BY <1>2, Zenon DEF TextsStay, Frame
<1>5. SingleFlight'
  BY <1>2, <1>4, FlightKept, Zenon DEF Raised, Works, AtWork, Owner, MyKey, Frame
<1>6. RequestOK(r)'
  BY <1>1, <1>2, Zenon DEF RequestOK, CallOK, JoinOK, FutOK, AtWork, Owner, MyKey
<1> QED BY <1>1, <1>2, <1>3, <1>4, <1>5, <1>6, LocalStep, Zenon DEF Dispatches

\* The two steps with which a request gives up alone.
LEMMA GivesUpIInv ==
    ASSUME IInv, NEW r \in Request, pc[r] \in {"count", "join"},
           NEW p \in {"done", "raised"}, pc[r] = "count" => p = "raised",
           Finish({r}, [q \in Request |-> Failed]), Goto(r, p),
           UNCHANGED <<cache, flight, open, batch, text, fut>>
    PROVE  IInv'
<1>1. /\ TypeOK /\ CallOK(r) /\ JoinOK(r) /\ FutOK(r) /\ open.batch # r
  BY Given, NotOpen, Zenon
<1> DEFINE v == [q \in Request |-> Failed]
<1>0. Finish({r}, v) /\ \A q \in Request : v[q] = Failed BY Zenon
<1> HIDE DEF v
<1>2. /\ pc'[r] = p /\ answer'[r] = Failed /\ seen'[r] = "off" /\ joined'[r] = None
      /\ tries'[r] = 0
      /\ \A q \in Request : q # r => Frame(q)
  <2>1. \A q \in Request : IF q \in {r} THEN Leaves(q, v[q]) ELSE Stays(q)
    BY <1>0, FinishAt, Zenon
  <2> QED BY <1>0, <1>1, <2>1, GotoAt, Zenon DEF Frame, Leaves, Stays
<1>3. TypeOK'
  <2>1. /\ answer' \in [Request -> Resolution] /\ seen' \in [Request -> Mode \cup {"off"}]
        /\ joined' \in [Request -> Request \cup {None}] /\ tries' \in [Request -> 0..MaxRetries]
    BY <1>0, <1>1, FinishTyped, Zenon DEF Resolution
  <2> QED BY <1>1, <2>1, Zenon DEF Goto, TypeOK
<1>4. TextsStay BY Zenon DEF TextsStay
<1>5. SingleFlight'
  <2>1. ~Works(r)' BY <1>2, Zenon DEF Works, AtWork
  <2>2. \A q \in Request : q # r => /\ Works(q)' <=> Works(q)
                                    /\ Raised(q)' <=> Raised(q)
    BY <1>2, Zenon DEF Raised, Works, AtWork, Owner, MyKey, Frame
  <2>3. ~Raised(r) /\ (Works(r) => Raised(r)') BY <1>2, Zenon DEF Raised, Works, AtWork
  <2> QED BY <1>2, <1>4, <2>1, <2>2, <2>3, FlightKept, Zenon
<1>6. RequestOK(r)'
  BY <1>1, <1>2, TextAssumption, Zenon DEF RequestOK, CallOK, JoinOK, FutOK, AtWork, Owner
<1> QED BY <1>1, <1>2, <1>3, <1>4, <1>5, <1>6, LocalStep, Zenon DEF Dispatches

LEMMA CloseAt == ASSUME IInv, NEW r \in Request, Close(r)
                 PROVE  /\ open' = NoBatch \/ (open' = open /\ open.batch # r)
                        /\ open' \in [batch : Request \cup {None}, tokens : 0..TokenLimit]
<1>1. NoBatch \in [batch : Request \cup {None}, tokens : 0..TokenLimit]
  BY LimitAssumption DEF NoBatch
<1> QED BY <1>1, Zenon DEF Close, IInv, TypeOK

LEMMA AcquireIInv == ASSUME IInv, NEW r \in Request, Acquire(r) PROVE IInv'
<1>1. /\ TypeOK /\ CallOK(r) /\ JoinOK(r) /\ FutOK(r)
      /\ open' = NoBatch \/ (open' = open /\ open.batch # r)
      /\ open' \in [batch : Request \cup {None}, tokens : 0..TokenLimit]
  BY Given, CloseAt, Zenon DEF Acquire
<1>2. /\ pc[r] = "slot" /\ pc'[r] = "call" /\ \A q \in Request : q # r => pc'[q] = pc[q]
      /\ UNCHANGED <<cache, flight, joined, batch, text, seen, tries, fut, answer>>
  BY <1>1, GotoAt, Zenon DEF Acquire, registry
<1>3. TypeOK' BY <1>1, <1>2, Zenon DEF Acquire, Goto, TypeOK
<1>4. TextsStay /\ \A q \in Request : q # r => Frame(q)
  BY <1>2, Zenon DEF TextsStay, Frame
<1>5. SingleFlight'
  BY <1>2, <1>4, FlightKept, Zenon DEF Raised, Works, AtWork, Owner, MyKey, Frame
<1>6. RequestOK(r)'
  BY <1>1, <1>2, Zenon DEF RequestOK, CallOK, JoinOK, FutOK, AtWork, Owner, MyKey
<1> QED BY <1>1, <1>2, <1>3, <1>4, <1>5, <1>6, LocalStep, Zenon DEF Dispatches

LEMMA RateLimitedIInv == ASSUME IInv, NEW r \in Request, RateLimited(r) PROVE IInv'
<1>1. /\ TypeOK /\ CallOK(r) /\ JoinOK(r) /\ FutOK(r) /\ open.batch # r
  BY Given, NotOpen, Zenon DEF RateLimited
<1>2. /\ pc[r] = "call" /\ pc'[r] = "slot" /\ \A q \in Request : q # r => pc'[q] = pc[q]
      /\ \A q \in Request : q # r => tries'[q] = tries[q]
      /\ UNCHANGED <<cache, flight, joined, open, batch, text, seen, fut, answer>>
  BY <1>1, GotoAt, Zenon DEF RateLimited, registry, TypeOK
<1>3. TypeOK'
  <2>1. tries[r] + 1 \in 0..MaxRetries BY LimitAssumption DEF RateLimited, IInv, TypeOK
  <2>2. tries' \in [Request -> 0..MaxRetries] BY <1>1, <2>1, Zenon DEF RateLimited, TypeOK
  <2> QED BY <1>1, <1>2, <2>2, Zenon DEF RateLimited, Goto, TypeOK
<1>4. TextsStay /\ \A q \in Request : q # r => Frame(q)
  BY <1>2, Zenon DEF TextsStay, Frame
<1>5. SingleFlight'
  BY <1>2, <1>4, FlightKept, Zenon DEF Raised, Works, AtWork, Owner, MyKey, Frame
<1>6. RequestOK(r)'
  BY <1>1, <1>2, Zenon DEF RequestOK, CallOK, JoinOK, FutOK, AtWork, Owner, MyKey
<1> QED BY <1>1, <1>2, <1>3, <1>4, <1>5, <1>6, LocalStep, Zenon DEF Dispatches

\* A request that did not enter a batch is in none.
LEMMA NotIn == ASSUME IInv, NEW r \in Request, pc[r] \notin {"await", "slot", "call"}
               PROVE  \A d \in Request : Dispatches(d) => r \notin Members(d)
  BY Given, Zenon DEF BatchOK, Dispatches

\* Who is in the registry has a text.
LEMMA Registered == ASSUME IInv, NEW k \in Key, flight[k] # None
                    PROVE  /\ flight[k] \in Request /\ MyKey(flight[k]) = k
                           /\ text[flight[k]] # None
                           /\ pc[flight[k]] \notin {"idle", "join"}
                           /\ Works(flight[k]) \/ Raised(flight[k])
<1> DEFINE q == flight[k]
<1>1. q \in Request BY Zenon DEF IInv, TypeOK
<1>2. MyKey(q) = k /\ (Works(q) \/ Raised(q))
  BY Zenon DEF IInv, SingleFlight, Works
<1> HIDE DEF q
<1>3. CallOK(q) BY <1>1, Given, Zenon
<1>4. pc[q] \notin {"idle", "join"} /\ text[q] # None
  BY <1>2, <1>3, TextAssumption, Zenon DEF CallOK, Works, AtWork, Raised
<1> QED BY <1>1, <1>2, <1>4, Zenon DEF q

LEMMA SubmitIInv ==
    ASSUME IInv, NEW r \in Request, NEW t \in Text, NEW m \in Mode, Submit(r, t, m)
    PROVE  IInv'
<1> DEFINE k == KeyOf[t]
<1>1. /\ TypeOK /\ CallOK(r) /\ JoinOK(r) /\ FutOK(r) /\ open.batch # r /\ pc[r] = "idle"
  BY Given, NotOpen, Zenon DEF Submit
<1>2. /\ text'[r] = t /\ \A q \in Request : q # r => text'[q] = text[q]
      /\ text' \in [Request -> Text \cup {None}]
      /\ UNCHANGED <<cache, open, batch, tries, fut, answer>>
  BY <1>1, Zenon DEF Submit, TypeOK
<1>3. TextsStay BY <1>1, <1>2, Zenon DEF TextsStay, CallOK
<1>4. text'[r] # None /\ MyKey(r)' = k /\ ~Works(r) /\ answer[r] = None
  BY <1>1, <1>2, TextAssumption, Zenon DEF MyKey, Works, AtWork, CallOK
<1>5. k # None => k \in Key BY Zenon DEF Key
<1> HIDE DEF k
<1>6. CASE ~Looks(m, k)
  <2>1. /\ seen' = [seen EXCEPT ![r] = m] /\ Goto(r, "count") /\ UNCHANGED <<flight, joined>>
    BY <1>6, Zenon DEF Submit, registry, k
  <2>2. /\ pc'[r] = "count" /\ seen'[r] = m /\ \A q \in Request : q # r => Frame(q)
    <3>1. seen'[r] = m /\ \A q \in Request : q # r => seen'[q] = seen[q]
      BY <1>1, <2>1, Zenon DEF TypeOK
    <3>2. pc'[r] = "count" /\ \A q \in Request : q # r => pc'[q] = pc[q]
      BY <1>1, <2>1, GotoAt, Zenon
    <3> QED BY <1>2, <2>1, <3>1, <3>2, Zenon DEF Frame
  <2>3. TypeOK' BY <1>1, <1>2, <2>1, Zenon DEF TypeOK, Goto
  <2>4. ~Works(r)' BY <1>4, <1>6, <2>2, Zenon DEF Works, Owner
  <2>5. SingleFlight'
    <3>1. \A q \in Request : q # r => (Works(q)' <=> Works(q)) /\ (Raised(q)' <=> Raised(q))
      BY <2>2, Zenon DEF Raised, Works, AtWork, Owner, MyKey, Frame
    <3>2. ~Raised(r) BY <1>1, Zenon DEF Raised, Submit
    <3> QED BY <1>2, <1>3, <1>4, <2>1, <2>4, <3>1, <3>2, FlightKept, Zenon
  <2>6. RequestOK(r)'
    BY <1>1, <1>2, <1>4, <2>1, <2>2, Zenon DEF RequestOK, CallOK, JoinOK, FutOK, AtWork
  <2> QED BY <1>1, <1>2, <1>3, <2>2, <2>3, <2>5, <2>6, LocalStep, Zenon DEF Dispatches
<1>7. CASE Looks(m, k) /\ flight[k] = None
  <2>1. /\ seen' = [seen EXCEPT ![r] = m] /\ flight' = [flight EXCEPT ![k] = r]
        /\ Goto(r, IF m = "on" THEN "lookup" ELSE "count") /\ UNCHANGED joined
    BY <1>7, Zenon DEF Submit, registry, k
  <2>2. /\ pc'[r] \in {"lookup", "count"} /\ seen'[r] = m
        /\ \A q \in Request : q # r => Frame(q)
    <3>1. seen'[r] = m /\ \A q \in Request : q # r => seen'[q] = seen[q]
      BY <1>1, <2>1, Zenon DEF TypeOK
    <3>2. pc'[r] \in {"lookup", "count"} /\ \A q \in Request : q # r => pc'[q] = pc[q]
      BY <1>1, <2>1, GotoAt, Zenon
    <3> QED BY <1>2, <2>1, <3>1, <3>2, Zenon DEF Frame
  <2>3. k \in Key /\ flight'[k] = r /\ \A x \in Key : x # k => flight'[x] = flight[x]
    BY <1>1, <1>5, <1>7, <2>1, Zenon DEF Looks, TypeOK
  <2>4. TypeOK'
    <3>1. pc' \in [Request -> {"idle", "lookup", "count", "await", "slot",
                               "call", "write", "join", "done", "raised"}]
      BY <1>1, <2>1, Zenon DEF TypeOK, Goto
    <3> QED BY <1>1, <1>2, <2>1, <3>1, Zenon DEF TypeOK
  <2>5. Works(r)' BY <1>4, <1>7, <2>2, Zenon DEF Works, AtWork, Owner
  <2>6. \A q \in Request : q # r => /\ Works(q)' <=> Works(q)
                                    /\ (Raised(q)' <=> Raised(q)) /\ MyKey(q)' = MyKey(q)
    BY <2>2, Zenon DEF Raised, Works, AtWork, Owner, MyKey, Frame
  <2>7. ASSUME NEW q \in Request, Works(q)' PROVE flight'[MyKey(q)'] = q
    <3>1. CASE q = r BY <1>4, <2>3, <3>1, Zenon
    <3>2. CASE q # r
      <4>1. Works(q) /\ MyKey(q)' = MyKey(q) BY <2>6, <2>7, <3>2, Zenon
      <4>2. flight[MyKey(q)] = q BY <4>1, Zenon DEF IInv, SingleFlight, Works
      <4>3. MyKey(q) \in Key
        BY <4>1, <1>1, Given, Keyed, Zenon DEF CallOK, Works, Owner, AtWork, Looks
      <4>4. MyKey(q) # k BY <1>7, <4>2, RequestAssumption, Zenon
      <4> QED BY <2>3, <4>1, <4>2, <4>3, <4>4, Zenon
    <3> QED BY <3>1, <3>2, Zenon
  <2>8. ASSUME NEW x \in Key, NEW q \in Request, flight'[x] = q
        PROVE  MyKey(q)' = x /\ (Works(q)' \/ Raised(q)')
    <3>1. CASE x = k BY <1>4, <2>3, <2>5, <2>8, <3>1, Zenon
    <3>2. CASE x # k
      <4>1. flight[x] = q /\ flight[x] # None BY <2>3, <2>8, <3>2, RequestAssumption, Zenon
      <4>2. MyKey(q) = x /\ (Works(q) \/ Raised(q)) /\ pc[q] # "idle"
        BY <4>1, Registered, Zenon
      <4> QED BY <1>1, <2>6, <4>2, Zenon
    <3> QED BY <3>1, <3>2, Zenon
  <2>9. SingleFlight'
    <3>1. \A x \in Key : flight'[x] # None => flight'[x] \in Request
      BY <2>4, Zenon DEF TypeOK
    <3> QED BY <2>7, <2>8, <3>1, Zenon DEF SingleFlight, Works
  <2>10. RequestOK(r)'
    BY <1>1, <1>2, <1>4, <2>1, <2>2, <2>5, Zenon
       DEF RequestOK, CallOK, JoinOK, FutOK, AtWork, Works
  <2> QED BY <1>1, <1>2, <1>3, <2>2, <2>4, <2>9, <2>10, LocalStep, Zenon DEF Dispatches
<1>8. CASE Looks(m, k) /\ flight[k] # None
  <2>1. /\ joined' = [joined EXCEPT ![r] = flight[k]] /\ Goto(r, "join")
        /\ UNCHANGED <<flight, seen>>
    BY <1>8, Zenon DEF Submit, k
  <2>2. /\ pc'[r] = "join" /\ joined'[r] = flight[k] /\ \A q \in Request : q # r => Frame(q)
    <3>1. joined'[r] = flight[k] /\ \A q \in Request : q # r => joined'[q] = joined[q]
      BY <1>1, <2>1, Zenon DEF TypeOK
    <3>2. pc'[r] = "join" /\ \A q \in Request : q # r => pc'[q] = pc[q]
      BY <1>1, <2>1, GotoAt, Zenon
    <3> QED BY <1>2, <2>1, <3>1, <3>2, Zenon DEF Frame
  <2>3. /\ k \in Key /\ k # None /\ flight[k] \in Request /\ MyKey(flight[k]) = k
        /\ text[flight[k]] # None
    BY <1>5, <1>8, Registered, Zenon DEF Looks
  <2>4. TypeOK'
    <3>1. joined' \in [Request -> Request \cup {None}] BY <1>1, <2>1, <2>3, Zenon DEF TypeOK
    <3> QED BY <1>1, <1>2, <2>1, <3>1, Zenon DEF TypeOK, Goto
  <2>5. ~Works(r)' BY <2>2, Zenon DEF Works, AtWork
  <2>6. SingleFlight'
    <3>1. \A q \in Request : q # r => (Works(q)' <=> Works(q)) /\ (Raised(q)' <=> Raised(q))
      BY <2>2, Zenon DEF Raised, Works, AtWork, Owner, MyKey, Frame
    <3>2. ~Raised(r) BY <1>1, Zenon DEF Raised, Submit
    <3> QED BY <1>2, <1>3, <1>4, <2>1, <2>5, <3>1, <3>2, FlightKept, Zenon
  <2>7. JoinOK(r)'
    <3>1. text'[flight[k]] = text[flight[k]] BY <1>3, <2>3, Zenon DEF TextsStay
    <3>2. joined'[r] # None BY <2>2, <2>3, RequestAssumption, Zenon
    <3>3. KeyOf[text'[joined'[r]]] = k BY <2>2, <2>3, <3>1, Zenon DEF MyKey
    <3>4. text'[joined'[r]] # None BY <2>2, <2>3, <3>1, Zenon
    <3> QED BY <1>4, <2>2, <2>3, <3>2, <3>3, <3>4, Zenon DEF JoinOK, MyKey
  <2>8. RequestOK(r)'
    BY <1>1, <1>2, <1>4, <2>1, <2>2, <2>7, Zenon DEF RequestOK, CallOK, FutOK, AtWork
  <2> QED BY <1>1, <1>2, <1>3, <2>2, <2>4, <2>6, <2>8, LocalStep, Zenon DEF Dispatches
<1> QED BY <1>6, <1>7, <1>8, Zenon

\* The open batch gets one more member.
LEMMA EnqueueJoinIInv ==
    ASSUME IInv, NEW r \in Request, NEW cap \in 1..RawCap, EnqueueJoin(r, cap),
           NEW d \in Request, open.batch = d
    PROVE  IInv'
<1> DEFINE n == TokenCount(text[r])
<1>1. /\ TypeOK /\ CallOK(r) /\ JoinOK(r) /\ FutOK(r) /\ pc[r] = "count"
  BY Given, Zenon DEF EnqueueJoin
<1>2. /\ d # None /\ Len(batch[d]) < cap /\ open.tokens + n <= TokenLimit
      /\ open.tokens \in Nat
  BY DEF EnqueueJoin, Fits, IInv, TypeOK
<1>3. /\ pc[d] = "slot" /\ tries[d] = 0 /\ open.tokens = TokensOf(d) /\ d # r
      /\ BatchOK(d) /\ Members(d) \subseteq Request
  BY <1>1, <1>2, Given, Zenon DEF IInv, OpenOK
<1>4. /\ pc'[r] = "await" /\ \A q \in Request : q # r => pc'[q] = pc[q]
      /\ UNCHANGED <<cache, flight, joined, text, seen, tries, fut, answer>>
  BY <1>1, GotoAt, Zenon DEF EnqueueJoin, registry
<1>5. /\ batch'[d] = Append(batch[d], r)
      /\ \A e \in Request : e # d => batch'[e] = batch[e]
  BY <1>1, <1>2, Zenon DEF EnqueueJoin, TypeOK
<1>6. text[r] # None BY <1>1, Zenon DEF CallOK
<1>7. n \in Nat
  <2>1. text[r] \in Seq(Nat) BY <1>1, <1>6, Typed, TextAssumption, Zenon
  <2> QED BY <2>1 DEF TokenCount
<1>8. open' = NoBatch \/ open' = [batch |-> d, tokens |-> open.tokens + n]
  BY DEF EnqueueJoin, SealIfFull, IInv, TypeOK
<1> HIDE DEF n
<1>9. /\ Members(d)' = Members(d) \cup {r} /\ Len(batch'[d]) = Len(batch[d]) + 1
      /\ TokensOf(d)' = TokensOf(d) + n
  BY <1>1, <1>2, <1>3, <1>4, <1>5, <1>6, TokensAppend, Zenon DEF BatchOK, n
<1>10. \A e \in Request : e # d => Members(e)' = Members(e) BY <1>5, Zenon DEF Members
<1>11. \A e \in Request : Dispatches(e)' <=> Dispatches(e)
  BY <1>1, <1>4, Zenon DEF Dispatches
<1>12. \A e \in Request : Dispatches(e) => r \notin Members(e) BY <1>1, NotIn, Zenon
<1>13. TextsStay /\ \A q \in Request : q # r => Frame(q)
  BY <1>4, Zenon DEF TextsStay, Frame
<1>14. TypeOK'
  <2>1. batch[d] \in Seq(Request) BY <1>1, <1>2, Typed, Zenon
  <2>2. Append(batch[d], r) \in Seq(Request) BY <2>1
  <2>3. batch' \in [Request -> Seq(Request)]
    BY <1>1, <2>2, Zenon DEF EnqueueJoin, TypeOK
  <2>4. open' \in [batch : Request \cup {None}, tokens : 0..TokenLimit]
    BY <1>2, <1>7, <1>8, LimitAssumption DEF NoBatch
  <2> QED BY <1>1, <1>4, <2>3, <2>4, Zenon DEF EnqueueJoin, TypeOK, Goto
<1>15. Apart'
  <2>1. Dispatches(d) BY <1>3, Zenon DEF Dispatches
  <2> HIDE DEF Members, Dispatches
  <2>2. ASSUME NEW e \in Request, NEW f \in Request, e # f, Dispatches(e), Dispatches(f),
               NEW q, q \in Members(e)', q \in Members(f)'
        PROVE  FALSE
    <3>1. \A g \in Request : Dispatches(g) /\ q \in Members(g)' =>
            q \in Members(g) \/ (g = d /\ q = r)
      BY <1>9, <1>10, Zenon
    <3>2. Members(e) \cap Members(f) = {} BY <2>2, Zenon DEF IInv, Apart
    <3> QED BY <1>12, <2>2, <3>1, <3>2, Zenon
  <2> QED BY <1>11, <2>2, Zenon DEF Apart
<1>16. OpenOK'
  <2>1. CASE open' = NoBatch BY <2>1 DEF OpenOK, NoBatch
  <2>2. CASE open' = [batch |-> d, tokens |-> open.tokens + n]
    <3>1. open'.batch = d /\ open'.tokens = open.tokens + n BY <2>2, Zenon
    <3>2. \A e \in Request : open'.batch = e =>
            /\ pc'[e] = "slot" /\ tries'[e] = 0 /\ open'.tokens = TokensOf(e)'
      BY <1>3, <1>4, <1>9, <3>1, Zenon
    <3> QED BY <1>2, <3>1, <3>2, Zenon DEF OpenOK
  <2> QED BY <1>8, <2>1, <2>2, Zenon
<1>17. CacheOK' BY <1>4, Zenon DEF CacheOK, IInv
<1>18. SingleFlight'
  BY <1>1, <1>4, <1>13, FlightKept, Zenon DEF Raised, Works, AtWork, Owner, MyKey, Frame
<1>19. DispatcherAtWork'
  <2> SUFFICES ASSUME NEW q \in Request, pc'[q] = "await", fut'[q] = None
               PROVE  \E e \in Request : q \in Members(e)' /\ Dispatches(e)'
    BY Zenon DEF DispatcherAtWork, Dispatches
  <2>1. CASE q = r BY <1>2, <1>3, <1>9, <1>11, <2>1, Zenon DEF Dispatches
  <2>2. CASE q # r
    <3>1. PICK e \in Request : q \in Members(e) /\ Dispatches(e)
      BY <1>4, <2>2, Zenon DEF IInv, DispatcherAtWork, Dispatches
    <3> HIDE DEF Members, Dispatches
    <3> QED BY <1>9, <1>10, <1>11, <3>1, Zenon
  <2> QED BY <2>1, <2>2, Zenon
<1>20. BatchFits'
  <2>1. Len(batch'[d]) <= RawCap /\ TokensOf(d)' <= TokenLimit
    <3>1. Len(batch[d]) \in Nat BY <1>1, <1>2, Typed
    <3> QED BY <1>2, <1>3, <1>9, <3>1, LimitAssumption
  <2> QED BY <1>2, <1>5, <1>13, <2>1, FitsKept, Zenon DEF BatchFits
<1>21. ASSUME NEW e \in Request PROVE BatchOK(e)'
  <2>1. CASE e = d
    <3>1. fut'[r] = None BY <1>1, <1>4, Zenon DEF FutOK
    <3>2. Dispatches(d) BY <1>3, Zenon DEF Dispatches
    <3>3. \A m \in Members(d) \cup {r} : text'[m] # None /\ fut'[m] = None
      BY <1>3, <1>4, <1>6, <3>1, <3>2, Zenon DEF BatchOK
    <3>4. \A m \in Members(d) \cup {r} : m = d \/ pc'[m] = "await"
      BY <1>3, <1>4, <3>2, Zenon DEF BatchOK
    <3>5. d \in Members(d) BY <1>3, <3>2, Zenon DEF BatchOK
    <3> QED BY <1>9, <2>1, <3>3, <3>4, <3>5, Zenon DEF BatchOK
  <2>2. CASE e # d
    <3>1. BatchOK(e) /\ Members(e) \subseteq Request BY Given, Zenon
    <3>2. Dispatches(e) => \A m \in Members(e) : pc'[m] = pc[m]
      BY <1>4, <1>12, <3>1, Zenon
    <3> QED BY <1>4, <1>5, <1>11, <1>13, <2>2, <3>1, <3>2, BatchKept, Zenon
  <2> QED BY <2>1, <2>2, Zenon
<1>22. RequestOK(r)'
  BY <1>1, <1>4, Zenon DEF RequestOK, CallOK, JoinOK, FutOK, AtWork
<1>23. \A q \in Request : RequestOK(q)' BY <1>13, <1>22, FrameOK, Zenon
<1> QED BY <1>14, <1>15, <1>16, <1>17, <1>18, <1>19, <1>20, <1>21, <1>23, Zenon DEF IInv

\* A new batch has the request that dispatches it.
LEMMA EnqueueNewIInv ==
    ASSUME IInv, NEW r \in Request, NEW cap \in 1..RawCap, EnqueueNew(r, cap)
    PROVE  IInv'
<1> DEFINE n == TokenCount(text[r])
<1>1. /\ TypeOK /\ CallOK(r) /\ JoinOK(r) /\ FutOK(r) /\ pc[r] = "count"
  BY Given, Zenon DEF EnqueueNew
<1>2. /\ pc'[r] = "slot" /\ \A q \in Request : q # r => pc'[q] = pc[q]
      /\ UNCHANGED <<cache, flight, joined, text, seen, tries, fut, answer>>
  BY <1>1, GotoAt, Zenon DEF EnqueueNew, registry
<1>3. batch'[r] = <<r>> /\ \A e \in Request : e # r => batch'[e] = batch[e]
  BY <1>1, Zenon DEF EnqueueNew, TypeOK
<1>4. text[r] # None /\ tries[r] = 0 BY <1>1, Zenon DEF CallOK
<1>5. /\ Members(r)' = {r} /\ Len(batch'[r]) = 1 /\ TokensOf(r)' = n /\ n \in Nat
  BY <1>1, <1>2, <1>3, <1>4, TokensOne, Zenon
<1>6. open' = NoBatch \/ (open' = [batch |-> r, tokens |-> n] /\ ~(n >= TokenLimit))
  BY DEF EnqueueNew, SealIfFull
<1> HIDE DEF n
<1>7. \A e \in Request : e # r => Members(e)' = Members(e) /\ (Dispatches(e)' <=> Dispatches(e))
  BY <1>2, <1>3, Zenon DEF Members, Dispatches
<1>8. \A e \in Request : Dispatches(e) => r \notin Members(e) BY <1>1, NotIn, Zenon
<1>9. TextsStay /\ \A q \in Request : q # r => Frame(q)
  BY <1>2, Zenon DEF TextsStay, Frame
<1>10. TypeOK'
  <2>1. <<r>> \in Seq(Request) OBVIOUS
  <2>2. batch' \in [Request -> Seq(Request)] BY <1>1, <2>1, Zenon DEF EnqueueNew, TypeOK
  <2>3. open' \in [batch : Request \cup {None}, tokens : 0..TokenLimit]
    BY <1>5, <1>6, LimitAssumption DEF NoBatch
  <2> QED BY <1>1, <1>2, <2>2, <2>3, Zenon DEF EnqueueNew, TypeOK, Goto
<1>11. Apart'
  <2> HIDE DEF Members, Dispatches
  <2>1. ASSUME NEW e \in Request, NEW f \in Request, e # f, Dispatches(e)', Dispatches(f)'
        PROVE  Members(e)' \cap Members(f)' = {}
    <3>1. CASE e = r BY <1>5, <1>7, <1>8, <2>1, <3>1, Zenon
    <3>2. CASE f = r BY <1>5, <1>7, <1>8, <2>1, <3>2, Zenon
    <3>3. CASE e # r /\ f # r BY <1>7, <2>1, <3>3, Zenon DEF IInv, Apart
    <3> QED BY <3>1, <3>2, <3>3, Zenon
  <2> QED BY <2>1, Zenon DEF Apart
<1>12. OpenOK'
  <2>1. CASE open' = NoBatch BY <2>1 DEF OpenOK, NoBatch
  <2>2. CASE open' = [batch |-> r, tokens |-> n]
    <3>1. open'.batch = r /\ open'.tokens = n BY <2>2, Zenon
    <3>2. \A e \in Request : open'.batch = e =>
            /\ pc'[e] = "slot" /\ tries'[e] = 0 /\ open'.tokens = TokensOf(e)'
      BY <1>2, <1>4, <1>5, <3>1, Zenon
    <3> QED BY <3>1, <3>2, Zenon DEF OpenOK
  <2> QED BY <1>6, <2>1, <2>2, Zenon
<1>13. CacheOK' BY <1>2, Zenon DEF CacheOK, IInv
<1>14. SingleFlight'
  BY <1>1, <1>2, <1>9, FlightKept, Zenon DEF Raised, Works, AtWork, Owner, MyKey, Frame
<1>15. DispatcherAtWork'
  <2> SUFFICES ASSUME NEW q \in Request, pc'[q] = "await", fut'[q] = None
               PROVE  \E e \in Request : q \in Members(e)' /\ Dispatches(e)'
    BY Zenon DEF DispatcherAtWork, Dispatches
  <2>1. PICK e \in Request : q \in Members(e) /\ Dispatches(e)
    BY <1>2, Zenon DEF IInv, DispatcherAtWork, Dispatches
  <2>2. e # r BY <1>1, <2>1, Zenon DEF Dispatches
  <2> HIDE DEF Members, Dispatches
  <2> QED BY <1>7, <2>1, <2>2, Zenon
<1>16. BatchFits'
  <2>1. Len(batch'[r]) <= RawCap /\ Len(batch'[r]) <= 1 BY <1>5, LimitAssumption
  <2> QED BY <1>3, <1>9, <2>1, FitsKept, Zenon DEF BatchFits
<1>17. ASSUME NEW e \in Request PROVE BatchOK(e)'
  <2>1. CASE e = r
    <3>1. fut'[r] = None BY <1>1, <1>2, Zenon DEF FutOK
    <3> QED BY <1>2, <1>4, <1>5, <2>1, <3>1, Zenon DEF BatchOK
  <2>2. CASE e # r
    <3>1. BatchOK(e) /\ Members(e) \subseteq Request BY Given, Zenon
    <3>2. Dispatches(e) => \A m \in Members(e) : pc'[m] = pc[m]
      BY <1>2, <1>8, <3>1, Zenon
    <3> QED BY <1>2, <1>3, <1>7, <1>9, <2>2, <3>1, <3>2, BatchKept, Zenon
  <2> QED BY <2>1, <2>2, Zenon
<1>18. RequestOK(r)'
  BY <1>1, <1>2, Zenon DEF RequestOK, CallOK, JoinOK, FutOK, AtWork
<1>19. \A q \in Request : RequestOK(q)' BY <1>9, <1>18, FrameOK, Zenon
<1> QED BY <1>10, <1>11, <1>12, <1>13, <1>14, <1>15, <1>16, <1>17, <1>19, Zenon DEF IInv

----------------------------------------------------------------------------
\* A step of the requests in S: a batch is inside of S or apart from it, and
\* nobody in S waits for a batch afterwards.
Group(S) ==
    /\ \A q \in Request : q \notin S => Frame(q) /\ batch'[q] = batch[q]
    /\ \A q \in Request : q \in S => /\ ~Dispatches(q)'
                                     /\ batch'[q] \in {batch[q], <<>>}
                                     /\ ~(pc'[q] = "await" /\ fut'[q] = None)
    /\ \A d \in Request : Dispatches(d) => IF d \in S THEN Members(d) \subseteq S
                                           ELSE Members(d) \cap S = {}
    /\ open' = NoBatch \/ (open' = open /\ open.batch \notin S)

LEMMA GroupKept ==
    ASSUME IInv, TextsStay, NEW S, Group(S)
    PROVE  /\ Apart' /\ OpenOK' /\ DispatcherAtWork' /\ BatchFits'
           /\ \A d \in Request : BatchOK(d)' /\ (d \notin S => RequestOK(d)')
<1>1. \A d \in Request : Dispatches(d)' => /\ Dispatches(d) /\ d \notin S
                                           /\ batch'[d] = batch[d]
  BY Zenon DEF Group, Frame, Dispatches
<1>2. Apart' BY <1>1, ApartKept, Zenon
<1>3. OpenOK'
  <2>1. open.batch # None => open.batch \in Request BY DEF IInv, TypeOK
  <2>2. CASE open' = NoBatch BY <2>2 DEF OpenOK, NoBatch
  <2>3. CASE open' = open /\ open.batch \notin S
    <3>1. open.batch # None =>
             /\ pc'[open.batch] = pc[open.batch] /\ tries'[open.batch] = tries[open.batch]
             /\ batch'[open.batch] = batch[open.batch]
      BY <2>1, <2>3, Zenon DEF Frame, Group
    <3> QED BY <2>3, <3>1, OpenKept, Zenon
  <2> QED BY <2>2, <2>3, Zenon DEF Group
<1>4. DispatcherAtWork'
  <2>1. ASSUME NEW q \in Request, pc'[q] = "await", fut'[q] = None
        PROVE  /\ pc[q] = "await" /\ fut[q] = None
               /\ \A d \in Request : Dispatches(d) /\ q \in Members(d) =>
                                       Dispatches(d)' /\ batch'[d] = batch[d]
    <3>1. q \notin S BY <2>1, Zenon DEF Group
    <3>2. pc[q] = "await" /\ fut[q] = None BY <2>1, <3>1, Zenon DEF Group, Frame
    <3>3. ASSUME NEW d \in Request, Dispatches(d), q \in Members(d)
          PROVE  Dispatches(d)' /\ batch'[d] = batch[d]
      <4>1. d \notin S BY <3>1, <3>3, Zenon DEF Group
      <4> QED BY <3>3, <4>1, Zenon DEF Group, Frame, Dispatches
    <3> QED BY <3>2, <3>3, Zenon
  <2> QED BY <2>1, AwaitKept, Zenon
<1>5. \A d \in Request : batch'[d] \in {batch[d], <<>>} BY Zenon DEF Group
<1>6. BatchFits' BY <1>5, FitsKept, Zenon DEF BatchFits
<1>7. ASSUME NEW d \in Request PROVE BatchOK(d)'
  <2>1. Members(d) \subseteq Request BY Given, Zenon
  <2>2. Dispatches(d)' => \A m \in Members(d) : pc'[m] = pc[m] /\ fut'[m] = fut[m]
    BY <1>1, <2>1, Zenon DEF Group, Frame
  <2> QED BY <1>1, <1>5, <2>2, BatchKept, Zenon
<1>8. ASSUME NEW d \in Request, d \notin S PROVE RequestOK(d)'
  BY <1>8, FrameOK, Zenon DEF Group
<1> QED BY <1>2, <1>3, <1>4, <1>6, <1>7, <1>8, Zenon

\* An owner that has no batch to send or to wait for leaves with its joiners.
Leaving(r) == pc[r] = "lookup" \/ (pc[r] = "await" /\ fut[r] # None)

LEMMA JoinersIn ==
    ASSUME IInv, NEW r \in Request, Leaving(r)
    PROVE  \A q \in Joiners(r) : /\ q \in Request /\ q # r /\ pc[q] = "join"
                                 /\ text[q] # None /\ fut[q] = None /\ answer[q] = None
                                 /\ MyKey(q) = MyKey(r) /\ MyKey(q) # None
<1> SUFFICES ASSUME NEW q \in Request, joined[q] = r
             PROVE  /\ q # r /\ pc[q] = "join"
                    /\ text[q] # None /\ fut[q] = None /\ answer[q] = None
                    /\ MyKey(q) = MyKey(r) /\ MyKey(q) # None
  BY Zenon DEF Joiners
<1>1. CallOK(q) /\ JoinOK(q) /\ FutOK(q) BY Given, Zenon
<1>2. joined[q] # None BY RequestAssumption, Zenon
<1>3. pc[q] = "join" BY <1>1, <1>2, Zenon DEF JoinOK
<1> QED BY <1>1, <1>2, <1>3, Zenon DEF CallOK, JoinOK, FutOK, Leaving

LEMMA CompleteOwnIInv ==
    ASSUME IInv, NEW r \in Request, Works(r), Leaving(r),
           NEW v \in Text \cup {Failed}, CompleteOwn(r, v),
           fut' \in [Request -> Resolution], fut'[r] = None,
           \A q \in Request : q # r => fut'[q] = fut[q],
           cache' = cache, open' = open, batch' = batch, text' = text
    PROVE  IInv'
<1> DEFINE S == {r} \cup Joiners(r)
           w == [q \in Request |-> v]
<1>1. /\ TypeOK /\ CallOK(r) /\ JoinOK(r) /\ FutOK(r) /\ open.batch # r
  BY Given, NotOpen, Zenon DEF Leaving
<1>2. \A q \in S : /\ q \in Request /\ pc[q] \in {"lookup", "await", "join"}
                   /\ text[q] # None /\ answer[q] = None
                   /\ pc[q] = "await" => fut[q] # None
  BY <1>1, JoinersIn, Zenon DEF Leaving, CallOK
<1>3. S \subseteq Request BY <1>2, Zenon
<1>4. Finish(S, w) BY Zenon DEF CompleteOwn
<1>5. \A q \in Request : w[q] = v OBVIOUS
<1>6. pc' = [q \in Request |-> IF q \in S THEN "done" ELSE pc[q]] BY Zenon DEF CompleteOwn
<1>7. \A q \in Request : q \in S => fut'[q] = None BY JoinersIn, Zenon
<1>8. r \in S /\ \A q \in S : q = r \/ pc[q] = "join" BY JoinersIn, Zenon
<1>9. \A q \in Request : q \notin S => fut'[q] = fut[q] BY Zenon
<1> HIDE DEF S, w
<1>10. \A q \in Request : IF q \in S THEN Leaves(q, v) /\ pc'[q] = "done"
                          ELSE Stays(q) /\ pc'[q] = pc[q]
  <2>1. \A q \in Request : IF q \in S THEN Leaves(q, w[q]) ELSE Stays(q)
    BY <1>4, FinishAt, Zenon
  <2>2. \A q \in Request : pc'[q] = IF q \in S THEN "done" ELSE pc[q] BY <1>6, Zenon
  <2> QED BY <1>5, <2>1, <2>2, Zenon
<1>11. TextsStay BY Zenon DEF TextsStay
<1>12. \A q \in Request : q \notin S => Frame(q) BY <1>9, <1>10, Zenon DEF Frame, Stays
<1>13. \A q \in Request : Dispatches(q) => q \notin S BY <1>2, Zenon DEF Dispatches
<1>14. ASSUME NEW d \in Request, Dispatches(d) PROVE Members(d) \cap S = {}
  BY <1>2, <1>14, Given, Zenon DEF BatchOK, Dispatches
<1>15. open.batch \notin S
  <2>1. open.batch # None => pc[open.batch] = "slot" BY Zenon DEF IInv, OpenOK
  <2> QED BY <1>2, <2>1, RequestAssumption, Zenon
<1>16. Group(S)
  <2>1. \A q \in Request : q \in S => ~Dispatches(q)' /\ pc'[q] # "await"
    BY <1>10, Zenon DEF Dispatches
  <2> HIDE DEF Members
  <2> QED BY <1>12, <1>13, <1>14, <1>15, <2>1, Zenon DEF Group
<1>17. /\ Apart' /\ OpenOK' /\ DispatcherAtWork' /\ BatchFits'
       /\ \A d \in Request : BatchOK(d)' /\ (d \notin S => RequestOK(d)')
  BY <1>11, <1>16, GroupKept, Zenon
<1>18. MyKey(r) \in Key /\ flight[MyKey(r)] = r
  BY <1>1, Keyed, Zenon DEF Works, Owner, Looks, IInv, SingleFlight, CallOK, AtWork
<1>19. /\ flight' \in [Key -> Request \cup {None}] /\ flight'[MyKey(r)] = None
       /\ \A k \in Key : k # MyKey(r) => flight'[k] = flight[k]
  BY <1>1, <1>18, Zenon DEF TypeOK, CompleteOwn
<1>20. TypeOK'
  <2>1. pc' \in [Request -> {"idle", "lookup", "count", "await", "slot", "call",
                             "write", "join", "done", "raised"}]
    BY <1>1, <1>6, Zenon DEF TypeOK
  <2>2. \A q \in Request : q \in S => w[q] \in Resolution BY <1>5, Zenon DEF Resolution
  <2>3. /\ answer' \in [Request -> Resolution] /\ seen' \in [Request -> Mode \cup {"off"}]
        /\ joined' \in [Request -> Request \cup {None}]
        /\ tries' \in [Request -> 0..MaxRetries]
    BY <1>1, <1>4, <2>2, FinishTyped, Zenon
  <2> QED BY <1>1, <1>19, <2>1, <2>3, Zenon DEF TypeOK
<1>21. CacheOK' BY Zenon DEF CacheOK, IInv
<1>22. SingleFlight'
  <2>1. ASSUME NEW q \in Request, AtWork(q)', Owner(q)' PROVE flight'[MyKey(q)'] = q
    <3>1. q \notin S BY <1>10, <2>1, Zenon DEF AtWork
    <3>2. Works(q) /\ MyKey(q)' = MyKey(q)
      BY <1>12, <2>1, <3>1, Zenon DEF Frame, Works, AtWork, Owner, MyKey
    <3>3. text[q] # None BY <3>2, Given, Zenon DEF Works, AtWork, CallOK
    <3>4. MyKey(q) \in Key /\ flight[MyKey(q)] = q
      BY <1>1, <3>2, <3>3, Keyed, Zenon DEF Works, Owner, Looks, IInv, SingleFlight
    <3> QED BY <1>8, <1>18, <1>19, <3>1, <3>2, <3>4, Zenon
  <2>2. ASSUME NEW k \in Key, flight'[k] # None
        PROVE  /\ MyKey(flight[k])' = k
               /\ (AtWork(flight[k])' /\ Owner(flight[k])') \/ Raised(flight[k])'
    <3>1. k # MyKey(r) /\ flight'[k] = flight[k] BY <1>19, <2>2, Zenon
    <3>2. PICK q \in Request : q = flight[k] BY <1>1, <2>2, <3>1, Zenon DEF TypeOK
    <3>3. MyKey(q) = k /\ (Works(q) \/ Raised(q))
      BY <2>2, <3>1, <3>2, Zenon DEF IInv, SingleFlight, Works
    <3>4. q # r BY <3>1, <3>3, Zenon
    <3>5. q \notin S
      BY <1>2, <1>8, <3>3, <3>4, Zenon DEF Raised, Works, AtWork
    <3>6. MyKey(q)' = k /\ ((AtWork(q)' /\ Owner(q)') \/ Raised(q)')
      BY <1>12, <3>3, <3>5, Zenon DEF Frame, Raised, Works, AtWork, Owner, MyKey
    <3> QED BY <3>1, <3>2, <3>6, Zenon DEF Raised, AtWork, Owner, MyKey
  <2> QED BY <2>1, <2>2, Zenon DEF SingleFlight
<1>23. ASSUME NEW q \in Request, q \in S PROVE RequestOK(q)'
  <2>1. pc'[q] = "done" /\ Leaves(q, v) /\ fut'[q] = None /\ text'[q] # None
    BY <1>2, <1>7, <1>10, <1>23, Zenon
  <2>2. v # None BY TextAssumption, Zenon
  <2>3. CallOK(q)' BY <2>1, <2>2, Zenon DEF CallOK, Leaves
  <2>4. JoinOK(q)' BY <2>1, Zenon DEF JoinOK, Leaves
  <2>5. FutOK(q)' BY <2>1, Zenon DEF FutOK
  <2> QED BY <2>3, <2>4, <2>5, Zenon DEF RequestOK
<1> QED BY <1>17, <1>20, <1>21, <1>22, <1>23, Zenon DEF IInv

\* What an owner finds in the cache is the vector of its key.
LEMMA HitAlike ==
    ASSUME IInv, NEW r \in Request, Hit(r)
    PROVE  /\ Works(r) /\ cache[MyKey(r)] \in Text /\ Alike(cache[MyKey(r)], text[r])
<1>1. /\ TypeOK /\ CallOK(r) BY Given, Zenon
<1>2. Works(r) BY <1>1, Zenon DEF Hit, Works, CallOK, AtWork
<1>3. MyKey(r) \in Key /\ MyKey(r) # None
  BY <1>1, <1>2, Keyed, Zenon DEF Hit, Works, Owner, Looks, CallOK
<1>4. cache[MyKey(r)] \in Text BY <1>1, <1>3, Zenon DEF TypeOK, Hit
<1>5. KeyOf[cache[MyKey(r)]] = MyKey(r) BY <1>3, Zenon DEF IInv, CacheOK, Hit
<1>6. KeyOf[text[r]] = MyKey(r) BY Zenon DEF MyKey
<1> QED BY <1>2, <1>3, <1>4, <1>5, <1>6, Zenon DEF Alike, DedupKey

LEMMA HitIInv == ASSUME IInv, NEW r \in Request, Hit(r) PROVE IInv'
<1>1. /\ TypeOK /\ FutOK(r) BY Given, Zenon
<1>2. Works(r) /\ cache[MyKey(r)] \in Text BY HitAlike, Zenon
<1>3. pc[r] = "lookup" /\ fut' = fut /\ CompleteOwn(r, cache[MyKey(r)])
      /\ cache' = cache /\ open' = open /\ batch' = batch /\ text' = text
  BY Zenon DEF Hit
<1>4. fut'[r] = None BY <1>1, <1>3, Zenon DEF FutOK
<1>5. fut' \in [Request -> Resolution] BY <1>1, <1>3, Zenon DEF TypeOK
<1>6. Leaving(r) /\ cache[MyKey(r)] \in Text \cup {Failed} BY <1>2, <1>3, Zenon DEF Leaving
<1> QED BY <1>2, <1>3, <1>4, <1>5, <1>6, CompleteOwnIInv, Zenon

LEMMA CompleteIInv == ASSUME IInv, NEW r \in Request, Complete(r) PROVE IInv'
<1>1. TypeOK BY Given, Zenon
<1>2. /\ Works(r) /\ Leaving(r) /\ CompleteOwn(r, fut[r])
      /\ cache' = cache /\ open' = open /\ batch' = batch /\ text' = text
  BY Zenon DEF Complete, Works, AtWork, Leaving
<1>3. fut[r] \in Text \cup {Failed} BY <1>1, Zenon DEF Complete, TypeOK, Resolution
<1>4. /\ fut' \in [Request -> Resolution] /\ fut'[r] = None
      /\ \A q \in Request : q # r => fut'[q] = fut[q]
  BY <1>1, Zenon DEF Complete, TypeOK, Resolution
<1> QED BY <1>2, <1>3, <1>4, CompleteOwnIInv, Zenon

----------------------------------------------------------------------------
\* What the fan-out may give to the members: an error or a vector of their key.
Vectors(r, v) == \A m \in Members(r) : /\ v[m] \in Text \cup {Failed}
                                       /\ v[m] = Failed \/ Alike(v[m], text[m])

LEMMA FanOutIInv ==
    ASSUME IInv, NEW r \in Request, Dispatches(r), NEW v, Vectors(r, v),
           NEW write \in BOOLEAN, FanOut(r, v, write),
           batch' \in [Request -> Seq(Request)], batch'[r] \in {batch[r], <<>>},
           \A d \in Request : d # r => batch'[d] = batch[d],
           open' = NoBatch \/ (open' = open /\ open.batch # r),
           cache' = cache, flight' = flight, text' = text
    PROVE  IInv'
<1> DEFINE S == Members(r)
           L == Later(r, write)
<1>1. /\ TypeOK /\ S \subseteq Request /\ r \in S
      /\ \A m \in S : /\ text[m] # None /\ fut[m] = None
                      /\ m = r \/ pc[m] = "await"
  BY Given, Zenon DEF BatchOK
<1>2. \A m \in S : /\ pc[m] \in {"slot", "call", "await"} /\ answer[m] = None
                   /\ CallOK(m) /\ JoinOK(m)
  BY <1>1, Given, Zenon DEF Dispatches, CallOK
<1>3. /\ L \subseteq S /\ \A m \in S : m \in L <=> (Owner(m) \/ (m = r /\ write))
  BY Zenon DEF Later
<1>4. \A m \in S : /\ v[m] \in Resolution /\ v[m] # None
                   /\ v[m] = Failed \/ Alike(v[m], text[m])
  BY TextAssumption, Zenon DEF Vectors, Resolution
<1>5. /\ fut' = [m \in Request |-> IF m \in L THEN v[m] ELSE fut[m]]
      /\ Finish(S \ L, v)
      /\ pc' = [m \in Request |-> IF m \in S \ L THEN "done"
                                  ELSE IF m # r THEN pc[m]
                                  ELSE IF write THEN "write" ELSE "await"]
  BY Zenon DEF FanOut
<1> HIDE DEF S, L
<1>6. \A q \in Request : IF q \in S \ L THEN Leaves(q, v[q]) ELSE Stays(q)
  BY <1>5, FinishAt, Zenon
<1>7. \A m \in S : m \in L => /\ Stays(m) /\ fut'[m] = v[m]
                              /\ pc'[m] = IF m = r /\ write THEN "write" ELSE "await"
  <2>1. \A m \in S : m \in L => Stays(m) /\ fut'[m] = v[m] BY <1>1, <1>5, <1>6, Zenon
  <2>2. \A m \in S : m \in L => pc'[m] = IF m = r /\ write THEN "write" ELSE "await"
    BY <1>1, <1>5, Zenon
  <2> QED BY <2>1, <2>2, Zenon
<1>8. \A m \in S : m \notin L => Leaves(m, v[m]) /\ fut'[m] = None /\ pc'[m] = "done"
  BY <1>1, <1>5, <1>6, Zenon
<1>9. \A q \in Request : q \notin S => Frame(q)
  <2> SUFFICES ASSUME NEW q \in Request, q \notin S PROVE Frame(q) BY Zenon
  <2>1. q # r /\ q \notin L BY <1>1, <1>3, Zenon
  <2>2. pc'[q] = pc[q] /\ fut'[q] = fut[q] BY <1>5, <2>1, Zenon
  <2>3. Stays(q) BY <1>6, Zenon
  <2> QED BY <2>2, <2>3, Zenon DEF Stays, Frame
<1>10. TextsStay BY Zenon DEF TextsStay
<1>11. TypeOK'
  <2>1. pc' \in [Request -> {"idle", "lookup", "count", "await", "slot", "call",
                             "write", "join", "done", "raised"}]
    BY <1>1, <1>5, Zenon DEF TypeOK
  <2>2. fut' \in [Request -> Resolution] BY <1>1, <1>3, <1>4, <1>5, Zenon DEF TypeOK
  <2>3. \A q \in Request : q \in S \ L => v[q] \in Resolution BY <1>4, Zenon
  <2>4. /\ answer' \in [Request -> Resolution] /\ seen' \in [Request -> Mode \cup {"off"}]
        /\ joined' \in [Request -> Request \cup {None}]
        /\ tries' \in [Request -> 0..MaxRetries]
    BY <1>1, <1>5, <2>3, FinishTyped, Zenon
  <2>5. open' \in [batch : Request \cup {None}, tokens : 0..TokenLimit]
    BY <1>1, LimitAssumption DEF TypeOK, NoBatch
  <2> QED BY <1>1, <2>1, <2>2, <2>4, <2>5, Zenon DEF TypeOK
<1>12. ASSUME NEW d \in Request, Dispatches(d), d # r
       PROVE  Members(d) \cap S = {} /\ d \notin S
  <2> HIDE DEF Members
  <2>1. Members(d) \cap Members(r) = {} BY <1>12, Zenon DEF IInv, Apart
  <2>2. d \in Members(d) BY <1>12, Given, Zenon DEF BatchOK
  <2> QED BY <2>1, <2>2, Zenon DEF S
<1>13. open' = NoBatch \/ (open' = open /\ open.batch \notin S)
  <2>1. open.batch # None => pc[open.batch] = "slot" BY Zenon DEF IInv, OpenOK
  <2> QED BY <1>1, <2>1, RequestAssumption, Zenon
<1>14. Group(S)
  <2>1. \A m \in S : /\ ~Dispatches(m)' /\ ~(pc'[m] = "await" /\ fut'[m] = None)
    BY <1>4, <1>7, <1>8, Zenon DEF Dispatches
  <2>2. \A q \in Request : /\ batch'[q] \in {batch[q], <<>>}
                            /\ (q \notin S => batch'[q] = batch[q])
    BY <1>1, Zenon
  <2>3. Members(r) \subseteq S BY Zenon DEF S
  <2> HIDE DEF Members
  <2>4. \A d \in Request : Dispatches(d) => IF d \in S THEN Members(d) \subseteq S
                                            ELSE Members(d) \cap S = {}
    BY <1>12, <2>3, <1>1, Zenon
  <2> QED BY <1>9, <1>13, <2>1, <2>2, <2>4, Zenon DEF Group
<1>15. /\ Apart' /\ OpenOK' /\ DispatcherAtWork' /\ BatchFits'
       /\ \A d \in Request : BatchOK(d)' /\ (d \notin S => RequestOK(d)')
  BY <1>10, <1>14, GroupKept, Zenon
<1>16. CacheOK' BY Zenon DEF CacheOK, IInv
<1>17. \A m \in S : m \in L => (Owner(m)' <=> Owner(m)) BY <1>7, Zenon DEF Owner, MyKey, Stays
<1>18. SingleFlight'
  <2>1. ASSUME NEW q \in Request
        PROVE  /\ Works(q)' => Works(q)
               /\ Works(q) => Works(q)'
               /\ Raised(q) => Raised(q)'
    <3>1. CASE q \notin S
      BY <1>9, <3>1, Zenon DEF Frame, Raised, Works, AtWork, Owner, MyKey
    <3>2. CASE q \in S
      <4>1. ~Raised(q) /\ AtWork(q) BY <1>2, <3>2, Zenon DEF Raised, AtWork
      <4>2. CASE q \in L
        <5>1. AtWork(q)' BY <1>7, <3>2, <4>2, Zenon DEF AtWork
        <5> QED BY <1>17, <3>2, <4>1, <4>2, <5>1, Zenon DEF Works
      <4>3. CASE q \notin L
        <5>1. ~AtWork(q)' BY <1>8, <3>2, <4>3, Zenon DEF AtWork
        <5> QED BY <1>3, <3>2, <4>1, <4>3, <5>1, Zenon DEF Works
      <4> QED BY <4>2, <4>3, Zenon
    <3> QED BY <3>1, <3>2, Zenon
  <2> QED BY <1>10, <2>1, FlightKept, Zenon
<1>19. ASSUME NEW m \in S PROVE RequestOK(m)'
  <2>1. text'[m] # None BY <1>1, Zenon
  <2>2. CASE m \in L
    <3>1. pc'[m] = "await" => Owner(m)'
      BY <1>3, <1>7, <1>17, <2>2, Zenon
    <3>2. /\ Stays(m) /\ fut'[m] = v[m] /\ v[m] # None /\ pc'[m] \in {"await", "write"}
      BY <1>4, <1>7, <2>2, Zenon
    <3>3. CallOK(m)' BY <1>2, <2>1, <3>2, Zenon DEF CallOK, Stays, AtWork
    <3>4. JoinOK(m)' BY <1>2, <3>2, Zenon DEF JoinOK, Stays
    <3>5. FutOK(m)' BY <1>4, <3>1, <3>2, Zenon DEF FutOK
    <3> QED BY <3>3, <3>4, <3>5, Zenon DEF RequestOK
  <2>3. CASE m \notin L
    <3>1. Leaves(m, v[m]) /\ v[m] # None /\ fut'[m] = None /\ pc'[m] = "done"
      BY <1>4, <1>8, <2>3, Zenon
    <3>2. CallOK(m)' BY <2>1, <3>1, Zenon DEF CallOK, Leaves
    <3>3. JoinOK(m)' BY <3>1, Zenon DEF JoinOK, Leaves
    <3>4. FutOK(m)' BY <3>1, Zenon DEF FutOK
    <3> QED BY <3>2, <3>3, <3>4, Zenon DEF RequestOK
  <2> QED BY <2>2, <2>3, Zenon
<1>20. \A q \in Request : RequestOK(q)' BY <1>15, <1>19, Zenon
<1> QED BY <1>11, <1>15, <1>16, <1>18, <1>20, Zenon DEF IInv

LEMMA FailsIInv == ASSUME IInv, NEW r \in Request, Fails(r) PROVE IInv'
<1> DEFINE v == [m \in Request |-> Failed]
<1>1. /\ TypeOK /\ Members(r) \subseteq Request BY Given, Zenon
<1>2. Dispatches(r) /\ FanOut(r, v, FALSE) /\ cache' = cache /\ flight' = flight /\ text' = text
  BY Zenon DEF Fails, Dispatches
<1>3. \A m \in Request : v[m] = Failed OBVIOUS
<1> HIDE DEF v
<1>4. Vectors(r, v) BY <1>1, <1>3, Zenon DEF Vectors
<1>5. /\ batch'[r] = <<>> /\ \A d \in Request : d # r => batch'[d] = batch[d]
  BY <1>1, Zenon DEF Fails, TypeOK
<1>6. batch' \in [Request -> Seq(Request)]
  <2>1. <<>> \in Seq(Request) OBVIOUS
  <2> QED BY <1>1, <2>1, Zenon DEF Fails, TypeOK
<1>7. open' = NoBatch \/ (open' = open /\ open.batch # r) BY Zenon DEF Fails, Close
<1> QED BY <1>2, <1>4, <1>5, <1>6, <1>7, FanOutIInv, Zenon

LEMMA FanVectors ==
    ASSUME IInv, NEW r \in Request
    PROVE  Vectors(r, [m \in Request |-> IF m \in Members(r) THEN FirstText(r, text[m])
                                         ELSE None])
<1> DEFINE v == [m \in Request |-> IF m \in Members(r) THEN FirstText(r, text[m])
                                   ELSE None]
<1>1. /\ TypeOK /\ BatchOK(r) /\ Members(r) \subseteq Request BY Given, Zenon
<1>2. ASSUME NEW m \in Members(r) PROVE v[m] = FirstText(r, text[m])
  <2> HIDE DEF Members, FirstText
  <2> QED BY <1>1, Zenon
<1> HIDE DEF v
<1>3. \A m \in Members(r) : v[m] \in Text /\ Alike(v[m], text[m])
  BY <1>1, <1>2, FirstTextIs, Zenon DEF BatchOK
<1>4. Vectors(r, v) BY <1>3, Zenon DEF Vectors
<1> QED BY <1>4, Zenon DEF v

LEMMA FanIInv == ASSUME IInv, NEW r \in Request, Fan(r) PROVE IInv'
<1> DEFINE v == [m \in Request |-> IF m \in Members(r) THEN FirstText(r, text[m])
                                   ELSE None]
<1>1. TypeOK /\ open.batch # r BY Given, NotOpen, Zenon DEF Fan
<1>2. Vectors(r, v) BY FanVectors, Zenon
<1>3. FanOut(r, v, TRUE) BY Zenon DEF Fan
<1> HIDE DEF v
<1>4. /\ Dispatches(r) /\ cache' = cache /\ flight' = flight /\ text' = text
      /\ open' = open /\ batch' = batch
  BY Zenon DEF Fan, Dispatches
<1>5. batch' \in [Request -> Seq(Request)] BY <1>1, <1>4, Zenon DEF TypeOK
<1> QED BY <1>1, <1>2, <1>3, <1>4, <1>5, FanOutIInv, Zenon

\* The cache gets vectors of their keys only.
LEMMA WriteIInv == ASSUME IInv, NEW r \in Request, Write(r) PROVE IInv'
<1>1. /\ TypeOK /\ CallOK(r) /\ JoinOK(r) /\ FutOK(r) /\ BatchOK(r)
      /\ open.batch # r /\ pc[r] = "write"
  BY Given, NotOpen, Zenon DEF Write
<1>2. fut[r] # None /\ text[r] # None /\ joined[r] = None
  BY <1>1, Zenon DEF FutOK, CallOK, JoinOK
<1>3. /\ batch'[r] = <<>> /\ \A d \in Request : d # r => batch'[d] = batch[d]
  BY <1>1, Zenon DEF Write, TypeOK
<1>4. batch' \in [Request -> Seq(Request)]
  <2>1. <<>> \in Seq(Request) OBVIOUS
  <2> QED BY <1>1, <2>1, Zenon DEF Write, TypeOK
<1>5. flight' = flight /\ open' = open /\ text' = text BY Zenon DEF Write
<1>6. TextsStay BY <1>5, Zenon DEF TextsStay
<1>7. /\ cache' \in [Key -> Text \cup {None}]
      /\ \A k \in Key : cache'[k] # None => KeyOf[cache'[k]] = k
  <2>1. Sent(r) \subseteq Text BY <1>1, FirstTextIs, Zenon DEF BatchOK, Sent
  <2>2. PICK ts \in SUBSET Text :
          cache' = [k \in Key |-> LET new == {t \in ts : KeyOf[t] = k}
                                  IN IF new = {} THEN cache[k]
                                     ELSE CHOOSE t \in new : TRUE]
    <3>1. PICK ts \in IF seen[r] = "off" THEN {{}} ELSE SUBSET Sent(r) :
            cache' = [k \in Key |-> LET new == {t \in ts : KeyOf[t] = k}
                                    IN IF new = {} THEN cache[k]
                                       ELSE CHOOSE t \in new : TRUE]
      BY Zenon DEF Write
    <3>2. ts \subseteq Text
      <4> HIDE DEF Sent
      <4> QED BY <2>1, <3>1, Zenon
    <3> QED BY <3>1, <3>2, Zenon
  <2>3. ASSUME NEW k \in Key
        PROVE  cache'[k] \in Text \cup {None} /\ (cache'[k] # None => KeyOf[cache'[k]] = k)
    <3> DEFINE new == {t \in ts : KeyOf[t] = k}
               c == CHOOSE t \in new : TRUE
    <3>1. cache'[k] = IF new = {} THEN cache[k] ELSE c BY <2>2, Zenon
    <3>2. new # {} => c \in new BY Zenon
    <3>3. \A t \in new : t \in Text /\ KeyOf[t] = k BY Zenon
    <3>4. cache[k] \in Text \cup {None} /\ (cache[k] # None => KeyOf[cache[k]] = k)
      BY <1>1, Zenon DEF TypeOK, IInv, CacheOK
    <3> HIDE DEF c, new
    <3> QED BY <3>1, <3>2, <3>3, <3>4, Zenon
  <2> QED BY <2>2, <2>3, Zenon
<1>8. CacheOK' BY <1>7, Zenon DEF CacheOK
<1>9. /\ \A q \in Request : q # r => Frame(q)
      /\ TypeOK' /\ RequestOK(r)'
      /\ pc'[r] = "done" \/ (pc'[r] = "await" /\ fut'[r] # None)
      /\ Works(r)' <=> Works(r)
      /\ ~Raised(r)
  <2>1. CASE Owner(r)
    <3>1. /\ pc'[r] = "await" /\ \A q \in Request : q # r => pc'[q] = pc[q]
          /\ joined' = joined /\ seen' = seen /\ tries' = tries /\ fut' = fut
          /\ answer' = answer
      BY <1>1, <2>1, GotoAt, Zenon DEF Write
    <3>2. pc' \in [Request -> {"idle", "lookup", "count", "await", "slot", "call",
                               "write", "join", "done", "raised"}]
      <4>1. Goto(r, "await") BY <2>1, Zenon DEF Write
      <4> QED BY <1>1, <4>1, Zenon DEF TypeOK, Goto
    <3>3. TypeOK' BY <1>1, <1>4, <1>5, <1>7, <3>1, <3>2, Zenon DEF TypeOK
    <3>4. \A q \in Request : q # r => Frame(q) BY <1>5, <3>1, Zenon DEF Frame
    <3>5. Owner(r)' BY <1>5, <2>1, <3>1, Zenon DEF Owner, MyKey
    <3>6. RequestOK(r)'
      <4>1. CallOK(r)' BY <1>1, <1>5, <3>1, Zenon DEF CallOK, AtWork
      <4>2. JoinOK(r)' BY <1>2, <3>1, Zenon DEF JoinOK
      <4>3. FutOK(r)' BY <1>1, <1>5, <3>1, <3>5, Zenon DEF FutOK
      <4> QED BY <4>1, <4>2, <4>3, Zenon DEF RequestOK
    <3>7. Works(r)' /\ Works(r) BY <1>1, <2>1, <3>1, <3>5, Zenon DEF Works, AtWork
    <3> QED BY <1>1, <1>2, <3>1, <3>3, <3>4, <3>6, <3>7, Zenon DEF Raised
  <2>2. CASE ~Owner(r)
    <3>1. Finish({r}, fut) /\ pc'[r] = "done" /\ \A q \in Request : q # r => pc'[q] = pc[q]
      BY <1>1, <2>2, GotoAt, Zenon DEF Write
    <3>2. pc' \in [Request -> {"idle", "lookup", "count", "await", "slot", "call",
                               "write", "join", "done", "raised"}]
      <4>1. Goto(r, "done") BY <2>2, Zenon DEF Write
      <4> QED BY <1>1, <4>1, Zenon DEF TypeOK, Goto
    <3>3. /\ fut' \in [Request -> Resolution] /\ fut'[r] = None
          /\ \A q \in Request : q # r => fut'[q] = fut[q]
      BY <1>1, <2>2, Zenon DEF Write, TypeOK, Resolution
    <3>4. /\ answer' \in [Request -> Resolution] /\ seen' \in [Request -> Mode \cup {"off"}]
          /\ joined' \in [Request -> Request \cup {None}]
          /\ tries' \in [Request -> 0..MaxRetries]
      <4>1. \A q \in Request : q \in {r} => fut[q] \in Resolution BY <1>1, Typed, Zenon
      <4> QED BY <1>1, <3>1, <4>1, FinishTyped, Zenon
    <3>5. TypeOK' BY <1>1, <1>4, <1>5, <1>7, <3>2, <3>3, <3>4, Zenon DEF TypeOK
    <3>6. Leaves(r, fut[r]) /\ \A q \in Request : q # r => Stays(q)
      BY <3>1, FinishAt, Zenon
    <3>7. \A q \in Request : q # r => Frame(q) BY <1>5, <3>1, <3>3, <3>6, Zenon DEF Frame, Stays
    <3>8. RequestOK(r)'
      BY <1>2, <1>5, <3>1, <3>3, <3>6, Zenon DEF RequestOK, CallOK, JoinOK, FutOK, Leaves
    <3>9. ~Works(r)' /\ ~Works(r) BY <2>2, <3>1, Zenon DEF Works, AtWork
    <3> QED BY <1>1, <3>1, <3>5, <3>7, <3>8, <3>9, Zenon DEF Raised
  <2> QED BY <2>1, <2>2, Zenon
<1>10. SingleFlight'
  <2>1. \A q \in Request : q # r => /\ Works(q)' <=> Works(q)
                                    /\ Raised(q)' <=> Raised(q)
    BY <1>9, Zenon DEF Frame, Raised, Works, AtWork, Owner, MyKey
  <2> QED BY <1>5, <1>6, <1>9, <2>1, FlightKept, Zenon
<1>11. Group({r})
  <2>1. ~Dispatches(r)' BY <1>9, Zenon DEF Dispatches
  <2>2. ASSUME NEW d \in Request, Dispatches(d) PROVE d # r /\ r \notin Members(d)
    BY <1>1, <2>2, Given, Zenon DEF BatchOK, Dispatches
  <2> HIDE DEF Members, Dispatches
  <2> QED BY <1>1, <1>3, <1>5, <1>9, <2>1, <2>2, Zenon DEF Group
<1>12. /\ Apart' /\ OpenOK' /\ DispatcherAtWork' /\ BatchFits'
       /\ \A d \in Request : BatchOK(d)' /\ (d \notin {r} => RequestOK(d)')
  BY <1>6, <1>11, GroupKept, Zenon
<1>13. \A q \in Request : RequestOK(q)' BY <1>9, <1>12, Zenon
<1> QED BY <1>8, <1>9, <1>10, <1>12, <1>13, Zenon DEF IInv

----------------------------------------------------------------------------
LEMMA InitIInv == Init => IInv
<1> SUFFICES ASSUME Init PROVE IInv BY Zenon
<1>1. TypeOK
  <2>1. <<>> \in Seq(Request) /\ 0 \in 0..MaxRetries BY LimitAssumption
  <2>2. open \in [batch : Request \cup {None}, tokens : 0..TokenLimit]
    BY LimitAssumption DEF Init, NoBatch
  <2>3. None \in Resolution BY Zenon DEF Resolution
  <2> QED BY <2>1, <2>2, <2>3, Zenon DEF Init, TypeOK
<1>2. ASSUME NEW r \in Request
      PROVE  /\ pc[r] = "idle" /\ text[r] = None /\ answer[r] = None /\ seen[r] = "off"
             /\ tries[r] = 0 /\ joined[r] = None /\ fut[r] = None /\ batch[r] = <<>>
  BY Zenon DEF Init
<1>3. ASSUME NEW r \in Request PROVE Members(r) = {} /\ Len(batch[r]) = 0
  BY <1>2 DEF Members
<1>4. Apart BY <1>2, Zenon DEF Apart, Dispatches
<1>5. OpenOK BY DEF Init, OpenOK, NoBatch
<1>6. CacheOK BY Zenon DEF Init, CacheOK
<1>7. SingleFlight BY <1>2, Zenon DEF Init, SingleFlight, AtWork
<1>8. DispatcherAtWork BY <1>2, Zenon DEF DispatcherAtWork
<1>9. BatchFits BY <1>3, LimitAssumption DEF BatchFits
<1>10. ASSUME NEW r \in Request PROVE RequestOK(r) /\ BatchOK(r)
  <2>1. CallOK(r) BY <1>2, Zenon DEF CallOK
  <2>2. JoinOK(r) /\ FutOK(r) BY <1>2, Zenon DEF JoinOK, FutOK
  <2>3. BatchOK(r) BY <1>2, <1>3, Zenon DEF BatchOK, Dispatches
  <2> QED BY <2>1, <2>2, <2>3, Zenon DEF RequestOK
<1> QED BY <1>1, <1>4, <1>5, <1>6, <1>7, <1>8, <1>9, <1>10, Zenon DEF IInv

LEMMA SameIInv == ASSUME IInv, UNCHANGED vars PROVE IInv'
<1> DEFINE S == {}
<1>1. TextsStay /\ \A q \in Request : Frame(q)
  BY Zenon DEF vars, registry, TextsStay, Frame
<1>2. Group(S)
  <2> HIDE DEF Members, Dispatches
  <2> QED BY <1>1, Zenon DEF Group, vars
<1>3. \A d \in Request : d \notin S BY Zenon
<1> HIDE DEF S
<1>4. /\ Apart' /\ OpenOK' /\ DispatcherAtWork' /\ BatchFits'
      /\ \A d \in Request : BatchOK(d)' /\ RequestOK(d)'
  BY <1>1, <1>2, <1>3, GroupKept, Zenon
<1>5. TypeOK' BY Zenon DEF vars, registry, IInv, TypeOK
<1>6. CacheOK' BY Zenon DEF vars, IInv, CacheOK
<1>7. SingleFlight'
  <2>1. flight' = flight BY Zenon DEF vars, registry
  <2> QED BY <1>1, <2>1, FlightKept, Zenon DEF Raised, Works, AtWork, Owner, MyKey, Frame
<1> QED BY <1>4, <1>5, <1>6, <1>7, Zenon DEF IInv

LEMMA StepIInv == ASSUME IInv, NEW r \in Request, Step(r) PROVE IInv'
<1>1. CASE Hit(r) BY <1>1, HitIInv, Zenon
<1>2. CASE Miss(r) BY <1>2, MissIInv, Zenon
<1>3. CASE CountFails(r) \/ JoinTimesOut(r)
  BY <1>3, GivesUpIInv, Zenon DEF CountFails, JoinTimesOut
<1>4. ASSUME NEW cap \in 1..RawCap, EnqueueJoin(r, cap) PROVE IInv'
  <2>1. TypeOK BY Zenon DEF IInv
  <2>2. PICK d \in Request : open.batch = d BY <1>4, <2>1 DEF EnqueueJoin, Fits, TypeOK
  <2> QED BY <1>4, <2>2, EnqueueJoinIInv, Zenon
<1>5. ASSUME NEW cap \in 1..RawCap, EnqueueNew(r, cap) PROVE IInv'
  BY <1>5, EnqueueNewIInv, SMTT(20)
<1>6. CASE Acquire(r) BY <1>6, AcquireIInv, Zenon
<1>7. CASE RateLimited(r) BY <1>7, RateLimitedIInv, Zenon
<1>8. CASE Fails(r) BY <1>8, FailsIInv, Zenon
<1>9. CASE Fan(r) BY <1>9, FanIInv, Zenon
<1>10. CASE Write(r) BY <1>10, WriteIInv, Zenon
<1>11. CASE Complete(r) BY <1>11, CompleteIInv, Zenon
<1> QED
  BY <1>1, <1>2, <1>3, <1>4, <1>5, <1>6, <1>7, <1>8, <1>9, <1>10, <1>11, Zenon DEF Step

LEMMA NextIInv == IInv /\ [Next]_vars => IInv'
<1> SUFFICES ASSUME IInv, [Next]_vars PROVE IInv' BY Zenon
<1>1. CASE UNCHANGED vars BY <1>1, SameIInv, Zenon
<1>2. ASSUME NEW r \in Request, Step(r) PROVE IInv' BY <1>2, StepIInv, Zenon
<1>3. ASSUME NEW r \in Request, NEW t \in Text, NEW m \in Mode, Submit(r, t, m) PROVE IInv'
  BY <1>3, SubmitIInv, Zenon
<1> QED BY <1>1, <1>2, <1>3, Zenon DEF Next, Idle

THEOREM Invariant == Spec => []IInv
  BY InitIInv, NextIInv, PTL DEF Spec

\* Types, whatever the number of requests, modes, texts and limits.
THEOREM TypeCorrect == Spec => []TypeOK
<1>1. IInv => TypeOK BY Zenon DEF IInv
<1> QED BY <1>1, Invariant, PTL

\* No two requests are at work on the same key, and the registry names the one
\* that is: submit registers a key and removes it in critical sections.
THEOREM OneFlightPerKey == Spec => []SingleFlight
<1>1. IInv => SingleFlight BY Zenon DEF IInv
<1> QED BY <1>1, Invariant, PTL

\* Nobody waits for a batch that has been fanned out or dropped.
THEOREM NobodyIsLost == Spec => []DispatcherAtWork
<1>1. IInv => DispatcherAtWork BY Zenon DEF IInv
<1> QED BY <1>1, Invariant, PTL

\* _enqueue and _seal_if_full keep both limits of the provider for every batch.
THEOREM BatchesFit == Spec => []BatchFits
<1>1. IInv => BatchFits BY Zenon DEF IInv
<1> QED BY <1>1, Invariant, PTL

----------------------------------------------------------------------------
LEMMA NotSent == ASSUME IInv, NEW r \in Request, pc[r] = "count" \/ open.batch = r
                 PROVE  ~BatchSent(r)
<1>1. CASE pc[r] = "count"
  <2>1. tries[r] = 0 BY <1>1, Given, Zenon DEF CallOK
  <2> QED BY <1>1, <2>1 DEF BatchSent
<1>2. CASE open.batch = r
  <2>1. pc[r] = "slot" /\ tries[r] = 0 BY <1>2, RequestAssumption, Zenon DEF IInv, OpenOK
  <2> QED BY <2>1 DEF BatchSent
<1> QED BY <1>1, <1>2, Zenon

LEMMA StepMembers ==
    ASSUME IInv, [Next]_vars, NEW d \in Request, BatchSent(d)
    PROVE  batch'[d] \in {batch[d], <<>>}
<1>1. TypeOK BY Zenon DEF IInv
<1>2. CASE batch' = batch BY <1>2, Zenon
<1>3. ASSUME NEW r \in Request, Fails(r) \/ Write(r) PROVE batch'[d] \in {batch[d], <<>>}
  BY <1>1, <1>3, Zenon DEF Fails, Write, TypeOK
<1>4. ASSUME NEW r \in Request, NEW cap \in 1..RawCap, EnqueueNew(r, cap)
      PROVE  batch'[d] = batch[d]
  <2>1. d # r BY <1>4, NotSent, Zenon DEF EnqueueNew
  <2> QED BY <1>1, <1>4, <2>1, Zenon DEF EnqueueNew, TypeOK
<1>5. ASSUME NEW r \in Request, NEW cap \in 1..RawCap, EnqueueJoin(r, cap)
      PROVE  batch'[d] = batch[d]
  <2>1. d # open.batch BY NotSent, Zenon
  <2> QED BY <1>1, <1>5, <2>1, Zenon DEF EnqueueJoin, TypeOK
<1>6. ASSUME NEW r \in Request, Hit(r) \/ Miss(r) \/ CountFails(r) \/ Acquire(r)
                                \/ RateLimited(r) \/ Fan(r) \/ Complete(r) \/ JoinTimesOut(r)
      PROVE  batch' = batch
  BY <1>6, Zenon DEF Hit, Miss, CountFails, Acquire, RateLimited, Fan, Complete, JoinTimesOut
<1>7. ASSUME NEW r \in Request, NEW t \in Text, NEW m \in Mode, Submit(r, t, m)
      PROVE  batch' = batch
  BY <1>7, Zenon DEF Submit
<1>8. UNCHANGED vars => batch' = batch BY Zenon DEF vars
<1>9. ASSUME NEW r \in Request, Step(r) PROVE batch'[d] \in {batch[d], <<>>}
  BY <1>2, <1>3, <1>4, <1>5, <1>6, <1>9, Zenon DEF Step
<1> QED BY <1>2, <1>7, <1>8, <1>9, Zenon DEF Next, Idle

\* Sealing: from the first attempt on a batch keeps its members through every
\* retry until it is dropped, whatever other requests do to the open batch.
THEOREM SentBatchesAreFixed == Spec => MembersFixed
<1>1. IInv /\ [Next]_vars =>
        [\A d \in Request : BatchSent(d) => batch'[d] \in {batch[d], <<>>}]_vars
  BY StepMembers, Zenon
<1> QED BY <1>1, Invariant, PTL DEF Spec, MembersFixed

----------------------------------------------------------------------------
\* The callers in S get an answer of their key or an error, all at once.
LEMMA FinishReplies ==
    ASSUME IInv, NEW S, NEW v, Finish(S, v), text' = text,
           \A q \in Request : q \in S => /\ text[q] # None /\ answer[q] = None
                                         /\ v[q] \in Text \cup {Failed}
                                         /\ v[q] = Failed \/ Alike(v[q], text[q])
    PROVE  Service!Reply
<1>1. TypeOK BY Zenon DEF IInv
<1>2. answer' \in [Request -> Text \cup {Failed, None}]
  <2>1. \A q \in Request : q \in S => v[q] \in Resolution BY Zenon DEF Resolution
  <2>2. answer' \in [Request -> Resolution] BY <1>1, <2>1, FinishTyped, Zenon
  <2> QED BY <2>2, Zenon DEF Resolution
<1>3. ASSUME NEW q \in Request
      PROVE  \/ answer'[q] = answer[q]
             \/ /\ text[q] # None /\ answer[q] = None
                /\ \/ answer'[q] = Failed
                   \/ DedupKey(answer'[q]) = DedupKey(text[q])
  <2> HIDE DEF DedupKey
  <2>1. IF q \in S THEN answer'[q] = v[q] ELSE answer'[q] = answer[q]
    BY FinishAt, Zenon DEF Leaves, Stays
  <2> QED BY <2>1, Zenon DEF Alike
<1> HIDE DEF DedupKey
<1> QED BY <1>2, <1>3, Zenon DEF Service!Reply

LEMMA OwnReplies ==
    ASSUME IInv, NEW r \in Request, Leaving(r), NEW v \in Text \cup {Failed},
           v = Failed \/ Alike(v, text[r]), CompleteOwn(r, v), text' = text
    PROVE  Service!Reply
<1> DEFINE S == {r} \cup Joiners(r)
           w == [q \in Request |-> v]
<1>1. Finish(S, w) BY Zenon DEF CompleteOwn
<1>2. \A q \in Request : w[q] = v BY Zenon
<1>3. text[r] # None /\ answer[r] = None BY Given, Zenon DEF Leaving, CallOK
<1>4. ASSUME NEW q \in S PROVE /\ text[q] # None /\ answer[q] = None
                               /\ v = Failed \/ Alike(v, text[q])
  <2>1. CASE q = r BY <1>3, <2>1, Zenon
  <2>2. CASE q \in Joiners(r)
    <3>1. text[q] # None /\ answer[q] = None /\ MyKey(q) = MyKey(r) BY <2>2, JoinersIn, Zenon
    <3>2. Alike(text[q], text[r]) /\ MyKey(q) # None
      BY <2>2, JoinersIn, Zenon DEF Alike, DedupKey, MyKey
    <3> HIDE DEF DedupKey
    <3> QED BY <3>1, <3>2, Zenon DEF Alike
  <2> QED BY <2>1, <2>2, Zenon
<1> HIDE DEF S, w, Alike
<1>5. \A q \in Request : q \in S => /\ text[q] # None /\ answer[q] = None
                                    /\ w[q] \in Text \cup {Failed}
                                    /\ w[q] = Failed \/ Alike(w[q], text[q])
  BY <1>2, <1>4, Zenon
<1> QED BY <1>1, <1>5, FinishReplies, Zenon

LEMMA FanReplies ==
    ASSUME IInv, NEW r \in Request, Dispatches(r), NEW v, Vectors(r, v),
           NEW write \in BOOLEAN, FanOut(r, v, write), text' = text
    PROVE  Service!Reply
<1> DEFINE S == Members(r) \ Later(r, write)
<1>1. Finish(S, v) BY Zenon DEF FanOut
<1>2. \A m \in Members(r) : /\ m \in Request /\ text[m] # None
                            /\ m = r \/ pc[m] = "await"
  BY Given, Zenon DEF BatchOK
<1>3. \A m \in Members(r) : answer[m] = None
  BY <1>2, Given, Zenon DEF CallOK, Dispatches
<1>4. \A q \in S : /\ text[q] # None /\ answer[q] = None
                   /\ v[q] \in Text \cup {Failed}
                   /\ v[q] = Failed \/ Alike(v[q], text[q])
  <2> HIDE DEF Members, Later, Alike
  <2> QED BY <1>2, <1>3, Zenon DEF Vectors
<1> HIDE DEF S, Alike
<1> QED BY <1>1, <1>4, FinishReplies, Zenon

\* One request gives up, or returns what it has after its write.
LEMMA AloneReplies ==
    ASSUME IInv, NEW r \in Request, text[r] # None, answer[r] = None,
           NEW v, Finish({r}, v), text' = text, v[r] \in Text \cup {Failed},
           v[r] = Failed \/ Alike(v[r], text[r])
    PROVE  Service!Reply
<1> HIDE DEF Alike
<1>1. \A q \in Request : q \in {r} => /\ text[q] # None /\ answer[q] = None
                                      /\ v[q] \in Text \cup {Failed}
                                      /\ v[q] = Failed \/ Alike(v[q], text[q])
  BY Zenon
<1> QED BY <1>1, FinishReplies, Zenon

LEMMA StepReplies ==
    ASSUME IInv, NEW r \in Request, Step(r)
    PROVE  Service!Reply \/ UNCHANGED <<text, answer>>
<1>1. /\ TypeOK /\ CallOK(r) /\ FutOK(r) BY Given, Zenon
<1>2. ASSUME Hit(r) PROVE Service!Reply
  <2>1. cache[MyKey(r)] \in Text \cup {Failed} /\ Alike(cache[MyKey(r)], text[r])
    BY <1>2, HitAlike, Zenon
  <2>2. Leaving(r) /\ CompleteOwn(r, cache[MyKey(r)]) /\ text' = text
    BY <1>2, Zenon DEF Hit, Leaving
  <2> HIDE DEF Alike, MyKey
  <2> QED BY <2>1, <2>2, OwnReplies, Zenon
<1>3. ASSUME Complete(r) PROVE Service!Reply
  <2>1. fut[r] \in Text \cup {Failed} /\ (fut[r] = Failed \/ Alike(fut[r], text[r]))
    BY <1>1, <1>3, Zenon DEF Complete, TypeOK, Resolution, FutOK
  <2>2. Leaving(r) /\ CompleteOwn(r, fut[r]) /\ text' = text
    BY <1>3, Zenon DEF Complete, Leaving
  <2> HIDE DEF Alike
  <2> QED BY <2>1, <2>2, OwnReplies, Zenon
<1>4. ASSUME Fails(r) PROVE Service!Reply
  <2> DEFINE v == [m \in Request |-> Failed]
  <2>1. Dispatches(r) /\ FanOut(r, v, FALSE) /\ text' = text
    BY <1>4, Zenon DEF Fails, Dispatches
  <2>2. \A m \in Request : v[m] = Failed OBVIOUS
  <2> HIDE DEF v
  <2>3. Vectors(r, v) BY <2>2, Given, Zenon DEF Vectors
  <2> QED BY <2>1, <2>3, FanReplies, Zenon
<1>5. ASSUME Fan(r) PROVE Service!Reply
  <2> DEFINE v == [m \in Request |-> IF m \in Members(r) THEN FirstText(r, text[m])
                                     ELSE None]
  <2>1. Dispatches(r) /\ FanOut(r, v, TRUE) /\ text' = text /\ Vectors(r, v)
    BY <1>5, FanVectors, Zenon DEF Fan, Dispatches
  <2> HIDE DEF v
  <2> QED BY <2>1, FanReplies, Zenon
<1>6. ASSUME CountFails(r) \/ JoinTimesOut(r) PROVE Service!Reply
  <2> DEFINE v == [q \in Request |-> Failed]
  <2>1. text[r] # None /\ answer[r] = None
    BY <1>1, <1>6, Zenon DEF CountFails, JoinTimesOut, CallOK
  <2>2. Finish({r}, v) /\ text' = text BY <1>6, Zenon DEF CountFails, JoinTimesOut
  <2>3. v[r] = Failed OBVIOUS
  <2> HIDE DEF v
  <2> QED BY <2>1, <2>2, <2>3, AloneReplies, Zenon
<1>7. ASSUME Write(r), answer' # answer PROVE Service!Reply
  <2>1. Finish({r}, fut) /\ text' = text /\ pc[r] = "write" BY <1>7, Zenon DEF Write
  <2>2. text[r] # None /\ answer[r] = None /\ fut[r] # None
    BY <1>1, <2>1, Zenon DEF CallOK, FutOK
  <2>3. fut[r] \in Text \cup {Failed} /\ (fut[r] = Failed \/ Alike(fut[r], text[r]))
    BY <1>1, <2>2, Zenon DEF TypeOK, Resolution, FutOK
  <2> QED BY <2>1, <2>2, <2>3, AloneReplies, Zenon
<1>8. ASSUME Miss(r) \/ Acquire(r) \/ RateLimited(r) PROVE UNCHANGED <<text, answer>>
  BY <1>8, Zenon DEF Miss, Acquire, RateLimited
<1>9. ASSUME NEW cap \in 1..RawCap, EnqueueJoin(r, cap) \/ EnqueueNew(r, cap)
      PROVE  UNCHANGED <<text, answer>>
  BY <1>9, Zenon DEF EnqueueJoin, EnqueueNew
<1>10. Write(r) => text' = text BY Zenon DEF Write
<1> QED
  BY <1>2, <1>3, <1>4, <1>5, <1>6, <1>7, <1>8, <1>9, <1>10, Zenon DEF Step

LEMMA SubmitAsks ==
    ASSUME IInv, NEW r \in Request, NEW t \in Text, NEW m \in Mode, Submit(r, t, m)
    PROVE  Service!Ask(r)
<1>1. text[r] = None BY Given, Zenon DEF Submit, CallOK
<1>2. text' = [text EXCEPT ![r] = t] /\ answer' = answer BY Zenon DEF Submit
<1> QED BY <1>1, <1>2, Zenon DEF Service!Ask

\* The coalescer implements the service its callers see: each call is answered
\* once, with a vector of a text of its own key or with an error.
THEOREM CoalescerImplementsService == Spec => Implements
<1>1. Init => Service!Init BY Zenon DEF Init, Service!Init
<1>2. ASSUME IInv, [Next]_vars PROVE [Service!Next]_(Service!vars)
  <2>1. CASE UNCHANGED vars BY <2>1, Zenon DEF vars, Service!vars
  <2>2. ASSUME NEW r \in Request, Step(r) PROVE [Service!Next]_(Service!vars)
    BY <1>2, <2>2, StepReplies, Zenon DEF Service!Next, Service!vars
  <2>3. ASSUME NEW r \in Request, NEW t \in Text, NEW m \in Mode, Submit(r, t, m)
        PROVE  [Service!Next]_(Service!vars)
    BY <1>2, <2>3, SubmitAsks, Zenon DEF Service!Next
  <2> QED BY <1>2, <2>1, <2>2, <2>3, Zenon DEF Next, Idle
<1> QED BY <1>1, <1>2, Invariant, PTL DEF Spec, Implements, Service!Spec

----------------------------------------------------------------------------
\* How far a request is from its return, at most: a rate-limited dispatcher comes
\* back to the slot, but with one attempt less.
Distance(r) == CASE pc[r] = "idle" -> 2 * MaxRetries + 7
                 [] pc[r] = "lookup" -> 2 * MaxRetries + 6
                 [] pc[r] = "count" -> 2 * MaxRetries + 5
                 [] pc[r] = "slot" -> 2 * (MaxRetries - tries[r]) + 4
                 [] pc[r] = "call" -> 2 * (MaxRetries - tries[r]) + 3
                 [] pc[r] = "write" -> 2
                 [] pc[r] \in {"await", "join"} -> 1
                 [] pc[r] \in {"done", "raised"} -> 0

\* No step takes a request back, and every step brings one nearer to its return.
Onward == /\ \A q \in Request : Distance(q)' <= Distance(q)
          /\ \E r \in Request : Distance(r)' < Distance(r)

LEMMA DistanceIs == ASSUME TypeOK, NEW r \in Request PROVE Distance(r) \in Nat
<1>1. /\ pc[r] \in {"idle", "lookup", "count", "await", "slot", "call",
                    "write", "join", "done", "raised"}
      /\ tries[r] \in 0..MaxRetries
  BY Zenon DEF TypeOK
<1> QED BY <1>1, LimitAssumption DEF Distance

LEMMA StepOnward ==
    ASSUME TypeOK, TypeOK', NEW r \in Request, Distance(r)' < Distance(r),
           \A q \in Request : q # r => \/ pc'[q] = pc[q] /\ tries'[q] = tries[q]
                                       \/ pc'[q] = "done"
    PROVE  Onward
<1>1. ASSUME NEW q \in Request, q # r PROVE Distance(q)' <= Distance(q)
  <2>1. Distance(q) \in Nat BY DistanceIs, Zenon
  <2>2. CASE pc'[q] = pc[q] /\ tries'[q] = tries[q]
    <3>1. Distance(q)' = Distance(q) BY <2>2, Zenon DEF Distance
    <3> HIDE DEF Distance
    <3> QED BY <2>1, <3>1
  <2>3. CASE pc'[q] = "done"
    <3>1. Distance(q)' = 0 BY <2>3 DEF Distance
    <3> HIDE DEF Distance
    <3> QED BY <2>1, <3>1
  <2> QED BY <1>1, <2>2, <2>3, Zenon
<1>2. Distance(r) \in Nat /\ Distance(r)' \in Nat
  <2>1. /\ pc'[r] \in {"idle", "lookup", "count", "await", "slot", "call",
                       "write", "join", "done", "raised"}
        /\ tries'[r] \in 0..MaxRetries
    BY Zenon DEF TypeOK
  <2>2. Distance(r)' \in Nat BY <2>1, LimitAssumption DEF Distance
  <2> QED BY <2>2, DistanceIs, Zenon
<1>3. Distance(r)' <= Distance(r)
  <2> HIDE DEF Distance
  <2> QED BY <1>2
<1> QED BY <1>1, <1>3, Zenon DEF Onward

\* The other requests keep their place or return in the same step.
Others(r) == \A q \in Request : q # r => \/ pc'[q] = pc[q] /\ tries'[q] = tries[q]
                                         \/ pc'[q] = "done"

LEMMA StepOthers == ASSUME IInv, NEW r \in Request, Step(r) PROVE Others(r)
<1>1. TypeOK BY Zenon DEF IInv
<1>2. ASSUME NEW p, Goto(r, p), tries' = tries PROVE Others(r)
  BY <1>1, <1>2, GotoAt, Zenon DEF Others
<1>3. ASSUME NEW p, Goto(r, p), NEW v, Finish({r}, v) PROVE Others(r)
  <2>1. \A q \in Request : q # r => tries'[q] = tries[q] BY <1>3, FinishAt, Zenon DEF Stays
  <2> QED BY <1>1, <1>3, <2>1, GotoAt, Zenon DEF Others
<1>4. ASSUME NEW v, CompleteOwn(r, v) PROVE Others(r)
  <2> DEFINE S == {r} \cup Joiners(r)
  <2>1. pc' = [q \in Request |-> IF q \in S THEN "done" ELSE pc[q]]
    BY <1>4, Zenon DEF CompleteOwn
  <2>2. \A q \in Request : q \notin S => tries'[q] = tries[q]
    BY <1>4, FinishAt, Zenon DEF CompleteOwn, Stays
  <2> HIDE DEF S
  <2> QED BY <2>1, <2>2, Zenon DEF Others
<1>5. ASSUME NEW v, NEW w, FanOut(r, v, w) PROVE Others(r)
  <2> DEFINE S == Members(r) \ Later(r, w)
  <2>1. \A q \in Request : q # r => pc'[q] = IF q \in S THEN "done" ELSE pc[q]
    BY <1>5, Zenon DEF FanOut
  <2>2. \A q \in Request : q \notin S => tries'[q] = tries[q]
    BY <1>5, FinishAt, Zenon DEF FanOut, Stays
  <2> HIDE DEF S
  <2> QED BY <2>1, <2>2, Zenon DEF Others
<1>6. ASSUME RateLimited(r) PROVE Others(r)
  BY <1>1, <1>6, GotoAt, Zenon DEF RateLimited, Others, TypeOK
<1>7. CASE Miss(r) \/ Acquire(r) BY <1>2, <1>7, Zenon DEF Miss, Acquire
<1>8. ASSUME NEW cap \in 1..RawCap, EnqueueJoin(r, cap) \/ EnqueueNew(r, cap) PROVE Others(r)
  BY <1>2, <1>8, Zenon DEF EnqueueJoin, EnqueueNew
<1>9. CASE CountFails(r) \/ JoinTimesOut(r) BY <1>3, <1>9, Zenon DEF CountFails, JoinTimesOut
<1>10. CASE Write(r) BY <1>2, <1>3, <1>10, Zenon DEF Write
<1>11. CASE Hit(r) \/ Complete(r) BY <1>4, <1>11, Zenon DEF Hit, Complete
<1>12. CASE Fails(r) \/ Fan(r) BY <1>5, <1>12, Zenon DEF Fails, Fan
<1> QED BY <1>6, <1>7, <1>8, <1>9, <1>10, <1>11, <1>12, Zenon DEF Step

LEMMA StepNearer == ASSUME IInv, NEW r \in Request, Step(r) PROVE Distance(r)' < Distance(r)
<1>1. TypeOK /\ CallOK(r) /\ tries[r] \in 0..MaxRetries BY Given, Typed, Zenon
<1>2. CASE /\ pc'[r] \in {"done", "raised"}
           /\ pc[r] \in {"lookup", "count", "await", "slot", "call", "write", "join"}
  <2>2. Distance(r)' = 0 BY <1>2 DEF Distance
  <2>3. Distance(r) > 0 BY <1>1, <1>2, LimitAssumption DEF Distance
  <2> HIDE DEF Distance
  <2> QED BY <2>2, <2>3
<1>3. CASE Hit(r) \/ Complete(r)
  BY <1>2, <1>3, Zenon DEF Hit, Complete, CompleteOwn
<1>4. CASE CountFails(r) \/ JoinTimesOut(r)
  BY <1>1, <1>2, <1>4, GotoAt, Zenon DEF CountFails, JoinTimesOut
<1>5. CASE Miss(r)
  <2>1. pc[r] = "lookup" /\ pc'[r] = "count" BY <1>1, <1>5, GotoAt, Zenon DEF Miss
  <2> QED BY <2>1, LimitAssumption DEF Distance
<1>6. ASSUME NEW cap \in 1..RawCap, EnqueueJoin(r, cap) PROVE Distance(r)' < Distance(r)
  <2>1. pc[r] = "count" /\ pc'[r] = "await" BY <1>1, <1>6, GotoAt, Zenon DEF EnqueueJoin
  <2> QED BY <2>1, LimitAssumption DEF Distance
<1>7. ASSUME NEW cap \in 1..RawCap, EnqueueNew(r, cap) PROVE Distance(r)' < Distance(r)
  <2>1. pc[r] = "count" /\ pc'[r] = "slot" /\ tries'[r] = tries[r]
    BY <1>1, <1>7, GotoAt, Zenon DEF EnqueueNew
  <2> QED BY <1>1, <2>1, LimitAssumption DEF Distance
<1>8. CASE Acquire(r)
  <2>1. pc[r] = "slot" /\ pc'[r] = "call" /\ tries'[r] = tries[r]
    BY <1>1, <1>8, GotoAt, Zenon DEF Acquire
  <2> QED BY <1>1, <2>1, LimitAssumption DEF Distance
<1>9. CASE RateLimited(r)
  <2>1. pc[r] = "call" /\ pc'[r] = "slot" /\ tries'[r] = tries[r] + 1
    BY <1>1, <1>9, GotoAt, Zenon DEF RateLimited, TypeOK
  <2> QED BY <1>1, <2>1, LimitAssumption DEF Distance
<1>10. CASE Fails(r) \/ Fan(r)
  <2>1. pc[r] \in {"slot", "call"} /\ pc'[r] \in {"done", "write", "await"}
    BY <1>10, Zenon DEF Fails, Fan, FanOut
  <2> QED BY <1>1, <2>1, LimitAssumption DEF Distance
<1>11. CASE Write(r)
  <2>1. pc[r] = "write" /\ pc'[r] \in {"done", "await"}
    BY <1>1, <1>11, GotoAt, Zenon DEF Write
  <2> QED BY <2>1 DEF Distance
<1> QED
  BY <1>3, <1>4, <1>5, <1>6, <1>7, <1>8, <1>9, <1>10, <1>11, Zenon DEF Step

LEMMA SubmitOnward ==
    ASSUME IInv, NEW r \in Request, NEW t \in Text, NEW m \in Mode, Submit(r, t, m)
    PROVE  Distance(r)' < Distance(r) /\ Others(r)
<1>1. TypeOK BY Zenon DEF IInv
<1>2. PICK p \in {"count", "lookup", "join"} : Goto(r, p) BY Zenon DEF Submit
<1>3. pc'[r] = p /\ \A q \in Request : q # r => pc'[q] = pc[q] BY <1>1, <1>2, GotoAt, Zenon
<1>4. pc[r] = "idle" /\ tries' = tries BY Zenon DEF Submit
<1>5. Distance(r)' < Distance(r) BY <1>2, <1>3, <1>4, LimitAssumption DEF Distance
<1> QED BY <1>3, <1>4, <1>5, Zenon DEF Others

\* submit does not run in circles: joining, batching, 429 retries and fan-outs
\* take every caller towards its return, so that the steps of a behaviour are
\* bounded by the distances the requests start with.
THEOREM EveryStepLeadsOn == Spec => [][Onward]_vars
<1>1. ASSUME IInv, IInv', [Next]_vars PROVE [Onward]_vars
  <2>1. TypeOK /\ TypeOK' BY <1>1, Zenon DEF IInv
  <2>2. ASSUME NEW r \in Request, Step(r) PROVE Onward
    BY <1>1, <2>1, <2>2, StepOthers, StepNearer, StepOnward, Zenon DEF Others
  <2>3. ASSUME NEW r \in Request, NEW t \in Text, NEW m \in Mode, Submit(r, t, m)
        PROVE  Onward
    <3>1. Distance(r)' < Distance(r) /\ Others(r) BY <1>1, <2>3, SubmitOnward, Zenon
    <3> QED BY <2>1, <3>1, StepOnward, Zenon DEF Others
  <2> QED BY <1>1, <2>2, <2>3, Zenon DEF Next, Idle
<1> QED BY <1>1, Invariant, PTL DEF Spec
=============================================================================
