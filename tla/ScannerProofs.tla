---------------------------- MODULE ScannerProofs ---------------------------
(***************************************************************************)
(* Proofs about the scanner, for every set of files, of any length and     *)
(* contents, and every order of the parsers' calls.                        *)
(***************************************************************************)
EXTENDS Scanner, FiniteSetTheorems, FunctionTheorems, SequenceTheorems, TLAPS

(* Induction, as the least element of a set.                               *)
LEMMA LeastOf ==
  ASSUME NEW T, T \subseteq Nat, T # {}
  PROVE  \E x \in T : \A y \in T : x <= y
<1>1. IsWellFoundedOn({ss \in Nat \X Nat : ss[1] < ss[2]}, Nat)
  BY NatLessThanWellFounded DEF OpToRel
<1>2. PICK x \in T : \A y \in T : ~ (<<y, x>> \in {ss \in Nat \X Nat : ss[1] < ss[2]})
  BY <1>1, WFMin
<1>3. \A y \in T : ~(y < x)
  BY <1>2
<1> QED
  BY <1>3

LEMMA GreatestOf ==
  ASSUME NEW E \in Nat, NEW T, T \subseteq 0 .. E, T # {}
  PROVE  \E x \in T : \A y \in T : y <= x
<1> DEFINE U == {i \in Nat : E - i \in T}
<1>1. PICK y \in T : TRUE
  OBVIOUS
<1>2. E - y \in U /\ U \subseteq Nat
  BY <1>1
<1>3. PICK i \in U : \A u \in U : i <= u
  BY <1>2, LeastOf
<1>4. \A z \in T : E - z \in U
  OBVIOUS
<1> QED
  BY <1>3, <1>4

(* A function on the places of a file that looks only at places further on *)
(* exists.  One that only hands on what it finds, finds it where it stops. *)
GoesOn(E, stop, onw) ==
  \A j \in 1 .. E : j \notin stop => onw[j] \in 1 .. E /\ j < onw[j]

Recursive(g, from, to, stop, val, onw, with) ==
  \A j \in from .. to : g[j] = IF j \in stop THEN val[j] ELSE with[j][g[onw[j]]]

HandsOn(g, E, stop, val, onw) ==
  \A j \in 1 .. E : g[j] = IF j \in stop THEN val[j] ELSE g[onw[j]]

LEMMA Recursion ==
  ASSUME NEW E \in Nat, NEW V, NEW stop, NEW val \in [1 .. E -> V], NEW onw,
         NEW with \in [1 .. E -> [V -> V]],
         GoesOn(E, stop, onw)
  PROVE  \E g \in [1 .. E -> V] : Recursive(g, 1, E, stop, val, onw, with)
<1> DEFINE Exists(m) == \E g \in [m .. E -> V] : Recursive(g, m, E, stop, val, onw, with)
<1> DEFINE Bad == {m \in 0 .. E : m # 0 /\ ~Exists(m)}
<1>0. Exists(E + 1)
  <2>1. [j \in E + 1 .. E |-> 0] \in [E + 1 .. E -> V]
    OBVIOUS
  <2>2. \A g : Recursive(g, E + 1, E, stop, val, onw, with)
    BY DEF Recursive
  <2> QED
    BY <2>1, <2>2
<1>1. CASE Bad = {}
  <2> HIDE DEF Exists
  <2> SUFFICES Exists(1)
    BY DEF Exists
  <2>1. CASE E = 0
    <3>1. E + 1 = 1
      BY <2>1
    <3> QED
      BY <1>0, <3>1
  <2>2. CASE E # 0
    <3>1. 1 \in 0 .. E /\ 1 # 0
      BY <2>2
    <3> QED
      BY <1>1, <3>1
  <2> QED
    BY <2>1, <2>2
<1>2. CASE Bad # {}
  <2>1. PICK m \in Bad : \A y \in Bad : y <= m
    BY <1>2, GreatestOf
  <2>2. m \in 1 .. E /\ ~Exists(m)
    BY <2>1
  <2>3. Exists(m + 1)
    <3>1. CASE m = E
      BY <1>0, <3>1
    <3>2. CASE m # E
      <4>1. m + 1 \in 0 .. E /\ m + 1 # 0 /\ m + 1 \notin Bad
        BY <2>1, <2>2, <3>2
      <4> QED
        BY <4>1
    <3> QED
      BY <3>1, <3>2
  <2>4. PICK g \in [m + 1 .. E -> V] : Recursive(g, m + 1, E, stop, val, onw, with)
    BY <2>3
  <2> DEFINE first == IF m \in stop THEN val[m] ELSE with[m][g[onw[m]]]
  <2> DEFINE h == [j \in m .. E |-> IF j = m THEN first ELSE g[j]]
  <2>5. first \in V
    BY <2>2, <2>4 DEF GoesOn
  <2>6. h \in [m .. E -> V]
    BY <2>2, <2>4, <2>5
  <2>7. ASSUME NEW j \in m .. E
        PROVE  h[j] = IF j \in stop THEN val[j] ELSE with[j][h[onw[j]]]
    <3>1. j \in 1 .. E
      BY <2>2
    <3>2. j \notin stop => onw[j] \in m + 1 .. E /\ h[onw[j]] = g[onw[j]]
      BY <2>2, <3>1 DEF GoesOn
    <3>3. CASE j = m
      BY <2>2, <3>2, <3>3
    <3>4. CASE j # m
      <4>1. j \in m + 1 .. E /\ h[j] = g[j]
        BY <2>2, <3>4
      <4> QED
        BY <2>4, <3>2, <4>1 DEF Recursive
    <3> QED
      BY <3>3, <3>4
  <2>8. Recursive(h, m, E, stop, val, onw, with)
    BY <2>7 DEF Recursive
  <2> QED
    BY <2>2, <2>6, <2>8
<1> QED
  BY <1>1, <1>2

LEMMA HandingOn ==
  ASSUME NEW E \in Nat, NEW stop, NEW val \in [1 .. E -> 1 .. E], NEW onw,
         GoesOn(E, stop, onw)
  PROVE  \E g \in [1 .. E -> 1 .. E] : HandsOn(g, E, stop, val, onw)
<1> DEFINE with == [j \in 1 .. E |-> [v \in 1 .. E |-> v]]
<1>1. with \in [1 .. E -> [1 .. E -> 1 .. E]]
  OBVIOUS
<1>2. PICK g \in [1 .. E -> 1 .. E] : Recursive(g, 1, E, stop, val, onw, with)
  <2> HIDE DEF with
  <2> QED
    BY <1>1, Recursion
<1>3. HandsOn(g, E, stop, val, onw)
  <2> SUFFICES ASSUME NEW j \in 1 .. E
               PROVE  g[j] = IF j \in stop THEN val[j] ELSE g[onw[j]]
    BY DEF HandsOn
  <2>1. g[j] = IF j \in stop THEN val[j] ELSE with[j][g[onw[j]]]
    BY <1>2 DEF Recursive
  <2>2. j \notin stop => onw[j] \in 1 .. E
    BY DEF GoesOn
  <2> QED
    BY <2>1, <2>2
<1> QED
  BY <1>3

LEMMA Landing ==
  ASSUME NEW E \in Nat, NEW stop, NEW val, NEW onw, NEW g,
         HandsOn(g, E, stop, val, onw), GoesOn(E, stop, onw),
         NEW k \in 1 .. E
  PROVE  \E j \in k .. E : j \in stop /\ g[k] = val[j]
<1> DEFINE Lands(m) == \E j \in m .. E : j \in stop /\ g[m] = val[j]
<1> DEFINE Bad == {m \in 0 .. E : m # 0 /\ ~Lands(m)}
<1>1. CASE Bad = {}
  BY <1>1
<1>2. CASE Bad # {}
  <2>1. PICK m \in Bad : \A y \in Bad : y <= m
    BY <1>2, GreatestOf
  <2>2. m \in 1 .. E /\ ~Lands(m)
    BY <2>1
  <2>3. m \notin stop
    BY <2>2 DEF HandsOn
  <2>4. onw[m] \in m + 1 .. E /\ g[m] = g[onw[m]]
    BY <2>2, <2>3 DEF HandsOn, GoesOn
  <2>5. onw[m] \in 0 .. E /\ onw[m] # 0 /\ onw[m] \notin Bad
    BY <2>1, <2>2, <2>4
  <2>6. Lands(onw[m])
    BY <2>5
  <2> QED
    BY <2>2, <2>4, <2>6
<1> QED
  BY <1>1, <1>2

-----------------------------------------------------------------------------
(* Places.                                                                 *)
LEMMA EndType ==
  ASSUME NEW f, Len(f) \in Nat
  PROVE  End(f) \in Nat /\ End(f) = Len(f) + 1 /\ End(f) \in 1 .. End(f)
BY DEF End

LEMMA NextPlace ==
  ASSUME NEW f, Len(f) \in Nat, NEW k \in 1 .. End(f)
  PROVE  /\ next(f, k) \in k .. End(f)
         /\ Chr(f, k) # Eof => k < End(f)
         /\ k < End(f) => next(f, k) = k + 1
BY DEF End, next, Chr

LEMMA FirstPlace ==
  ASSUME NEW f, Len(f) \in Nat, NEW k \in 1 .. End(f), NEW S
  PROVE  /\ First(f, k, S) \in k .. End(f)
         /\ Chr(f, First(f, k, S)) \in S \/ First(f, k, S) = End(f)
<1> DEFINE T == {j \in k .. End(f) : j = End(f) \/ Chr(f, j) \in S}
<1>1. T \subseteq Nat /\ End(f) \in T
  BY EndType
<1>2. PICK j \in T : \A y \in T : j <= y
  BY <1>1, LeastOf
<1>3. \A i \in k .. j - 1 : Chr(f, i) \notin S
  BY <1>2, EndType
<1> QED
  BY <1>2, <1>3, Zenon DEF First

LEMMA FirstNotPlace ==
  ASSUME NEW f, Len(f) \in Nat, NEW k \in 1 .. End(f), NEW S
  PROVE  /\ FirstNot(f, k, S) \in k .. End(f)
         /\ k < End(f) /\ Chr(f, k) \in S => FirstNot(f, k, S) > k
<1> DEFINE T == {j \in k .. End(f) : j = End(f) \/ Chr(f, j) \notin S}
<1>1. T \subseteq Nat /\ End(f) \in T
  BY EndType
<1>2. PICK j \in T : \A y \in T : j <= y
  BY <1>1, LeastOf
<1>3. \A i \in k .. j - 1 : Chr(f, i) \in S
  BY <1>2, EndType
<1>4. /\ FirstNot(f, k, S) \in k .. End(f)
      /\ FirstNot(f, k, S) = End(f) \/ Chr(f, FirstNot(f, k, S)) \notin S
  BY <1>2, <1>3, Zenon DEF FirstNot
<1> QED
  BY <1>4, EndType

LEMMA LeastPlace ==
  ASSUME NEW T, T \subseteq Nat, T # {}
  PROVE  Least(T) \in T
BY LeastOf, Zenon DEF Least

-----------------------------------------------------------------------------
(* Comments and space.                                                     *)
LEMMA BlockEndPlace ==
  ASSUME NEW f, Len(f) \in Nat, NEW k \in 1 .. End(f)
  PROVE  BlockEnd(f, k) \in k .. End(f)
<1> DEFINE E    == End(f)
           stop == {m \in 1 .. E : Chr(f, m) \in {"/", Eof}}
           val  == [m \in 1 .. E |-> next(f, m)]
           onw  == [m \in 1 .. E |-> next(f, First(f, m, {"*", Eof}))]
           body(g) == [m \in 1 .. End(f) |->
                         IF Chr(f, m) \in {"/", Eof} THEN next(f, m)
                         ELSE g[next(f, First(f, m, {"*", Eof}))]]
           end == CHOOSE g : g = body(g)
<1>1. E \in Nat /\ \A m \in 1 .. E : val[m] \in m .. E
  BY NextPlace, EndType
<1>2. ASSUME NEW m \in 1 .. E, m \notin stop PROVE onw[m] \in m + 1 .. E
  <2>1. m < End(f)
    BY <1>2, NextPlace
  <2>2. First(f, m, {"*", Eof}) \in m .. End(f)
    BY FirstPlace
  <2>3. /\ next(f, First(f, m, {"*", Eof})) \in First(f, m, {"*", Eof}) .. End(f)
        /\ First(f, m, {"*", Eof}) < End(f) =>
             next(f, First(f, m, {"*", Eof})) = First(f, m, {"*", Eof}) + 1
    BY <2>2, NextPlace, EndType
  <2> QED
    BY <2>1, <2>2, <2>3, EndType
<1>3. GoesOn(E, stop, onw) /\ val \in [1 .. E -> 1 .. E]
  <2>1. val \in [1 .. E -> 1 .. E]
    BY <1>1
  <2> HIDE DEF E, stop, val, onw
  <2>2. GoesOn(E, stop, onw)
    BY <1>1, <1>2 DEF GoesOn
  <2> QED
    BY <2>1, <2>2
<1>4. \A g : g = body(g) => HandsOn(g, E, stop, val, onw)
  BY DEF HandsOn
<1>5. ASSUME NEW g \in [1 .. E -> 1 .. E], HandsOn(g, E, stop, val, onw) PROVE g = body(g)
  BY <1>5 DEF HandsOn
<1>6. end = body(end)
  <2>1. \E g \in [1 .. E -> 1 .. E] : HandsOn(g, E, stop, val, onw)
    <3> HIDE DEF E, stop, val, onw
    <3> QED
      BY <1>1, <1>3, HandingOn
  <2> HIDE DEF E, stop, val, onw, body
  <2> QED
    BY <2>1, <1>5
<1>7. next(f, k) \in k .. E
  BY NextPlace
<1>8. \E j \in next(f, k) .. E : end[next(f, k)] = val[j]
  <2>1. next(f, k) \in 1 .. E
    BY <1>7
  <2> HIDE DEF E, stop, val, onw, end, body
  <2>2. HandsOn(end, E, stop, val, onw)
    BY <1>4, <1>6
  <2>3. E \in Nat /\ GoesOn(E, stop, onw)
    BY <1>1, <1>3
  <2>4. \A n \in 1 .. E : \E j \in n .. E : j \in stop /\ end[n] = val[j]
    BY <2>2, <2>3, Landing
  <2> QED
    BY <2>1, <2>4
<1>9. end[next(f, k)] \in k .. E
  <2> HIDE DEF E, stop, val, onw, end, body
  <2> QED
    BY <1>1, <1>7, <1>8
<1> QED
  BY <1>9 DEF BlockEnd

LEMMA CommentPlace ==
  ASSUME NEW f, Len(f) \in Nat, NEW k \in 1 .. End(f)
  PROVE  comment(f, k) \in k .. End(f)
<1>1. CASE Chr(f, k) = "/" /\ Chr(f, k + 1) \in {"/", "*"}
  <2>1. k + 1 \in 1 .. End(f)
    BY <1>1, NextPlace, EndType DEF Eof
  <2>2. BlockEnd(f, k + 1) \in k + 1 .. End(f)
    BY <2>1, BlockEndPlace
  <2>3. LineEnd(f, k + 1) \in k + 1 .. End(f)
    <3>1. First(f, k + 1, {"\n", Eof}) \in k + 1 .. End(f)
      BY <2>1, FirstPlace
    <3>2. next(f, First(f, k + 1, {"\n", Eof})) \in First(f, k + 1, {"\n", Eof}) .. End(f)
      BY <2>1, <3>1, NextPlace, EndType
    <3> QED
      BY <2>1, <3>1, <3>2, EndType DEF LineEnd
  <2>4. skip_comment(f, k + 1) \in k + 1 .. End(f)
    BY <2>2, <2>3 DEF skip_comment
  <2> QED
    BY <1>1, <2>1, <2>4, EndType DEF comment
<1>2. CASE ~(Chr(f, k) = "/" /\ Chr(f, k + 1) \in {"/", "*"})
  BY <1>2, EndType DEF comment
<1> QED
  BY <1>1, <1>2

(* Where scan() has skipped space and a comment, and come to nothing else. *)
Skipped(f, k) == comment(f, skip_space(f, k))

LEMMA SkippedPlace ==
  ASSUME NEW f, Len(f) \in Nat, NEW k \in 1 .. End(f)
  PROVE  Skipped(f, k) \in k .. End(f)
<1>1. skip_space(f, k) \in k .. End(f)
  BY FirstNotPlace DEF skip_space
<1>2. comment(f, skip_space(f, k)) \in skip_space(f, k) .. End(f)
  BY <1>1, EndType, CommentPlace
<1> QED
  BY <1>1, <1>2, EndType DEF Skipped

LEMMA TokenStartPlace ==
  ASSUME NEW f, Len(f) \in Nat, NEW k \in 1 .. End(f)
  PROVE  /\ TokenStart(f, k) \in k .. End(f)
         /\ TokenStart(f, TokenStart(f, k)) = TokenStart(f, k)
<1> DEFINE E    == End(f)
           stop == {j \in 1 .. E : Skipped(f, j) = j}
           val  == [j \in 1 .. E |-> j]
           onw  == [j \in 1 .. E |-> Skipped(f, j)]
           body(g) == [j \in 1 .. End(f) |->
                         LET after == comment(f, skip_space(f, j))
                         IN  IF after = j THEN j ELSE g[after]]
           start == CHOOSE g : g = body(g)
<1>1. E \in Nat /\ val \in [1 .. E -> 1 .. E]
  BY EndType
<1>2. \A j \in 1 .. E : onw[j] \in j .. E
  BY SkippedPlace
<1>3. GoesOn(E, stop, onw)
  <2>1. \A j \in 1 .. E : j \notin stop => onw[j] # j
    OBVIOUS
  <2> HIDE DEF E, stop, onw
  <2> QED
    BY <1>1, <1>2, <2>1 DEF GoesOn
<1>4. \A g : g = body(g) => HandsOn(g, E, stop, val, onw)
  BY DEF HandsOn, Skipped
<1>5. ASSUME NEW g \in [1 .. E -> 1 .. E], HandsOn(g, E, stop, val, onw) PROVE g = body(g)
  BY <1>5 DEF HandsOn, Skipped
<1>6. start = body(start)
  <2>1. \E g \in [1 .. E -> 1 .. E] : HandsOn(g, E, stop, val, onw)
    <3> HIDE DEF E, stop, val, onw
    <3> QED
      BY <1>1, <1>3, HandingOn
  <2> HIDE DEF E, stop, val, onw, body
  <2> QED
    BY <2>1, <1>5
<1>7. HandsOn(start, E, stop, val, onw)
  <2> HIDE DEF E, stop, val, onw, start, body
  <2> QED
    BY <1>4, <1>6
<1>8. \A n \in 1 .. E : \E j \in n .. E : j \in stop /\ start[n] = val[j]
  <2> HIDE DEF E, stop, val, onw, start, body
  <2>1. E \in Nat
    BY <1>1
  <2> QED
    BY <1>3, <1>7, <2>1, Landing
<1>9. PICK j \in k .. E : j \in stop /\ start[k] = j
  <2>1. k \in 1 .. E /\ \A j \in stop : val[j] = j
    OBVIOUS
  <2> HIDE DEF E, stop, val, onw, start, body
  <2> QED
    BY <1>8, <2>1
<1>10. start[j] = j
  <2>1. j \in 1 .. E /\ val[j] = j
    BY <1>9
  <2> HIDE DEF E, stop, val, onw, start, body
  <2> QED
    BY <1>7, <1>9, <2>1 DEF HandsOn
<1>11. \A m \in 1 .. E : TokenStart(f, m) = start[m]
  BY DEF TokenStart
<1> QED
  <2>1. k \in 1 .. E /\ j \in 1 .. E
    BY <1>9
  <2> HIDE DEF stop, val, onw, start, body
  <2> QED
    BY <1>9, <1>10, <1>11, <2>1

-----------------------------------------------------------------------------
(* Tokens.  Those of every scanlet end between two places.                 *)
IsLexeme(r, from, to) ==
  /\ r = [type |-> r.type, lit |-> r.lit, start |-> r.start, to |-> r.to, ok |-> r.ok]
  /\ r.to \in from .. to
  /\ r.ok \in BOOLEAN

LEMMA LexemeIsOne ==
  ASSUME NEW type, NEW lit, NEW from, NEW to, NEW place \in from .. to
  PROVE  /\ IsLexeme(Lexeme(type, lit, place), from, to)
         /\ IsLexeme(TooLarge(type, lit, place), from, to)
BY DEF IsLexeme, Lexeme, TooLarge

LEMMA LimitedPlace ==
  ASSUME NEW f, NEW type, NEW from, Len(f) \in Nat, NEW k \in 1 .. End(f),
         NEW end \in k .. End(f), NEW already \in 0 .. 2
  PROVE  IsLexeme(Limited(type, f, from, k, end, already), IF end > k THEN k + 1 ELSE k, End(f))
<1>1. LITERAL_MAX \in Nat /\ LITERAL_MAX > 2
  BY LexerAssumption DEF LITERAL_MAX
<1>2. CASE already + (end - k) <= LITERAL_MAX
  <2>1. end \in (IF end > k THEN k + 1 ELSE k) .. End(f)
    BY EndType
  <2> QED
    BY <1>2, <2>1, LexemeIsOne DEF Limited
<1>3. CASE ~(already + (end - k) <= LITERAL_MAX)
  <2>1. k + LITERAL_MAX - already \in (IF end > k THEN k + 1 ELSE k) .. End(f)
    BY <1>1, <1>3, EndType
  <2> QED
    BY <1>3, <2>1, LexemeIsOne DEF Limited
<1> QED
  BY <1>2, <1>3

LEMMA IdentifierPlace ==
  ASSUME NEW f, NEW type, Len(f) \in Nat, NEW k \in 1 .. End(f)
  PROVE  /\ IsLexeme(scan_identifier(f, k, type), k, End(f))
         /\ k < End(f) /\ Chr(f, k) \in Ident =>
              IsLexeme(scan_identifier(f, k, type), k + 1, End(f))
<1> DEFINE end == FirstNot(f, k, Ident)
<1>1. end \in k .. End(f) /\ (k < End(f) /\ Chr(f, k) \in Ident => end > k)
  BY FirstNotPlace
<1>2. IsLexeme(scan_identifier(f, k, type), IF end > k THEN k + 1 ELSE k, End(f))
  BY <1>1, LimitedPlace DEF scan_identifier
<1> QED
  BY <1>1, <1>2, EndType DEF IsLexeme

LEMMA NumberPlace ==
  ASSUME NEW f, Len(f) \in Nat, NEW k \in 1 .. End(f), k < End(f), Chr(f, k) \in Digit
  PROVE  IsLexeme(scan_number(f, k), k + 1, End(f))
<1> DEFINE letter == Chr(f, k + 1)
           DigitsAt(from, base, already) ==
             Limited("NUMBER", f, k, from, FirstNot(f, from, DigitOf(base)), already)
<1>1. ASSUME NEW from \in k + 1 .. End(f), NEW base, NEW already \in 0 .. 2
      PROVE  IsLexeme(DigitsAt(from, base, already), k + 1, End(f))
  <2> DEFINE end == FirstNot(f, from, DigitOf(base))
  <2>1. from \in 1 .. End(f) /\ end \in from .. End(f)
    BY EndType, FirstNotPlace
  <2>2. IsLexeme(DigitsAt(from, base, already), IF end > from THEN from + 1 ELSE from, End(f))
    BY <2>1, LimitedPlace
  <2> QED
    BY <2>1, <2>2, EndType DEF IsLexeme
<1>2. CASE Chr(f, k) # "0"
  <2> DEFINE end == FirstNot(f, k, DigitOf(10))
  <2>1. DigitOf(10) = Digit
    BY DEF DigitOf, Digit
  <2>2. end \in k .. End(f) /\ end > k
    BY <2>1, FirstNotPlace
  <2>3. IsLexeme(DigitsAt(k, 10, 0), IF end > k THEN k + 1 ELSE k, End(f))
    BY <2>2, LimitedPlace
  <2> QED
    BY <1>2, <2>2, <2>3 DEF scan_number
<1>3. CASE Chr(f, k) = "0" /\ letter \notin DOMAIN Headers
  <2>1. k + 1 \in k + 1 .. End(f)
    BY EndType
  <2>2. IsLexeme(DigitsAt(k + 1, 8, 1), k + 1, End(f))
    BY <1>1, <2>1
  <2> QED
    BY <1>3, <2>2 DEF scan_number
<1>4. CASE Chr(f, k) = "0" /\ letter \in DOMAIN Headers
  <2>1. k + 1 \in 1 .. End(f) /\ letter # Eof
    BY <1>4, EndType DEF Headers, Eof
  <2>2. k + 2 \in k + 1 .. End(f)
    BY <2>1, NextPlace, EndType
  <2>3. IsLexeme(DigitsAt(k + 2, Headers[letter], IF Headers[letter] = 2 THEN 2 ELSE 1),
                 k + 1, End(f))
    BY <1>1, <2>2
  <2> QED
    BY <1>4, <2>3 DEF scan_number
<1> QED
  BY <1>2, <1>3, <1>4

LEMMA QuotedPlace ==
  ASSUME NEW f, NEW quote, NEW type, Len(f) \in Nat, NEW k \in 1 .. End(f)
  PROVE  IsLexeme(Quoted(f, k, quote, type), k, End(f))
<1> DEFINE ends == Closing(f, k, quote)
           full == k + LITERAL_MAX
<1>1. ends \subseteq k .. Len(f) /\ full \in Nat /\ full >= k
  BY LexerAssumption, EndType DEF Closing, LITERAL_MAX
<1>2. CASE \E j \in ends : j <= full
  <2>1. Least(ends) \in ends
    BY <1>1, <1>2, LeastPlace
  <2>2. Least(ends) + 1 \in k .. End(f)
    BY <1>1, <2>1, EndType
  <2>3. IsLexeme(Closed(type, f, k, Least(ends)), k, End(f))
    BY <2>2, LexemeIsOne DEF Closed
  <2> QED
    BY <1>2, <2>3 DEF Quoted, QuotedUpTo
<1>3. CASE ~\E j \in ends : j <= full
  <2> DEFINE cut == IF full <= Len(f) THEN full ELSE End(f)
  <2>1. cut \in k .. End(f)
    BY <1>1, EndType
  <2>2. IsLexeme(NotClosed(type, f, k, cut), k, End(f))
    BY <2>1, LexemeIsOne DEF NotClosed
  <2> QED
    BY <1>3, <2>2 DEF Quoted, QuotedUpTo
<1> QED
  BY <1>2, <1>3

LEMMA RuleFields ==
  /\ \A t : /\ simple(t).tok0 = t
            /\ simple(t).tok1 = ""
            /\ simple(t).chr2 = ""
  /\ \A t, u : switch2(t, u).chr2 = ""
BY DEF simple, switch2, Rule

LEMMA TableRules ==
  /\ \A c \in DOMAIN token_table : token_table[c].chr2 # Eof
  /\ Eof \in DOMAIN token_table /\ token_table[Eof] = simple("TOK_EOF")
<1>1. ASSUME NEW c \in DOMAIN token_table PROVE token_table[c].chr2 # Eof
  <2>1. CASE c \in {"(", ")", "{", "}", ":", ",", ".", ";", "~", "?", Eof}
    <3>1. \E t : token_table[c] = simple(t)
      BY <2>1 DEF token_table, Eof
    <3> QED
      BY <3>1, RuleFields DEF Eof
  <2>2. CASE c \in {"%", "!", "*", "/", "=", "^"}
    <3>1. \E t, u : token_table[c] = switch2(t, u)
      BY <2>2 DEF token_table, Eof
    <3> QED
      BY <3>1, RuleFields DEF Eof
  <2>3. CASE c \in {"+", "-", "&", "|"}
    <3>1. PICK t, u, v : token_table[c] = switch3(t, u, c, v)
      BY <2>3 DEF token_table, Eof
    <3>2. switch3(t, u, c, v).chr2 = c
      BY DEF switch3, Rule
    <3> QED
      BY <3>1, <2>3, <3>2 DEF Eof
  <2>4. CASE c \in {"<", ">"}
    <3>1. PICK t, u, v, w : token_table[c] = switch4(t, u, c, v, w)
      BY <2>4 DEF token_table, Eof
    <3>2. switch4(t, u, c, v, w).chr2 = c
      BY DEF switch4, Rule
    <3> QED
      BY <3>1, <2>4, <3>2 DEF Eof
  <2> QED
    BY <2>1, <2>2, <2>3, <2>4 DEF token_table
<1>2. Eof \in DOMAIN token_table
  BY DEF token_table
<1>3. token_table[Eof] = simple("TOK_EOF")
  BY DEF token_table, Eof, simple
<1> QED
  BY <1>1, <1>2, <1>3

LEMMA OperatorPlace ==
  ASSUME NEW f, NEW rule, Len(f) \in Nat, NEW k \in 1 .. End(f), rule.chr2 # Eof
  PROVE  IsLexeme(Operator(f, k, rule), k, End(f))
<1>1. k \in k .. End(f)
  BY EndType
<1>2. Chr(f, k) # Eof => k + 1 \in 1 .. End(f) /\ k + 1 \in k .. End(f)
  BY NextPlace, EndType
<1>3. Chr(f, k) # Eof /\ Chr(f, k + 1) # Eof => k + 2 \in k .. End(f)
  BY <1>2, NextPlace, EndType
<1>4. "=" # Eof
  BY DEF Eof
<1> QED
  BY <1>1, <1>2, <1>3, <1>4, LexemeIsOne DEF Operator

LEMMA ScanletPlace ==
  ASSUME NEW f, NEW c, Len(f) \in Nat, NEW k \in 1 .. End(f)
  PROVE  IsLexeme(scanlet(f, c, k), k, End(f))
<1>1. k \in k .. End(f)
  BY EndType
<1>2. Chr(f, k) # Eof => k + 1 \in k .. End(f)
  BY NextPlace, EndType
<1>3. ">" # Eof /\ "-" # Eof
  BY DEF Eof
<1>4. /\ IsLexeme(scan_identifier(f, k, "VARIABLE"), k, End(f))
      /\ IsLexeme(scan_identifier(f, k, "PORT"), k, End(f))
      /\ IsLexeme(Quoted(f, k, "'", "CHAR"), k, End(f))
      /\ IsLexeme(Quoted(f, k, "\"", "STRING"), k, End(f))
  BY IdentifierPlace, QuotedPlace
<1>5. /\ Chr(f, k) = ">" => IsLexeme(Lexeme("WIRE", "", k + 1), k, End(f))
      /\ Chr(f, k) = "-" => IsLexeme(Lexeme("SEND", "", k + 1), k, End(f))
      /\ IsLexeme(TooLarge("ILLEGAL", c, k), k, End(f))
  BY <1>1, <1>2, <1>3, LexemeIsOne
<1>6. c \in DOMAIN token_table => IsLexeme(Operator(f, k, token_table[c]), k, End(f))
  BY TableRules, OperatorPlace
<1> HIDE DEF Eof
<1> QED
  BY <1>4, <1>5, <1>6 DEF scanlet

LEMMA LookupKeeps ==
  ASSUME NEW r, NEW from, NEW to, IsLexeme(r, from, to)
  PROVE  IsLexeme(lookup(r), from, to)
<1>1. CASE r.lit \in DOMAIN keywords
  <2>1. lookup(r) = [type |-> keywords[r.lit], lit |-> r.lit, start |-> r.start,
                     to |-> r.to, ok |-> r.ok]
    BY <1>1 DEF lookup, IsLexeme
  <2> QED
    BY <2>1 DEF IsLexeme
<1>2. CASE r.lit \notin DOMAIN keywords
  BY <1>2 DEF lookup
<1> QED
  BY <1>1, <1>2

Begun(r, k) == [r EXCEPT !.start = k]

LEMMA BegunKeeps ==
  ASSUME NEW r, NEW from, NEW to, NEW k, IsLexeme(r, from, to)
  PROVE  IsLexeme(Begun(r, k), from, to) /\ Begun(r, k).start = k
<1>1. Begun(r, k) =
        [type |-> r.type, lit |-> r.lit, start |-> k, to |-> r.to, ok |-> r.ok]
  BY DEF IsLexeme, Begun
<1> QED
  BY <1>1 DEF IsLexeme

(* A token ends behind its beginning, but for the one at the end.          *)
LEMMA TokenMoves ==
  ASSUME NEW f, Len(f) \in Nat, NEW k \in 1 .. End(f), k < End(f)
  PROVE  /\ IsLexeme(Located(f, k), k + 1, End(f))
         /\ Located(f, k).start = k
<1> DEFINE c == Chr(f, k)
           r == CASE c \in Digit         -> scan_number(f, k)
                  [] c \in Ident \ Digit -> lookup(scan_identifier(f, k, "IDENTIFIER"))
                  [] OTHER               -> scanlet(f, c, next(f, k))
<1>1. next(f, k) = k + 1 /\ k + 1 \in 1 .. End(f)
  BY NextPlace, EndType
<1>2. c \in Digit => IsLexeme(scan_number(f, k), k + 1, End(f))
  BY NumberPlace
<1>3. c \in Ident => IsLexeme(lookup(scan_identifier(f, k, "IDENTIFIER")), k + 1, End(f))
  BY IdentifierPlace, LookupKeeps
<1>4. IsLexeme(scanlet(f, c, next(f, k)), k + 1, End(f))
  BY <1>1, ScanletPlace
<1>5. IsLexeme(r, k + 1, End(f))
  <2> HIDE DEF c
  <2> QED
    BY <1>2, <1>3, <1>4
<1>6. Located(f, k) = Begun(r, k)
  BY DEF Located, TokenAt, Begun
<1> QED
  <2> HIDE DEF r
  <2> QED
    BY <1>5, <1>6, BegunKeeps

EndToken(f) ==
  [type |-> "TOK_EOF", lit |-> "", start |-> End(f), to |-> End(f), ok |-> TRUE]

LEMMA EndTokenFields ==
  ASSUME NEW f
  PROVE  /\ EndToken(f).type = "TOK_EOF" /\ EndToken(f).lit = ""
         /\ EndToken(f).start = End(f) /\ EndToken(f).to = End(f)
         /\ EndToken(f).ok /\ EndToken(f).ok \in BOOLEAN
BY DEF EndToken

LEMMA TokenAtEnd ==
  ASSUME NEW f, Len(f) \in Nat
  PROVE  Located(f, End(f)) = EndToken(f)
<1> DEFINE k == End(f)
<1>1. Chr(f, k) = Eof /\ next(f, k) = k
  BY DEF End, Chr, next
<1>2. Eof \notin Ident /\ Eof \notin Digit
  BY EofAssumption DEF Ident
<1>3. Operator(f, k, token_table[Eof]) = Lexeme("TOK_EOF", "", k)
  <2>1. token_table[Eof].tok0 = "TOK_EOF" /\ token_table[Eof].tok1 = "" /\ token_table[Eof].chr2 = ""
    BY TableRules, RuleFields
  <2>2. Eof # ""
    BY DEF Eof
  <2> QED
    BY <1>1, <2>1, <2>2 DEF Operator
<1>4. scanlet(f, Eof, k) = Lexeme("TOK_EOF", "", k)
  <2>1. Eof \in DOMAIN token_table /\ Eof \notin {"$", "'", "\"", "%", "-", "<"}
    BY TableRules DEF Eof
  <2> QED
    BY <1>3, <2>1 DEF scanlet
<1>5. TokenAt(f, k, Eof) = [Lexeme("TOK_EOF", "", k) EXCEPT !.start = k]
  BY <1>1, <1>2, <1>4 DEF TokenAt
<1> QED
  BY <1>1, <1>5 DEF Located, Lexeme, EndToken

(* The token that scan() gives, from a place on.                           *)
LEMMA Scanned ==
  ASSUME NEW f, Len(f) \in Nat, NEW k \in 1 .. End(f)
  PROVE  /\ ScanFrom(f, k).start = TokenStart(f, k)
         /\ TokenStart(f, k) \in 1 .. End(f)
         /\ ScanFrom(f, TokenStart(f, k)) = ScanFrom(f, k)
         /\ ScanFrom(f, k).to \in 1 .. End(f)
         /\ ScanFrom(f, k).ok \in BOOLEAN
         /\ TokenStart(f, k) # End(f) => k < ScanFrom(f, k).to
         /\ TokenStart(f, k) = End(f) => ScanFrom(f, k) = EndToken(f)
<1> DEFINE b == TokenStart(f, k)
<1>1. b \in k .. End(f) /\ TokenStart(f, b) = b
  BY TokenStartPlace
<1>2. b \in 1 .. End(f) /\ End(f) \in Nat
  BY <1>1, EndType
<1>3. ScanFrom(f, k) = Located(f, b) /\ ScanFrom(f, b) = Located(f, b)
  BY <1>1 DEF ScanFrom
<1>4. CASE b < End(f)
  <2>1. IsLexeme(Located(f, b), b + 1, End(f)) /\ Located(f, b).start = b
    BY <1>2, <1>4, TokenMoves
  <2>2. Located(f, b).to \in b + 1 .. End(f) /\ Located(f, b).ok \in BOOLEAN
    BY <2>1 DEF IsLexeme
  <2>3. Located(f, b).to \in 1 .. End(f) /\ k < Located(f, b).to
    BY <1>1, <1>2, <2>2
  <2>4. b # End(f)
    BY <1>2, <1>4
  <2> HIDE DEF b
  <2> QED
    BY <1>2, <1>3, <2>1, <2>2, <2>3, <2>4 DEF b
<1>5. CASE b = End(f)
  <2>1. ScanFrom(f, k) = EndToken(f)
    BY <1>3, <1>5, TokenAtEnd
  <2>2. /\ ScanFrom(f, k).start = End(f) /\ ScanFrom(f, k).to = End(f)
        /\ ScanFrom(f, k).ok \in BOOLEAN
    BY <2>1, EndTokenFields
  <2> QED
    BY <1>2, <1>3, <1>5, <2>1, <2>2
<1> QED
  BY <1>2, <1>4, <1>5

(* The tokens from a place on are the one that scan() gives and those from *)
(* its end on.                                                             *)
TokensOf(f) == {ScanFrom(f, j) : j \in 1 .. End(f)}

LEMMA TokensUnfold ==
  ASSUME NEW f, Len(f) \in Nat, NEW k \in 1 .. End(f)
  PROVE  /\ TokensFrom(f, k) \in Seq(TokensOf(f))
         /\ TokensFrom(f, k) =
              IF TokenStart(f, k) = End(f) THEN << >>
              ELSE <<ScanFrom(f, k)>> \o TokensFrom(f, ScanFrom(f, k).to)
<1> DEFINE E    == End(f)
           V    == Seq(TokensOf(f))
           stop == {j \in 1 .. E : TokenStart(f, j) = End(f)}
           val  == [j \in 1 .. E |-> << >>]
           onw  == [j \in 1 .. E |-> ScanFrom(f, j).to]
           with == [j \in 1 .. E |-> [ts \in V |-> <<ScanFrom(f, j)>> \o ts]]
           body(g) == [j \in 1 .. End(f) |->
                         IF TokenStart(f, j) = End(f) THEN << >>
                         ELSE LET tok == ScanFrom(f, j) IN <<tok>> \o g[tok.to]]
           from == CHOOSE g : g = body(g)
<1>1. E \in Nat /\ val \in [1 .. E -> V]
  BY EndType
<1>2. \A j \in 1 .. E : onw[j] \in 1 .. E
  BY Scanned
<1>3. GoesOn(E, stop, onw)
  BY Scanned DEF GoesOn
<1>4. with \in [1 .. E -> [V -> V]]
  <2>1. ASSUME NEW j \in 1 .. E, NEW ts \in V PROVE <<ScanFrom(f, j)>> \o ts \in V
    <3>1. ScanFrom(f, j) \in TokensOf(f)
      BY DEF TokensOf
    <3> QED
      BY <3>1
  <2> HIDE DEF V
  <2> QED
    BY <2>1
<1>5. PICK g \in [1 .. E -> V] : Recursive(g, 1, E, stop, val, onw, with)
  <2> HIDE DEF E, V, stop, val, onw, with, body, from
  <2> QED
    BY <1>1, <1>3, <1>4, Recursion
<1>6. \A j \in 1 .. E : g[j] \in V /\ g[onw[j]] \in V
  <2> HIDE DEF V, stop, val, onw, with, body, from
  <2> QED
    BY <1>2
<1>7. \A j \in 1 .. E : g[j] = body(g)[j]
  <2> SUFFICES ASSUME NEW j \in 1 .. E PROVE g[j] = body(g)[j]
    OBVIOUS
  <2>1. g[j] = IF j \in stop THEN val[j] ELSE with[j][g[onw[j]]]
    BY <1>5 DEF Recursive
  <2>2. with[j][g[onw[j]]] = <<ScanFrom(f, j)>> \o g[ScanFrom(f, j).to]
    <3> HIDE DEF V
    <3> QED
      BY <1>6
  <2> HIDE DEF with
  <2> QED
    BY <2>1, <2>2
<1>8. g = body(g)
  <2>1. DOMAIN g = 1 .. End(f) /\ DOMAIN body(g) = 1 .. End(f)
    OBVIOUS
  <2>2. body(g) = [j \in 1 .. End(f) |-> body(g)[j]] /\ g = [j \in 1 .. End(f) |-> g[j]]
    OBVIOUS
  <2> HIDE DEF body
  <2> QED
    BY <1>7, <2>2
<1>9. from = body(from)
  <2> HIDE DEF body
  <2> QED
    BY <1>8
<1>10. \A j \in 1 .. E : from[j] = IF TokenStart(f, j) = End(f) THEN << >>
                                 ELSE <<ScanFrom(f, j)>> \o from[ScanFrom(f, j).to]
  <2> HIDE DEF from
  <2> QED
    BY <1>9
<1>11. \A j \in 1 .. E : from[j] \in V
  <2> DEFINE Bad == {m \in 0 .. E : m # 0 /\ from[m] \notin V}
  <2> HIDE DEF V, stop, val, with, body, from
  <2>1. CASE Bad = {}
    BY <1>1, <2>1
  <2>2. CASE Bad # {}
    <3>1. PICK m \in Bad : \A y \in Bad : y <= m
      BY <1>1, <2>2, GreatestOf
    <3>2. m \in 1 .. E /\ from[m] \notin V
      BY <1>1, <3>1
    <3>3. << >> \in V
      BY DEF V
    <3>4. TokenStart(f, m) # End(f)
      BY <1>10, <3>2, <3>3
    <3> DEFINE to == ScanFrom(f, m).to
    <3>5. to \in 1 .. E /\ m < to
      BY <3>2, <3>4, Scanned
    <3>6. to \in 0 .. E /\ to # 0 /\ to \notin Bad
      BY <1>1, <3>1, <3>5
    <3>7. from[to] \in V
      BY <3>6
    <3>8. <<ScanFrom(f, m)>> \o from[to] \in V
      <4>1. ScanFrom(f, m) \in TokensOf(f)
        BY <3>2 DEF TokensOf
      <4> HIDE DEF to
      <4> QED
        BY <3>7, <4>1 DEF V
    <3> QED
      BY <1>10, <3>2, <3>4, <3>8
  <2> QED
    BY <2>1, <2>2
<1>12. \A j \in 1 .. E : TokensFrom(f, j) = from[j]
  BY DEF TokensFrom
<1>13. ScanFrom(f, k).to \in 1 .. E
  BY Scanned
<1> QED
  <2> HIDE DEF from
  <2> QED
    BY <1>10, <1>11, <1>12, <1>13

(* The same with the errors among them.                                    *)
Failed(t)      == ~t.ok
Bad(ts)        == {j \in DOMAIN ts : Failed(ts[j])}
ErrorsOf(f, k) == Cardinality(Bad(TokensFrom(f, k)))

LEMMA BadCons ==
  ASSUME NEW A, NEW t \in A, NEW ts \in Seq(A)
  PROVE  /\ IsFiniteSet(Bad(ts)) /\ Cardinality(Bad(ts)) \in Nat
         /\ Cardinality(Bad(<<t>> \o ts)) =
              Cardinality(Bad(ts)) + (IF Failed(t) THEN 1 ELSE 0)
<1> DEFINE all == <<t>> \o ts
           up  == {j + 1 : j \in Bad(ts)}
           h   == [j \in Bad(ts) |-> j + 1]
<1>1. /\ DOMAIN all = 1 .. Len(ts) + 1 /\ all[1] = t
      /\ \A j \in 1 .. Len(ts) : all[j + 1] = ts[j]
      /\ DOMAIN ts = 1 .. Len(ts) /\ Len(ts) \in Nat
  <2>1. <<t>> \in Seq(A) /\ Len(<<t>>) = 1 /\ <<t>>[1] = t
    OBVIOUS
  <2>2. /\ all \in Seq(A) /\ Len(all) = 1 + Len(ts)
        /\ \A i \in 1 .. 1 + Len(ts) : all[i] = IF i <= 1 THEN <<t>>[i] ELSE ts[i - 1]
    BY <2>1, ConcatProperties
  <2>3. Len(ts) \in Nat /\ DOMAIN ts = 1 .. Len(ts) /\ DOMAIN all = 1 .. Len(all)
    BY <2>2, LenProperties
  <2> HIDE DEF all
  <2> QED
    BY <2>1, <2>2, <2>3
<1>2. Bad(ts) \in SUBSET (1 .. Len(ts)) /\ Bad(ts) \subseteq Nat
  BY <1>1 DEF Bad
<1>3. IsFiniteSet(Bad(ts))
  <2>1. IsFiniteSet(1 .. Len(ts))
    BY <1>1, FS_Interval
  <2> QED
    BY <1>2, <2>1, FS_Subset
<1>4. h \in Bijection(Bad(ts), up)
  <2>1. h \in [Bad(ts) -> up]
    OBVIOUS
  <2>2. \A i, j \in Bad(ts) : h[i] = h[j] => i = j
    BY <1>2
  <2>3. \A u \in up : \E j \in Bad(ts) : h[j] = u
    OBVIOUS
  <2> HIDE DEF h, up
  <2> QED
    BY <2>1, <2>2, <2>3, Fun_IsBij
<1>5. IsFiniteSet(up) /\ Cardinality(up) = Cardinality(Bad(ts))
  <2> HIDE DEF h, up
  <2>1. ExistsBijection(Bad(ts), up)
    BY <1>4 DEF ExistsBijection
  <2> QED
    BY <1>3, <2>1, FS_Bijection
<1>6. Cardinality(Bad(ts)) \in Nat
  BY <1>3, FS_CardinalityType
<1>7. 1 \notin up
  BY <1>2
<1>8. \A j \in 1 .. Len(ts) : j + 1 \in Bad(all) <=> j \in Bad(ts)
  <2> HIDE DEF all
  <2> QED
    BY <1>1 DEF Bad
<1>9. 1 \in Bad(all) <=> Failed(t)
  <2> HIDE DEF all
  <2> QED
    BY <1>1 DEF Bad
<1>10. Bad(all) \subseteq 1 .. Len(ts) + 1
  <2> HIDE DEF all
  <2> QED
    BY <1>1 DEF Bad
<1>11. \A i \in 1 .. Len(ts) + 1 : i # 1 => (i \in Bad(all) <=> i \in up)
  <2> SUFFICES ASSUME NEW i \in 1 .. Len(ts) + 1, i # 1
               PROVE  i \in Bad(all) <=> i \in up
    OBVIOUS
  <2>1. i - 1 \in 1 .. Len(ts) /\ (i - 1) + 1 = i
    BY <1>1
  <2>2. i \in Bad(all) <=> i - 1 \in Bad(ts)
    <3> HIDE DEF all
    <3> QED
      BY <1>8, <2>1
  <2>3. i \in up <=> i - 1 \in Bad(ts)
    BY <1>2, <2>1
  <2> HIDE DEF all, up
  <2> QED
    BY <2>2, <2>3
<1>12. CASE Failed(t)
  <2>1. Bad(all) = up \union {1}
    <3>1. up \subseteq 1 .. Len(ts) + 1
      BY <1>1, <1>2
    <3>2. 1 \in 1 .. Len(ts) + 1
      BY <1>1
    <3> HIDE DEF all, up
    <3> QED
      BY <1>9, <1>10, <1>11, <1>12, <3>1, <3>2
  <2> HIDE DEF all, up
  <2>2. Cardinality(up \union {1}) = Cardinality(up) + 1
    BY <1>5, <1>7, FS_AddElement
  <2> QED
    BY <1>3, <1>5, <1>6, <1>12, <2>1, <2>2 DEF all
<1>13. CASE ~Failed(t)
  <2>1. Bad(all) = up
    <3>1. up \subseteq 1 .. Len(ts) + 1
      BY <1>1, <1>2
    <3> HIDE DEF all, up
    <3>2. \A i \in 1 .. Len(ts) + 1 : i \in Bad(all) <=> i \in up
      BY <1>7, <1>9, <1>11, <1>13
    <3> QED
      BY <1>10, <3>1, <3>2
  <2> HIDE DEF all, up
  <2> QED
    BY <1>3, <1>5, <1>6, <1>13, <2>1 DEF all
<1> QED
  BY <1>12, <1>13

LEMMA ErrorsUnfold ==
  ASSUME NEW f, Len(f) \in Nat, NEW k \in 1 .. End(f)
  PROVE  /\ ErrorsOf(f, k) \in Nat
         /\ ErrorsOf(f, k) =
              ErrorsOf(f, ScanFrom(f, k).to) + (IF Failed(ScanFrom(f, k)) THEN 1 ELSE 0)
<1> DEFINE tok == ScanFrom(f, k)
<1>1. tok \in TokensOf(f) /\ tok.to \in 1 .. End(f)
  BY Scanned DEF TokensOf
<1>2. TokensFrom(f, k) \in Seq(TokensOf(f)) /\ TokensFrom(f, tok.to) \in Seq(TokensOf(f))
  BY <1>1, TokensUnfold
<1>3. ErrorsOf(f, k) \in Nat /\ ErrorsOf(f, tok.to) \in Nat
  BY <1>1, <1>2, BadCons DEF ErrorsOf
<1>4. CASE TokenStart(f, k) # End(f)
  <2>1. TokensFrom(f, k) = <<tok>> \o TokensFrom(f, tok.to)
    BY <1>4, TokensUnfold
  <2> HIDE DEF tok
  <2>2. Cardinality(Bad(<<tok>> \o TokensFrom(f, tok.to))) =
          Cardinality(Bad(TokensFrom(f, tok.to))) + (IF Failed(tok) THEN 1 ELSE 0)
    BY <1>1, <1>2, BadCons
  <2>3. ErrorsOf(f, k) = ErrorsOf(f, tok.to) + (IF Failed(tok) THEN 1 ELSE 0)
    BY <2>1, <2>2 DEF ErrorsOf
  <2> QED
    BY <1>3, <2>3 DEF tok
<1>5. CASE TokenStart(f, k) = End(f)
  <2>1. ~Failed(tok) /\ tok.to = End(f)
    BY <1>5, Scanned, EndTokenFields DEF Failed
  <2>2. TokenStart(f, End(f)) = End(f)
    BY <1>5, TokenStartPlace
  <2>3. TokensFrom(f, k) = << >> /\ TokensFrom(f, End(f)) = << >>
    BY <1>5, <2>2, TokensUnfold, EndType
  <2>4. ErrorsOf(f, k) = ErrorsOf(f, tok.to)
    BY <2>1, <2>3 DEF ErrorsOf
  <2> HIDE DEF tok
  <2>5. ErrorsOf(f, k) = ErrorsOf(f, tok.to) + (IF Failed(tok) THEN 1 ELSE 0)
    BY <1>3, <2>1, <2>4
  <2> QED
    BY <1>3, <2>5 DEF tok
<1> QED
  BY <1>4, <1>5

-----------------------------------------------------------------------------
(* The tokens as the parsers see them.                                     *)
AsSeen(ts) == [j \in DOMAIN ts |-> Seen(ts[j])]

LEMMA AsSeenCons ==
  ASSUME NEW A, NEW t \in A, NEW ts \in Seq(A)
  PROVE  /\ AsSeen(<<t>> \o ts) # << >>
         /\ Head(AsSeen(<<t>> \o ts)) = Seen(t)
         /\ Tail(AsSeen(<<t>> \o ts)) = AsSeen(ts)
<1> DEFINE B   == {Seen(a) : a \in A}
           all == <<t>> \o ts
<1>1. /\ all \in Seq(A) /\ Len(all) = Len(ts) + 1 /\ all[1] = t
      /\ \A j \in 1 .. Len(ts) : all[j + 1] = ts[j]
      /\ Len(ts) \in Nat
  <2>1. <<t>> \in Seq(A) /\ Len(<<t>>) = 1 /\ <<t>>[1] = t
    OBVIOUS
  <2>2. /\ all \in Seq(A) /\ Len(all) = 1 + Len(ts)
        /\ \A i \in 1 .. 1 + Len(ts) : all[i] = IF i <= 1 THEN <<t>>[i] ELSE ts[i - 1]
    BY <2>1, ConcatProperties
  <2>3. Len(ts) \in Nat
    BY LenProperties
  <2> HIDE DEF all
  <2> QED
    BY <2>1, <2>2, <2>3
<1>2. ASSUME NEW s \in Seq(A)
      PROVE  /\ AsSeen(s) \in Seq(B) /\ Len(AsSeen(s)) = Len(s)
             /\ \A j \in 1 .. Len(s) : AsSeen(s)[j] = Seen(s[j])
  <2>1. DOMAIN s = 1 .. Len(s) /\ Len(s) \in Nat /\ \A j \in 1 .. Len(s) : s[j] \in A
    BY LenProperties
  <2>2. AsSeen(s) = [j \in 1 .. Len(s) |-> Seen(s[j])]
    BY <2>1 DEF AsSeen
  <2>3. \A j \in 1 .. Len(s) : Seen(s[j]) \in B
    BY <2>1
  <2> HIDE DEF B
  <2> QED
    BY <2>1, <2>2, <2>3
<1>3. /\ AsSeen(all) \in Seq(B) /\ Len(AsSeen(all)) = Len(ts) + 1
      /\ AsSeen(all)[1] = Seen(t)
      /\ \A j \in 1 .. Len(ts) : AsSeen(all)[j + 1] = Seen(ts[j])
  <2> HIDE DEF all, B
  <2> QED
    BY <1>1, <1>2, SMTT(30)
<1>4. AsSeen(all) # << >>
  <2> HIDE DEF all, B
  <2> QED
    BY <1>1, <1>3
<1>5. Head(AsSeen(all)) = Seen(t)
  <2> HIDE DEF all, B
  <2> QED
    BY <1>3, <1>4
<1>6. /\ Tail(AsSeen(all)) \in Seq(B) /\ Len(Tail(AsSeen(all))) = Len(ts)
      /\ \A j \in 1 .. Len(ts) : Tail(AsSeen(all))[j] = Seen(ts[j])
  <2> HIDE DEF all, B
  <2>1. /\ Tail(AsSeen(all)) \in Seq(B)
        /\ Len(Tail(AsSeen(all))) = Len(AsSeen(all)) - 1
        /\ \A i \in 1 .. Len(Tail(AsSeen(all))) : Tail(AsSeen(all))[i] = AsSeen(all)[i + 1]
    BY <1>3, <1>4, HeadTailProperties
  <2> QED
    BY <1>1, <1>3, <2>1
<1>7. Tail(AsSeen(all)) = AsSeen(ts)
  <2> HIDE DEF all, B
  <2> QED
    BY <1>2, <1>6, SeqEqual
<1> QED
  BY <1>4, <1>5, <1>7

LEMMA AsSeenNone == AsSeen(<< >>) = << >>
BY DEF AsSeen

(* A token that is looked at is the first of the stream, and behind it are *)
(* the others.                                                             *)
LEMMA StreamUnfold ==
  ASSUME NEW f \in Files, NEW k \in 1 .. End(f)
  PROVE  /\ Stream!Front(StreamOf[f][k]) = Seen(ScanFrom(f, k))
         /\ Stream!Rest(StreamOf[f][k]) = StreamOf[f][ScanFrom(f, k).to]
         /\ StreamOf[f][ScanFrom(f, k).start] = StreamOf[f][k]
<1> DEFINE tok == ScanFrom(f, k)
<1>1. Len(f) \in Nat
  BY ScannerAssumption
<1>2. \A j \in 1 .. End(f) : StreamOf[f][j] = AsSeen(TokensFrom(f, j))
  BY DEF StreamOf, AsSeen
<1>3. /\ tok.to \in 1 .. End(f) /\ tok \in TokensOf(f)
      /\ tok.start = TokenStart(f, k) /\ TokenStart(f, k) \in 1 .. End(f)
      /\ ScanFrom(f, TokenStart(f, k)) = tok
      /\ TokenStart(f, TokenStart(f, k)) = TokenStart(f, k)
  BY <1>1, Scanned, TokenStartPlace DEF TokensOf
<1>4. /\ TokensFrom(f, tok.to) \in Seq(TokensOf(f))
      /\ TokensFrom(f, k) = IF TokenStart(f, k) = End(f) THEN << >>
                            ELSE <<tok>> \o TokensFrom(f, tok.to)
  BY <1>1, <1>3, TokensUnfold
<1>5. TokensFrom(f, TokenStart(f, k)) = TokensFrom(f, k)
  <2>1. TokensFrom(f, TokenStart(f, k)) =
          IF TokenStart(f, TokenStart(f, k)) = End(f) THEN << >>
          ELSE <<ScanFrom(f, TokenStart(f, k))>>
                 \o TokensFrom(f, ScanFrom(f, TokenStart(f, k)).to)
    BY <1>1, <1>3, TokensUnfold
  <2> HIDE DEF tok
  <2> QED
    BY <1>3, <1>4, <2>1
<1>6. StreamOf[f][tok.start] = StreamOf[f][k]
  <2> HIDE DEF tok
  <2> QED
    BY <1>2, <1>3, <1>5
<1>7. CASE TokenStart(f, k) # End(f)
  <2> HIDE DEF tok
  <2>1. /\ StreamOf[f][k] # << >> /\ Head(StreamOf[f][k]) = Seen(tok)
        /\ Tail(StreamOf[f][k]) = AsSeen(TokensFrom(f, tok.to))
    <3>1. StreamOf[f][k] = AsSeen(<<tok>> \o TokensFrom(f, tok.to))
      BY <1>2, <1>4, <1>7
    <3>2. tok \in TokensOf(f) /\ TokensFrom(f, tok.to) \in Seq(TokensOf(f))
      BY <1>3, <1>4
    <3> QED
      BY <3>1, <3>2, AsSeenCons
  <2> QED
    BY <1>2, <1>3, <1>6, <2>1 DEF tok, Stream!Front, Stream!Rest
<1>8. CASE TokenStart(f, k) = End(f)
  <2>1. Seen(tok) = Stream!EOF /\ tok.to = End(f)
    BY <1>1, <1>8, Scanned, EndTokenFields DEF Seen, Stream!EOF
  <2>2. TokensFrom(f, k) = << >> /\ StreamOf[f][k] = << >>
    BY <1>2, <1>4, <1>8, AsSeenNone
  <2>3. StreamOf[f][tok.to] = << >>
    BY <1>3, <1>6, <1>8, <2>1, <2>2
  <2> QED
    BY <1>6, <2>1, <2>2, <2>3 DEF Stream!Front, Stream!Rest
<1> QED
  BY <1>7, <1>8

-----------------------------------------------------------------------------
(* The inductive invariant: a token in the buffer is that of some place,   *)
(* and the file stands behind it.                                          *)
SInv ==
  /\ file \in Files
  /\ TypeOK
  /\ buffered => \E k \in 1 .. End(file) : peek = ScanFrom(file, k) /\ peek.to = at

LEMMA InvInit == Init => SInv
<1> SUFFICES ASSUME Init PROVE SInv
  OBVIOUS
<1>1. Len(file) \in Nat
  BY ScannerAssumption DEF Init
<1>2. peek.start = 1 /\ peek.to = 1
  BY DEF Init, Lexeme
<1>3. /\ file \in Files /\ at = 1 /\ reported = 0 /\ zap = None
      /\ buffered \in BOOLEAN /\ ~buffered
  BY DEF Init
<1>4. End(file) \in Nat /\ 1 \in 1 .. End(file)
  BY <1>1, EndType
<1>5. TypeOK
  BY <1>2, <1>3, <1>4 DEF TypeOK
<1> QED
  BY <1>3, <1>5 DEF SInv

LEMMA NextTokenFacts ==
  ASSUME SInv
  PROVE  /\ Len(file) \in Nat
         /\ \E k \in 1 .. End(file) : /\ NextToken = ScanFrom(file, k)
                                      /\ ~buffered => k = at
         /\ buffered => NextToken.to = at
         /\ NextToken.start \in 1 .. End(file)
         /\ NextToken.to \in 1 .. End(file) /\ at <= NextToken.to
         /\ Stream!Front(Ahead) = Seen(NextToken)
         /\ Stream!Rest(Ahead) = StreamOf[file][NextToken.to]
         /\ StreamOf[file][NextToken.start] = Ahead
<1>1. /\ file \in Files /\ Len(file) \in Nat /\ at \in 1 .. End(file) /\ End(file) \in Nat
      /\ buffered \in BOOLEAN
  BY ScannerAssumption, EndType DEF SInv, TypeOK
<1>2. CASE buffered
  <2>1. PICK k \in 1 .. End(file) : peek = ScanFrom(file, k) /\ peek.to = at
    BY <1>2 DEF SInv
  <2>2. NextToken = ScanFrom(file, k) /\ Ahead = StreamOf[file][ScanFrom(file, k).start]
    BY <1>2, <2>1 DEF NextToken, Ahead
  <2>3. NextToken.start \in 1 .. End(file)
    BY <1>1, <2>2, Scanned
  <2>4. /\ Stream!Front(StreamOf[file][k]) = Seen(ScanFrom(file, k))
        /\ Stream!Rest(StreamOf[file][k]) = StreamOf[file][ScanFrom(file, k).to]
        /\ StreamOf[file][ScanFrom(file, k).start] = StreamOf[file][k]
    BY <1>1, StreamUnfold
  <2> QED
    BY <1>1, <1>2, <2>1, <2>2, <2>3, <2>4
<1>3. CASE ~buffered
  <2>1. NextToken = ScanFrom(file, at) /\ Ahead = StreamOf[file][at]
    BY <1>3 DEF NextToken, Ahead
  <2>2. /\ NextToken.start \in 1 .. End(file) /\ NextToken.to \in 1 .. End(file)
        /\ at <= NextToken.to
    <3>1. TokenStart(file, at) = End(file) => ScanFrom(file, at).to = End(file)
      BY <1>1, Scanned, EndTokenFields
    <3>2. /\ ScanFrom(file, at).start \in 1 .. End(file)
          /\ ScanFrom(file, at).to \in 1 .. End(file)
          /\ TokenStart(file, at) # End(file) => at < ScanFrom(file, at).to
      BY <1>1, Scanned
    <3> QED
      BY <1>1, <2>1, <3>1, <3>2
  <2>3. /\ Stream!Front(StreamOf[file][at]) = Seen(ScanFrom(file, at))
        /\ Stream!Rest(StreamOf[file][at]) = StreamOf[file][ScanFrom(file, at).to]
        /\ StreamOf[file][ScanFrom(file, at).start] = StreamOf[file][at]
    BY <1>1, StreamUnfold
  <2> QED
    BY <1>1, <1>3, <2>1, <2>2, <2>3
<1> QED
  BY <1>2, <1>3

-----------------------------------------------------------------------------
(* What a step does: the next token stays in the buffer, or is passed, or  *)
(* nothing is read at all.                                                 *)
Keeps  == Read /\ file' = file /\ peek' = NextToken /\ buffered' = TRUE
Passes == Read /\ file' = file /\ peek' \in {peek, NextToken} /\ buffered' = FALSE
Still  == UNCHANGED <<file, at, buffered, peek, reported>>

LEMMA Kinds ==
  ASSUME Next, zap \in Wanted \union {None, STATEMENT}
  PROVE  /\ zap' \in Wanted \union {None, STATEMENT}
         /\ \/ Keeps /\ given' = Seen(NextToken)
            \/ Keeps /\ given' = Nothing /\ \E type \in Wanted : NextToken.type # type
            \/ Keeps /\ given' = given
            \/ Passes /\ given' = Seen(NextToken)
            \/ Passes /\ given' = Nothing
            \/ Still /\ given' = given
<1>1. CASE Peek
  BY <1>1 DEF Peek, Keeps
<1>2. CASE Scan
  BY <1>2 DEF Scan, Passes
<1>3. CASE ScanNull
  BY <1>3 DEF ScanNull, Discard, Passes
<1>4. ASSUME NEW type \in Wanted, expect(type)
      PROVE  /\ zap' = zap
             /\ \/ Keeps /\ given' = Nothing /\ NextToken.type # type
                \/ Passes /\ given' = Seen(NextToken)
  <2>1. CASE NextToken.type = type
    <3>1. buffered' = FALSE
      BY <1>4, <2>1 DEF expect
    <3> QED
      BY <1>4, <2>1, <3>1 DEF expect, Passes
  <2>2. CASE NextToken.type # type
    <3>1. buffered' = TRUE
      BY <1>4, <2>2 DEF expect
    <3> QED
      BY <1>4, <2>2, <3>1 DEF expect, Keeps
  <2> QED
    BY <2>1, <2>2
<1>5. ASSUME NEW type \in Wanted, zap_to(type)
      PROVE  zap' = type /\ Still /\ given' = given
  BY <1>5 DEF zap_to, Still
<1>6. CASE zap_statement
  BY <1>6 DEF zap_statement, Still
<1>7. CASE ZapStep
  BY <1>7 DEF ZapStep, Discard, Keeps, Passes
<1>8. CASE ZapStatementStep
  BY <1>8 DEF ZapStatementStep, Passes, Still
<1> QED
  BY <1>1, <1>2, <1>3, <1>4, <1>5, <1>6, <1>7, <1>8 DEF Next

LEMMA ReadFacts ==
  ASSUME SInv, Read, file' = file
  PROVE  /\ at' = NextToken.to /\ reported' \in Nat
         /\ ReportedOnce => ReportedOnce'
<1>1. /\ Len(file) \in Nat /\ at \in 1 .. End(file) /\ reported \in Nat
      /\ buffered \in BOOLEAN
  BY NextTokenFacts DEF SInv, TypeOK
<1>2. ReportedOnce <=> reported + ErrorsOf(file, at) = ErrorsOf(file, 1)
  BY DEF ReportedOnce, Errors, ErrorsOf, Bad, Failed
<1>3. ReportedOnce' <=> reported' + ErrorsOf(file, at') = ErrorsOf(file, 1)
  BY DEF ReportedOnce, Errors, ErrorsOf, Bad, Failed
<1>4. CASE buffered
  <2>1. at' = at /\ reported' = reported /\ NextToken.to = at
    BY <1>4, NextTokenFacts DEF Read
  <2> QED
    BY <1>1, <1>2, <1>3, <2>1
<1>5. CASE ~buffered
  <2>1. NextToken = ScanFrom(file, at)
    BY <1>5 DEF NextToken
  <2>2. at' = NextToken.to /\ reported' = reported + (IF Failed(NextToken) THEN 1 ELSE 0)
    BY <1>5 DEF Read, Failed
  <2>3. /\ ErrorsOf(file, at) \in Nat /\ ErrorsOf(file, NextToken.to) \in Nat
        /\ ErrorsOf(file, 1) \in Nat
        /\ ErrorsOf(file, at) =
             ErrorsOf(file, NextToken.to) + (IF Failed(NextToken) THEN 1 ELSE 0)
    BY <1>1, <2>1, ErrorsUnfold, NextTokenFacts, EndType
  <2> QED
    BY <1>1, <1>2, <1>3, <2>2, <2>3
<1> QED
  BY <1>1, <1>4, <1>5

LEMMA InvKeeps == SInv /\ Keeps /\ zap' \in Wanted \union {None, STATEMENT} => SInv'
<1> SUFFICES ASSUME SInv, Keeps, zap' \in Wanted \union {None, STATEMENT} PROVE SInv'
  OBVIOUS
<1>1. /\ file' = file /\ peek' = NextToken /\ buffered' /\ buffered' \in BOOLEAN
      /\ at' = NextToken.to /\ reported' \in Nat /\ file \in Files
  BY ReadFacts DEF Keeps, SInv
<1>2. TypeOK'
  BY <1>1, NextTokenFacts DEF TypeOK
<1>3. \E k \in 1 .. End(file) : peek' = ScanFrom(file, k) /\ peek'.to = at'
  BY <1>1, NextTokenFacts
<1> QED
  BY <1>1, <1>2, <1>3 DEF SInv

LEMMA InvPasses == SInv /\ Passes /\ zap' \in Wanted \union {None, STATEMENT} => SInv'
<1> SUFFICES ASSUME SInv, Passes, zap' \in Wanted \union {None, STATEMENT} PROVE SInv'
  OBVIOUS
<1>1. /\ file' = file /\ peek' \in {peek, NextToken} /\ ~buffered' /\ buffered' \in BOOLEAN
      /\ at' = NextToken.to /\ reported' \in Nat /\ file \in Files
  BY ReadFacts DEF Passes, SInv
<1>2. /\ peek.start \in 1 .. End(file) /\ peek.to \in 1 .. at
      /\ at \in 1 .. End(file) /\ End(file) \in Nat
  BY NextTokenFacts, EndType DEF SInv, TypeOK
<1>3. peek'.start \in 1 .. End(file) /\ peek'.to \in 1 .. at'
  BY <1>1, <1>2, NextTokenFacts
<1>4. at' \in 1 .. End(file)
  BY <1>1, NextTokenFacts
<1>5. TypeOK'
  BY <1>1, <1>3, <1>4 DEF TypeOK
<1> QED
  BY <1>1, <1>5 DEF SInv

LEMMA InvStill == SInv /\ Still /\ zap' \in Wanted \union {None, STATEMENT} => SInv'
BY DEF SInv, TypeOK, Still

LEMMA InvNext == SInv /\ [Next]_vars => SInv'
<1> SUFFICES ASSUME SInv, [Next]_vars PROVE SInv'
  OBVIOUS
<1>1. zap \in Wanted \union {None, STATEMENT}
  BY DEF SInv, TypeOK
<1>2. CASE Next
  <2>1. /\ zap' \in Wanted \union {None, STATEMENT}
        /\ Keeps \/ Passes \/ Still
    BY <1>1, <1>2, Kinds
  <2> QED
    BY <2>1, InvKeeps, InvPasses, InvStill
<1>3. CASE UNCHANGED vars
  <2>1. Still /\ zap' = zap
    BY <1>3 DEF vars, Still
  <2> QED
    BY <1>1, <2>1, InvStill
<1> QED
  BY <1>2, <1>3

(* Whatever the parsers call, in whatever order, the file stands at a      *)
(* place of it and the buffered token ends there.                          *)
THEOREM TypeCorrect == Spec => []TypeOK
<1>1. Spec => []SInv
  BY InvInit, InvNext, PTL DEF Spec
<1>2. SInv => TypeOK
  BY DEF SInv
<1> QED
  BY <1>1, <1>2, PTL

-----------------------------------------------------------------------------
(* The count of errors is that of the places between which the file has    *)
(* been read.                                                              *)
LEMMA ReportedInit == Init => ReportedOnce
<1> SUFFICES ASSUME Init PROVE ReportedOnce
  OBVIOUS
<1>1. Len(file) \in Nat /\ at = 1 /\ reported = 0
  BY ScannerAssumption DEF Init
<1>2. ErrorsOf(file, 1) \in Nat
  BY <1>1, ErrorsUnfold, EndType
<1> QED
  BY <1>1, <1>2 DEF ReportedOnce, Errors, ErrorsOf, Bad, Failed

LEMMA ReportedNext == SInv /\ ReportedOnce /\ [Next]_vars => ReportedOnce'
<1> SUFFICES ASSUME SInv, ReportedOnce, [Next]_vars PROVE ReportedOnce'
  OBVIOUS
<1>1. zap \in Wanted \union {None, STATEMENT}
  BY DEF SInv, TypeOK
<1>2. ASSUME Still PROVE ReportedOnce'
  BY <1>2 DEF Still, ReportedOnce, Errors
<1>3. CASE Next
  <2>1. Keeps \/ Passes \/ Still
    BY <1>1, <1>3, Kinds
  <2>2. Keeps \/ Passes => Read /\ file' = file
    BY DEF Keeps, Passes
  <2> QED
    BY <1>2, <2>1, <2>2, ReadFacts
<1>4. CASE UNCHANGED vars
  BY <1>2, <1>4 DEF vars, Still
<1> QED
  BY <1>3, <1>4

(* Each lexical error of a file is reported once, by whichever call comes  *)
(* to its token first.                                                     *)
THEOREM ErrorsAreReportedOnce == Spec => []ReportedOnce
<1>1. Init => SInv /\ ReportedOnce
  BY InvInit, ReportedInit
<1>2. SInv /\ ReportedOnce /\ [Next]_vars => (SInv /\ ReportedOnce)'
  BY InvNext, ReportedNext
<1> QED
  BY <1>1, <1>2, PTL DEF Spec

-----------------------------------------------------------------------------
(* The refinement.                                                         *)
LEMMA AheadNext ==
  ASSUME SInv
  PROVE  /\ Keeps => Ahead' = Ahead
         /\ Passes => Ahead' = Stream!Rest(Ahead)
         /\ Still => Ahead' = Ahead
<1>1. ASSUME Keeps PROVE Ahead' = Ahead
  <2>1. Ahead' = StreamOf[file][NextToken.start]
    BY <1>1 DEF Keeps, Ahead
  <2> QED
    BY <2>1, NextTokenFacts
<1>2. ASSUME Passes PROVE Ahead' = Stream!Rest(Ahead)
  <2>1. at' = NextToken.to /\ file' = file /\ ~buffered'
    BY <1>2, ReadFacts DEF Passes
  <2>2. Ahead' = StreamOf[file][NextToken.to]
    BY <2>1 DEF Ahead
  <2> QED
    BY <2>2, NextTokenFacts
<1>3. ASSUME Still PROVE Ahead' = Ahead
  BY <1>3 DEF Still, Ahead
<1> QED
  BY <1>1, <1>2, <1>3

LEMMA StreamInit == Init => Stream!Init
<1> SUFFICES ASSUME Init PROVE Stream!Init
  OBVIOUS
<1>1. Ahead = StreamOf[file][1] /\ file \in Files
  BY DEF Init, Ahead
<1>2. Ahead \in FileStreams
  BY <1>1 DEF FileStreams
<1>3. given = Stream!Nothing
  BY DEF Init, Nothing, Stream!Nothing
<1> QED
  BY <1>2, <1>3 DEF Stream!Init

LEMMA StreamNext == SInv /\ [Next]_vars => [Stream!Next]_<<Ahead, given>>
<1> SUFFICES ASSUME SInv, [Next]_vars PROVE [Stream!Next]_<<Ahead, given>>
  OBVIOUS
<1>1. zap \in Wanted \union {None, STATEMENT}
  BY DEF SInv, TypeOK
<1>2. Stream!Front(Ahead) = Seen(NextToken) /\ Seen(NextToken).type = NextToken.type
  BY NextTokenFacts DEF Seen
<1>3. Nothing = Stream!Nothing
  BY DEF Nothing, Stream!Nothing
<1>4. CASE Next
  <2>1. CASE Keeps /\ given' = Seen(NextToken)
    <3>1. Stream!Look(Ahead)
      BY <1>2, <2>1, AheadNext DEF Stream!Look
    <3> QED
      BY <3>1 DEF Stream!Next
  <2>2. CASE Keeps /\ given' = Nothing /\ \E type \in Wanted : NextToken.type # type
    <3>1. PICK type \in Wanted : NextToken.type # type
      BY <2>2
    <3>2. Stream!Expect(Ahead, type)
      BY <1>2, <1>3, <2>2, <3>1, AheadNext DEF Stream!Expect
    <3> QED
      BY <3>2 DEF Stream!Next
  <2>3. CASE Passes /\ given' = Seen(NextToken)
    <3>1. Stream!Take(Ahead)
      BY <1>2, <2>3, AheadNext DEF Stream!Take
    <3> QED
      BY <3>1 DEF Stream!Next
  <2>4. CASE Passes /\ given' = Nothing
    <3>1. Stream!Skip(Ahead)
      BY <1>3, <2>4, AheadNext DEF Stream!Skip
    <3> QED
      BY <3>1 DEF Stream!Next
  <2>5. CASE (Keeps \/ Still) /\ given' = given
    BY <2>5, AheadNext
  <2> QED
    BY <1>1, <1>4, <2>1, <2>2, <2>3, <2>4, <2>5, Kinds
<1>5. CASE UNCHANGED vars
  <2>1. Still /\ given' = given
    BY <1>5 DEF vars, Still
  <2> QED
    BY <2>1, AheadNext
<1> QED
  BY <1>4, <1>5

(* Whatever the parsers call, they are given the tokens of the file in     *)
(* their order, each one once.                                             *)
THEOREM Refinement == Spec => ImplementsTokenStream
<1>1. Spec => []SInv
  BY InvInit, InvNext, PTL DEF Spec
<1>2. Spec => Stream!Init /\ [][Stream!Next]_<<Ahead, given>>
  BY <1>1, StreamInit, StreamNext, PTL DEF Spec
<1> QED
  BY <1>2 DEF ImplementsTokenStream, Stream!Spec
-----------------------------------------------------------------------------
(* What is ahead is a sequence, with the next token in front.              *)
LEMMA AheadIsASeq == SInv => \E B : Ahead \in Seq(B)
<1> SUFFICES ASSUME SInv PROVE \E B : Ahead \in Seq(B)
  OBVIOUS
<1>1. PICK k \in 1 .. End(file) : Ahead = StreamOf[file][k]
  BY DEF SInv, TypeOK, Ahead
<1>2. file \in Files /\ Len(file) \in Nat
  BY NextTokenFacts DEF SInv
<1>3. Ahead = AsSeen(TokensFrom(file, k))
  BY <1>1, <1>2 DEF StreamOf, AsSeen
<1>4. TokensFrom(file, k) \in Seq(TokensOf(file))
  BY <1>2, TokensUnfold
<1> HIDE DEF TokensOf
<1> DEFINE B == {Seen(a) : a \in TokensOf(file)}
           ts == TokensFrom(file, k)
<1>5. DOMAIN ts = 1 .. Len(ts) /\ Len(ts) \in Nat /\ \A j \in 1 .. Len(ts) : ts[j] \in TokensOf(file)
  BY <1>4, LenProperties
<1>6. AsSeen(ts) = [j \in 1 .. Len(ts) |-> Seen(ts[j])]
  BY <1>5 DEF AsSeen
<1>7. \A j \in 1 .. Len(ts) : Seen(ts[j]) \in B
  BY <1>5
<1>8. AsSeen(ts) \in Seq(B)
  <2> HIDE DEF B, ts
  <2> QED
    BY <1>5, <1>6, <1>7
<1> QED
  BY <1>3, <1>8

LEMMA FirstOfRest ==
  ASSUME NEW B, NEW s \in Seq(B), NEW k \in DOMAIN s
  PROVE  /\ DOMAIN s = 1 .. Len(s) /\ Len(s) \in Nat /\ k \in 1 .. Len(s)
         /\ Stream!Front(s) = s[1]
         /\ DOMAIN Stream!Rest(s) = 1 .. Len(s) - 1
         /\ \A j \in 1 .. Len(s) - 1 : Stream!Rest(s)[j] = s[j + 1]
<1>1. DOMAIN s = 1 .. Len(s) /\ Len(s) \in Nat
  BY LenProperties
<1>2. s # << >>
  BY <1>1
<1>3. /\ Tail(s) \in Seq(B) /\ Len(Tail(s)) = Len(s) - 1
      /\ \A j \in 1 .. Len(Tail(s)) : Tail(s)[j] = s[j + 1]
      /\ Head(s) = s[1]
  BY <1>2, HeadTailProperties
<1>4. DOMAIN Tail(s) = 1 .. Len(Tail(s))
  BY <1>3, LenProperties
<1> QED
  BY <1>1, <1>2, <1>3, <1>4 DEF Stream!Front, Stream!Rest

(* A token that is not looked for is passed, and the first of those that   *)
(* are is one place nearer.                                                *)
LEMMA PassedBy ==
  ASSUME SInv, NEW k \in DOMAIN Ahead, IsFirst(k)
  PROVE  /\ NextToken.type \in Sought <=> k = 1
         /\ NextToken.type \notin Sought /\ Passes /\ zap' = zap => k > 1 /\ IsFirst(k - 1)'
<1>1. PICK B : Ahead \in Seq(B)
  BY AheadIsASeq
<1>2. /\ DOMAIN Ahead = 1 .. Len(Ahead) /\ Len(Ahead) \in Nat /\ k \in 1 .. Len(Ahead)
      /\ Stream!Front(Ahead) = Ahead[1]
      /\ DOMAIN Stream!Rest(Ahead) = 1 .. Len(Ahead) - 1
      /\ \A j \in 1 .. Len(Ahead) - 1 : Stream!Rest(Ahead)[j] = Ahead[j + 1]
  BY <1>1, FirstOfRest
<1>3. Ahead[1].type = NextToken.type
  BY <1>2, NextTokenFacts DEF Seen
<1>4. Ahead[k].type \in Sought /\ \A j \in 1 .. k - 1 : Ahead[j].type \notin Sought
  BY DEF IsFirst
<1>5. NextToken.type \in Sought <=> k = 1
  BY <1>2, <1>3, <1>4
<1>6. ASSUME NextToken.type \notin Sought, Passes, zap' = zap
      PROVE  k > 1 /\ IsFirst(k - 1)'
  <2>1. Ahead' = Stream!Rest(Ahead) /\ Sought' = Sought
    BY <1>6, AheadNext DEF Sought
  <2>2. k - 1 \in 1 .. Len(Ahead) - 1 /\ k > 1
    BY <1>2, <1>5, <1>6
  <2>3. Stream!Rest(Ahead)[k - 1].type \in Sought
    <3>1. Stream!Rest(Ahead)[k - 1] = Ahead[(k - 1) + 1] /\ (k - 1) + 1 = k
      BY <1>2, <2>2
    <3> QED
      BY <1>4, <3>1
  <2>4. ASSUME NEW j \in 1 .. (k - 1) - 1
        PROVE  Stream!Rest(Ahead)[j].type \notin Sought
    <3>1. j \in 1 .. Len(Ahead) - 1 /\ j + 1 \in 1 .. k - 1
      BY <1>2
    <3> QED
      BY <1>2, <1>4, <3>1
  <2> QED
    BY <1>2, <2>1, <2>2, <2>3, <2>4 DEF IsFirst
<1> QED
  BY <1>5, <1>6

LEMMA NearsNext == SInv /\ [Next]_vars => Nears
<1> SUFFICES ASSUME SInv, [Next]_vars, zap # None, NEW k \in DOMAIN Ahead, IsFirst(k),
                    ~UNCHANGED vars
             PROVE  \/ zap' = zap /\ k > 1 /\ IsFirst(k - 1)'
                    \/ zap' = zap /\ zap = STATEMENT /\ k = 1 /\ given'.type \in Sought
                    \/ /\ zap' = None /\ Ahead' = Ahead
                       /\ IF zap = STATEMENT THEN given.type \in Sought ELSE k = 1
  BY DEF Nears
<1>1. ZapStep \/ ZapStatementStep
  BY DEF Next, Peek, Scan, ScanNull, expect, zap_to, zap_statement
<1>2. CASE ZapStep /\ NextToken.type = zap
  <2>1. zap # STATEMENT /\ zap' = None /\ Keeps
    BY <1>2 DEF ZapStep, Keeps
  <2>2. NextToken.type \in Sought
    BY <1>2, <2>1 DEF Sought
  <2> QED
    BY <2>1, <2>2, PassedBy, AheadNext
<1>3. CASE ZapStep /\ NextToken.type # zap
  <2>1. zap # STATEMENT /\ zap' = zap /\ Passes
    BY <1>3 DEF ZapStep, Discard, Passes
  <2>2. NextToken.type \notin Sought
    BY <1>3, <2>1 DEF Sought
  <2> QED
    BY <2>1, <2>2, PassedBy
<1>4. CASE ZapStatementStep /\ EndsStatement(given.type)
  <2>1. zap = STATEMENT /\ zap' = None /\ Still
    BY <1>4 DEF ZapStatementStep, Still
  <2>2. given.type \in Sought
    BY <1>4, <2>1 DEF Sought, EndsStatement
  <2> QED
    BY <2>1, <2>2, AheadNext
<1>5. CASE ZapStatementStep /\ ~EndsStatement(given.type)
  <2>1. zap = STATEMENT /\ zap' = zap /\ Passes /\ given' = Seen(NextToken)
    BY <1>5 DEF ZapStatementStep, Passes
  <2>2. given'.type = NextToken.type
    BY <2>1 DEF Seen
  <2> QED
    BY <2>1, <2>2, PassedBy
<1> QED
  BY <1>1, <1>2, <1>3, <1>4, <1>5

(* Each round of a loop that recovers from an error comes one token nearer *)
(* to the first that it looks for; the loop does not pass over that token  *)
(* and does not end before it.                                             *)
THEOREM RecoveryComesNearer == Spec => ZapComesNearer
<1>1. Spec => []SInv
  BY InvInit, InvNext, PTL DEF Spec
<1>2. Spec => [][Nears]_vars
  BY <1>1, NearsNext, PTL DEF Spec
<1> QED
  BY <1>2 DEF ZapComesNearer
=============================================================================
