--------------------------- MODULE WarpCmdProofs ---------------------------
(***************************************************************************)
(* The command line of warp-svc, of any length: what joinArgs quotes,      *)
(* splitArgs splits into the same arguments.                               *)
(*                                                                         *)
(* The three loops are recursive functions on positions.  Each is first    *)
(* reduced to two equations, its value on the empty sequence and on an     *)
(* Append; after that the proofs are inductions over sequences.  Induction *)
(* is stated about sets, so that it can be cited.                          *)
(***************************************************************************)
EXTENDS WarpCmd, SequenceTheorems, WellFoundedInduction, TLAPS

(* A set of natural numbers has a least element. *)
LEMMA NatLeast ==
  ASSUME NEW T, T \subseteq Nat, T # {}
  PROVE  \E x \in T : \A y \in T : x <= y
<1>1. \E x \in T : \A y \in T : ~(<<y, x>> \in OpToRel(<, Nat))
  BY NatLessThanWellFounded, WFMin, Zenon
<1>2. PICK x \in T : \A y \in T : ~(<<y, x>> \in OpToRel(<, Nat))
  BY <1>1
<1>3. ASSUME NEW y \in T, y < x PROVE FALSE
  <2>1. <<y, x>> \in Nat \X Nat /\ <<y, x>>[1] < <<y, x>>[2]
    BY <1>3
  <2>2. <<y, x>> \in OpToRel(<, Nat)
    BY <2>1, Zenon DEF OpToRel
  <2> QED BY <1>2, <2>2
<1> QED BY <1>3

(* Induction over the natural numbers, for a set. *)
LEMMA NatSetInduction ==
  ASSUME NEW S, 0 \in S, \A n \in Nat : n \in S => n + 1 \in S
  PROVE  \A n \in Nat : n \in S
<1> SUFFICES ASSUME NEW m \in Nat, m \notin S PROVE FALSE
  OBVIOUS
<1> DEFINE T == {n \in Nat : n \notin S}
<1>1. PICK x \in T : \A y \in T : x <= y
  <2>1. T \subseteq Nat /\ T # {}
    OBVIOUS
  <2> HIDE DEF T
  <2> QED BY <2>1, NatLeast
<1>2. x # 0 /\ x - 1 \in Nat /\ x - 1 \notin S
  BY <1>1
<1> QED BY <1>1, <1>2

(* Induction over sequences, for a set. *)
LEMMA SeqSetInduction ==
  ASSUME NEW T, NEW S, <<>> \in S,
         \A s \in Seq(T), e \in T : s \in S => Append(s, e) \in S
  PROVE  \A s \in Seq(T) : s \in S
<1> DEFINE N == {n \in Nat : \A s \in Seq(T) : Len(s) = n => s \in S}
<1>1. 0 \in N
  <2>1. \A s \in Seq(T) : Len(s) = 0 => s = <<>>
    BY EmptySeq
  <2> QED BY <2>1
<1>2. ASSUME NEW n \in Nat, n \in N PROVE n + 1 \in N
  <2> SUFFICES ASSUME NEW s \in Seq(T), Len(s) = n + 1 PROVE s \in S
    OBVIOUS
  <2>1. s # <<>>
    BY <1>2, EmptySeq
  <2>2. PICK r \in Seq(T), e \in T : s = Append(r, e)
    BY <2>1, SequenceEmptyOrAppend, Zenon
  <2>3. Len(r) \in Nat /\ Len(r) + 1 = n + 1
    BY <2>2, AppendProperties, LenProperties
  <2>4. r \in S
    BY <1>2, <2>3
  <2> QED BY <2>2, <2>4
<1> HIDE DEF N
<1>3. \A n \in Nat : n \in N
  BY <1>1, <1>2, NatSetInduction
<1> QED BY <1>3, LenProperties DEF N

(* f iterates step, a function of a state and a position, from b. *)
Steps(S, N) == [S \X (1 .. N) -> S]

IsRun(f, S, b, N, step) ==
  /\ f \in [0 .. N -> S]
  /\ f[0] = b
  /\ \A n \in 1 .. N : f[n] = step[<<f[n - 1], n>>]

(* A step that stays in S can be iterated any number of times. *)
LEMMA Iterates ==
  ASSUME NEW S, NEW b, NEW N, NEW step,
         b \in S, N \in Nat, step \in Steps(S, N)
  PROVE  \E f : IsRun(f, S, b, N, step)
<1> USE DEF Steps
<1> DEFINE Runs(k) == {f \in [0 .. k -> S] :
             f[0] = b /\ \A n \in 1 .. k : f[n] = step[<<f[n - 1], n>>]}
           K == {k \in Nat : k <= N => Runs(k) # {}}
<1>1. 0 \in K
  <2>1. [n \in 0 .. 0 |-> b] \in Runs(0)
    OBVIOUS
  <2> QED BY <2>1
<1>2. ASSUME NEW k \in Nat, k \in K PROVE k + 1 \in K
  <2> SUFFICES ASSUME k + 1 <= N PROVE Runs(k + 1) # {}
    OBVIOUS
  <2>1. PICK f \in Runs(k) : TRUE
    BY <1>2
  <2>2. step[<<f[k], k + 1>>] \in S
    BY <2>1
  <2> DEFINE v == step[<<f[k], k + 1>>]
             g == [n \in 0 .. k + 1 |-> IF n = k + 1 THEN v ELSE f[n]]
  <2>3. g \in [0 .. k + 1 -> S]
    BY <2>1, <2>2
  <2>4. g[0] = b
    BY <2>1
  <2>5. ASSUME NEW n \in 1 .. k + 1 PROVE g[n] = step[<<g[n - 1], n>>]
    <3>1. g[n - 1] = f[n - 1]
      BY <2>5
    <3>2. CASE n = k + 1
      BY <3>1, <3>2
    <3>3. CASE n # k + 1
      <4>1. n \in 1 .. k /\ g[n] = f[n]
        BY <2>5, <3>3
      <4> QED BY <2>1, <3>1, <4>1
    <3> QED BY <3>2, <3>3
  <2> HIDE DEF g
  <2>6. g \in Runs(k + 1)
    BY <2>3, <2>4, <2>5
  <2> QED BY <2>6
<1> HIDE DEF K
<1>3. N \in K
  BY <1>1, <1>2, NatSetInduction
<1> QED BY <1>3 DEF K, IsRun

(* Two iterations that begin alike and take the same steps agree. *)
LEMMA IteratesAgree ==
  ASSUME NEW S, NEW b, NEW N, NEW step, NEW f, NEW g, N \in Nat,
         IsRun(f, S, b, N, step), IsRun(g, S, b, N, step)
  PROVE  f[N] = g[N]
<1> USE DEF IsRun
<1> DEFINE K == {k \in Nat : k <= N => f[k] = g[k]}
<1>1. 0 \in K
  OBVIOUS
<1>2. ASSUME NEW k \in Nat, k \in K PROVE k + 1 \in K
  <2> SUFFICES ASSUME k + 1 <= N PROVE f[k + 1] = g[k + 1]
    OBVIOUS
  <2>1. f[k] = g[k] /\ k + 1 \in 1 .. N /\ (k + 1) - 1 = k
    BY <1>2
  <2>2. f[k + 1] = step[<<f[k], k + 1>>] /\ g[k + 1] = step[<<g[k], k + 1>>]
    BY <2>1
  <2> QED BY <2>1, <2>2
<1> HIDE DEF K
<1>3. \A k \in Nat : k \in K
  BY <1>1, <1>2, NatSetInduction
<1> QED BY <1>3 DEF K

(* A loop whose turns are steps as long as its state is in S. *)
LEMMA LoopIsRun ==
  ASSUME NEW S, NEW b, NEW N, NEW step, NEW st,
         b \in S, N \in Nat, step \in Steps(S, N),
         st = [n \in 0 .. N |-> st[n]], st[0] = b,
         \A n \in 1 .. N : st[n - 1] \in S => st[n] = step[<<st[n - 1], n>>]
  PROVE  IsRun(st, S, b, N, step)
<1> USE DEF Steps
<1> DEFINE K == {k \in Nat : k <= N => st[k] \in S}
<1>1. 0 \in K
  OBVIOUS
<1>2. ASSUME NEW k \in Nat, k \in K PROVE k + 1 \in K
  <2> SUFFICES ASSUME k + 1 <= N PROVE st[k + 1] \in S
    OBVIOUS
  <2>1. k + 1 \in 1 .. N /\ (k + 1) - 1 = k /\ st[k] \in S
    BY <1>2
  <2>2. st[k + 1] = step[<<st[k], k + 1>>]
    BY <2>1
  <2> QED BY <2>1, <2>2
<1> HIDE DEF K
<1>3. \A k \in Nat : k \in K
  BY <1>1, <1>2, NatSetInduction
<1>4. \A n \in 0 .. N : st[n] \in S
  BY <1>3 DEF K
<1>5. st \in [0 .. N -> S]
  BY <1>4
<1>6. ASSUME NEW n \in 1 .. N PROVE st[n] = step[<<st[n - 1], n>>]
  <2>1. n - 1 \in 0 .. N
    BY <1>6
  <2> QED BY <1>4, <2>1
<1> QED BY <1>5, <1>6 DEF IsRun

(* A run with one more step. *)
Extended(S, N, step, more) ==
  \A x \in S, n \in 1 .. N : more[<<x, n>>] = step[<<x, n>>]

LEMMA RunAppend ==
  ASSUME NEW S, NEW b, NEW N, NEW M, NEW step, NEW more, NEW f, NEW g,
         N \in Nat, M = N + 1, step \in Steps(S, N), more \in Steps(S, M),
         Extended(S, N, step, more),
         IsRun(f, S, b, N, step), IsRun(g, S, b, M, more)
  PROVE  f[N] \in S /\ g[M] = more[<<f[N], M>>]
<1> DEFINE h == [n \in 0 .. N |-> g[n]]
<1>1. g \in [0 .. N + 1 -> S] /\ h \in [0 .. N -> S] /\ h[0] = b
  BY DEF IsRun
<1>2. ASSUME NEW n \in 1 .. N PROVE h[n] = step[<<h[n - 1], n>>]
  <2>1. n - 1 \in 0 .. N /\ n \in 1 .. N + 1 /\ n \in 0 .. N
    BY <1>2
  <2>2. g[n] = more[<<g[n - 1], n>>]
    BY <2>1 DEF IsRun
  <2>3. g[n - 1] \in S /\ h[n - 1] = g[n - 1] /\ h[n] = g[n]
    BY <1>1, <2>1
  <2> QED BY <1>2, <2>2, <2>3 DEF Extended
<1>3. IsRun(h, S, b, N, step)
  BY <1>1, <1>2 DEF IsRun
<1> HIDE DEF h
<1>4. f[N] = h[N]
  <2>1. N \in Nat /\ IsRun(f, S, b, N, step)
    OBVIOUS
  <2> QED BY <1>3, <2>1, IteratesAgree
<1>5. h[N] = g[N] /\ h[N] \in S
  BY <1>1 DEF h
<1>6. g[N + 1] = more[<<g[N], N + 1>>]
  <2>1. N + 1 \in 1 .. N + 1 /\ (N + 1) - 1 = N
    OBVIOUS
  <2> QED BY <2>1 DEF IsRun
<1> QED BY <1>4, <1>5, <1>6

-----------------------------------------------------------------------------
(* splitArgs' loop. *)

Word == Seq(Char) \ {<<>>}

State == [out : Seq(Word), cur : Seq(Char), inQuote : BOOLEAN,
          escape : BOOLEAN]

(* The four kinds of state: outside and inside quotes, and each of them    *)
(* after a backslash.                                                      *)
Plain(o, c) == [out |-> o, cur |-> c, inQuote |-> FALSE, escape |-> FALSE]
PlainEsc(o, c) == [out |-> o, cur |-> c, inQuote |-> FALSE, escape |-> TRUE]
Quoted(o, c) == [out |-> o, cur |-> c, inQuote |-> TRUE, escape |-> FALSE]
QuotedEsc(o, c) == [out |-> o, cur |-> c, inQuote |-> TRUE, escape |-> TRUE]

LEMMA StateIs ==
  ASSUME NEW st \in State
  PROVE  \E o \in Seq(Word), c \in Seq(Char) :
           st \in {Plain(o, c), PlainEsc(o, c), Quoted(o, c), QuotedEsc(o, c)}
<1> DEFINE o == st.out
           c == st.cur
<1>1. /\ o \in Seq(Word) /\ c \in Seq(Char)
      /\ st.inQuote \in BOOLEAN /\ st.escape \in BOOLEAN
      /\ st = [out |-> o, cur |-> c, inQuote |-> st.inQuote,
               escape |-> st.escape]
  BY DEF State
<1>2. st \in {Plain(o, c), PlainEsc(o, c), Quoted(o, c), QuotedEsc(o, c)}
  <2> HIDE DEF o, c
  <2>1. CASE st.inQuote = FALSE /\ st.escape = FALSE
    BY <1>1, <2>1, Zenon DEF Plain
  <2>2. CASE st.inQuote = FALSE /\ st.escape = TRUE
    BY <1>1, <2>2, Zenon DEF PlainEsc
  <2>3. CASE st.inQuote = TRUE /\ st.escape = FALSE
    BY <1>1, <2>3, Zenon DEF Quoted
  <2>4. CASE st.inQuote = TRUE /\ st.escape = TRUE
    BY <1>1, <2>4, Zenon DEF QuotedEsc
  <2> QED BY <1>1, <2>1, <2>2, <2>3, <2>4
<1> QED BY <1>1, <1>2

LEMMA IsState ==
  ASSUME NEW o \in Seq(Word), NEW c \in Seq(Char)
  PROVE  /\ Plain(o, c) \in State /\ PlainEsc(o, c) \in State
         /\ Quoted(o, c) \in State /\ QuotedEsc(o, c) \in State
BY DEF State, Plain, PlainEsc, Quoted, QuotedEsc

(* What a character does to each kind of state. *)
LEMMA EndArgRecord ==
  ASSUME NEW o, NEW c, NEW q, NEW e, c # <<>>
  PROVE  EndArg([out |-> o, cur |-> c, inQuote |-> q, escape |-> e])
           = [out |-> Append(o, c), cur |-> <<>>, inQuote |-> q, escape |-> e]
BY DEF EndArg

LEMMA EndArgIs ==
  ASSUME NEW o, NEW c
  PROVE  EndArg(Plain(o, c)) = IF c = <<>> THEN Plain(o, c)
                               ELSE Plain(Append(o, c), <<>>)
<1>1. Plain(o, c).cur = c
  BY DEF Plain
<1>2. CASE c = <<>>
  BY <1>1, <1>2 DEF EndArg
<1>3. CASE c # <<>>
  BY <1>3, EndArgRecord, Zenon DEF Plain
<1> QED BY <1>2, <1>3, Zenon

LEMMA SplitEscaped ==
  ASSUME NEW o, NEW c, NEW x
  PROVE  /\ SplitChar(PlainEsc(o, c), x) = Plain(o, Append(c, x))
         /\ SplitChar(QuotedEsc(o, c), x) = Quoted(o, Append(c, x))
BY DEF SplitChar, Plain, PlainEsc, Quoted, QuotedEsc

LEMMA SplitBack ==
  ASSUME NEW o, NEW c
  PROVE  /\ SplitChar(Plain(o, c), Back) = PlainEsc(o, c)
         /\ SplitChar(Quoted(o, c), Back) = QuotedEsc(o, c)
BY DEF SplitChar, Plain, PlainEsc, Quoted, QuotedEsc, Back, Quote, Sp

LEMMA SplitQuote ==
  ASSUME NEW o, NEW c
  PROVE  /\ SplitChar(Plain(o, c), Quote) = Quoted(o, c)
         /\ SplitChar(Quoted(o, c), Quote) = Plain(o, c)
BY DEF SplitChar, Plain, Quoted, Back, Quote, Sp

LEMMA SplitSpace ==
  ASSUME NEW o, NEW c
  PROVE  SplitChar(Plain(o, c), Sp) = EndArg(Plain(o, c))
BY DEF SplitChar, Plain, Back, Quote, Sp

LEMMA SplitOther ==
  ASSUME NEW o, NEW c, NEW x, x \notin {Back, Quote}
  PROVE  /\ x # Sp => SplitChar(Plain(o, c), x) = Plain(o, Append(c, x))
         /\ SplitChar(Quoted(o, c), x) = Quoted(o, Append(c, x))
BY DEF SplitChar, Plain, Quoted, Back, Quote, Sp

(* The loop stays in its states. *)
LEMMA SplitCharType ==
  ASSUME NEW st \in State, NEW x \in Char
  PROVE  SplitChar(st, x) \in State
<1>1. PICK o \in Seq(Word), c \in Seq(Char) :
        st \in {Plain(o, c), PlainEsc(o, c), Quoted(o, c), QuotedEsc(o, c)}
  BY StateIs
<1>2. Append(c, x) \in Seq(Char) /\ <<>> \in Seq(Char)
  BY AppendProperties, EmptySeq
<1>3. EndArg(Plain(o, c)) \in State
  <2>1. CASE c = <<>>
    BY <2>1, EndArgIs, IsState
  <2>2. CASE c # <<>>
    <3>1. Append(o, c) \in Seq(Word)
      BY <2>2, AppendProperties DEF Word
    <3> QED BY <1>2, <2>2, <3>1, EndArgIs, IsState
  <2> QED BY <2>1, <2>2
<1>4. CASE st = PlainEsc(o, c) \/ st = QuotedEsc(o, c)
  <2>1. /\ SplitChar(PlainEsc(o, c), x) \in State
        /\ SplitChar(QuotedEsc(o, c), x) \in State
    BY <1>2, SplitEscaped, IsState, Zenon
  <2> QED BY <1>4, <2>1, Zenon
<1>5. CASE st = Plain(o, c) \/ st = Quoted(o, c)
  <2>1. CASE x = Back
    BY <1>5, <2>1, SplitBack, IsState
  <2>2. CASE x = Quote
    BY <1>5, <2>2, SplitQuote, IsState
  <2>3. CASE x = Sp /\ st = Plain(o, c)
    BY <1>3, <2>3, SplitSpace
  <2>4. CASE x \notin {Back, Quote} /\ (x # Sp \/ st = Quoted(o, c))
    <3>1. /\ x # Sp => SplitChar(Plain(o, c), x) \in State
          /\ SplitChar(Quoted(o, c), x) \in State
      <4>1. /\ x # Sp => SplitChar(Plain(o, c), x) = Plain(o, Append(c, x))
            /\ SplitChar(Quoted(o, c), x) = Quoted(o, Append(c, x))
        BY <2>4, SplitOther
      <4> QED BY <1>2, <4>1, IsState, Zenon
    <3>2. CASE st = Quoted(o, c)
      BY <3>1, <3>2, Zenon
    <3>3. CASE st = Plain(o, c) /\ x # Sp
      BY <3>1, <3>3, Zenon
    <3> QED BY <1>5, <2>4, <3>2, <3>3, Zenon
  <2> QED BY <1>5, <2>1, <2>2, <2>3, <2>4
<1> QED BY <1>1, <1>4, <1>5

(* The positions of the loop are a run. *)
SplitStep(s) == [x \in State \X (1 .. Len(s)) |-> SplitChar(x[1], s[x[2]])]

LEMMA SplitStepType ==
  ASSUME NEW s \in Seq(Char)
  PROVE  /\ Len(s) \in Nat
         /\ SplitStep(s) \in Steps(State, Len(s))
         /\ \A x \in State, n \in 1 .. Len(s) :
              SplitStep(s)[<<x, n>>] = SplitChar(x, s[n])
<1>1. Len(s) \in Nat /\ \A n \in 1 .. Len(s) : s[n] \in Char
  BY LenProperties
<1> QED BY <1>1, SplitCharType DEF Steps, SplitStep

LEMMA SplitRun ==
  ASSUME NEW from \in State, NEW s \in Seq(Char)
  PROVE  \E f : /\ IsRun(f, State, from, Len(s), SplitStep(s))
               /\ SplitLoop(from, s) = f[Len(s)]
<1> DEFINE st == CHOOSE f : f = [n \in 0 .. Len(s) |->
                   IF n = 0 THEN from ELSE SplitChar(f[n - 1], s[n])]
<1>1. \E f : f = [n \in 0 .. Len(s) |->
                    IF n = 0 THEN from ELSE SplitChar(f[n - 1], s[n])]
  <2>1. PICK f : IsRun(f, State, from, Len(s), SplitStep(s))
    BY SplitStepType, Iterates, Zenon
  <2>2. ASSUME NEW n \in 1 .. Len(s) PROVE f[n] = SplitChar(f[n - 1], s[n])
    <3>1. n - 1 \in 0 .. Len(s)
      BY <2>2, SplitStepType
    <3> QED BY <2>1, <2>2, <3>1, SplitStepType DEF IsRun
  <2>3. f = [n \in 0 .. Len(s) |->
               IF n = 0 THEN from ELSE SplitChar(f[n - 1], s[n])]
    BY <2>1, <2>2, SplitStepType DEF IsRun
  <2> QED BY <2>3
<1>2. st = [n \in 0 .. Len(s) |->
              IF n = 0 THEN from ELSE SplitChar(st[n - 1], s[n])]
  BY <1>1, Zenon
<1>3. SplitLoop(from, s) = st[Len(s)]
  BY Zenon DEF SplitLoop
<1> HIDE DEF st
<1>4. st = [n \in 0 .. Len(s) |-> st[n]] /\ st[0] = from
  BY <1>2, SplitStepType
<1>5. \A n \in 1 .. Len(s) :
        st[n - 1] \in State => st[n] = SplitStep(s)[<<st[n - 1], n>>]
  BY <1>2, SplitStepType
<1>6. IsRun(st, State, from, Len(s), SplitStep(s))
  BY <1>4, <1>5, SplitStepType, LoopIsRun, Zenon
<1> QED BY <1>3, <1>6

(* The loop, turn by turn. *)
LEMMA SplitLoopEmpty ==
  ASSUME NEW from \in State
  PROVE  SplitLoop(from, <<>>) = from
<1>1. <<>> \in Seq(Char) /\ Len(<<>>) = 0
  BY EmptySeq
<1>2. PICK f : /\ IsRun(f, State, from, 0, SplitStep(<<>>))
               /\ SplitLoop(from, <<>>) = f[0]
  BY <1>1, SplitRun
<1> QED BY <1>2 DEF IsRun

LEMMA SplitLoopAppend ==
  ASSUME NEW from \in State, NEW s \in Seq(Char), NEW c \in Char
  PROVE  /\ SplitLoop(from, s) \in State
         /\ SplitLoop(from, Append(s, c)) = SplitChar(SplitLoop(from, s), c)
<1> DEFINE N == Len(s)
           t == Append(s, c)
<1>1. /\ N \in Nat /\ t \in Seq(Char) /\ Len(t) = N + 1 /\ t[N + 1] = c
      /\ \A n \in 1 .. N : t[n] = s[n]
  BY AppendProperties, LenProperties
<1>2. PICK f : IsRun(f, State, from, N, SplitStep(s)) /\ SplitLoop(from, s) = f[N]
  BY SplitRun
<1>3. PICK g : /\ IsRun(g, State, from, N + 1, SplitStep(t))
               /\ SplitLoop(from, t) = g[N + 1]
  <2> HIDE DEF t, N
  <2> QED BY <1>1, SplitRun
<1>4. /\ SplitStep(s) \in Steps(State, N) /\ SplitStep(t) \in Steps(State, N + 1)
      /\ \A x \in State, n \in 1 .. N : SplitStep(s)[<<x, n>>] = SplitChar(x, s[n])
      /\ \A x \in State, n \in 1 .. N + 1 :
           SplitStep(t)[<<x, n>>] = SplitChar(x, t[n])
  <2> HIDE DEF t
  <2>1. SplitStep(t) \in Steps(State, N + 1)
    BY <1>1, SplitStepType
  <2> QED BY <1>1, <2>1, SplitStepType
<1> HIDE DEF t, N
<1>5. Extended(State, N, SplitStep(s), SplitStep(t))
  <2>1. \A n \in 1 .. N : n \in 1 .. N + 1 /\ t[n] = s[n]
    BY <1>1
  <2>2. \A x \in State, n \in 1 .. N : SplitStep(t)[<<x, n>>] = SplitChar(x, t[n])
    BY <1>4, <2>1, Zenon
  <2> QED BY <1>4, <2>1, <2>2, Zenon DEF Extended
<1>6. f[N] \in State /\ g[N + 1] = SplitStep(t)[<<f[N], N + 1>>]
  <2>1. PICK M : M = N + 1
    OBVIOUS
  <2>2. f[N] \in State /\ g[M] = SplitStep(t)[<<f[N], M>>]
    <3>1. N \in Nat /\ IsRun(f, State, from, N, SplitStep(s))
      BY <1>1, <1>2
    <3>2. SplitStep(s) \in Steps(State, N)
      BY <1>4
    <3>3. SplitStep(t) \in Steps(State, M)
      BY <1>4, <2>1, Zenon
    <3>4. IsRun(g, State, from, M, SplitStep(t))
      BY <1>3, <2>1, Zenon
    <3> QED BY <1>5, <2>1, <3>1, <3>2, <3>3, <3>4, RunAppend
  <2> QED BY <2>1, <2>2
<1>7. g[N + 1] = SplitChar(f[N], c)
  BY <1>1, <1>4, <1>6
<1> QED BY <1>2, <1>3, <1>6, <1>7 DEF t

LEMMA AppendConcat ==
  ASSUME NEW s \in Seq(Char), NEW r \in Seq(Char), NEW c \in Char
  PROVE  /\ s \o r \in Seq(Char) /\ Append(r, c) \in Seq(Char)
         /\ s \o Append(r, c) = Append(s \o r, c)
OBVIOUS

(* The loop over s \o t is the loop over s, then the loop over t. *)
LEMMA SplitLoopConcat ==
  ASSUME NEW from \in State, NEW s \in Seq(Char), NEW t \in Seq(Char)
  PROVE  SplitLoop(from, s \o t) = SplitLoop(SplitLoop(from, s), t)
<1> DEFINE mid == SplitLoop(from, s)
           S == {r \in Seq(Char) : SplitLoop(from, s \o r) = SplitLoop(mid, r)}
<1>1. mid \in State
  BY SplitLoopAppend DEF Char
<1> HIDE DEF mid
<1>2. <<>> \in S
  <2>1. s \o <<>> = s
    BY ConcatEmptySeq
  <2> QED BY <1>1, <2>1, EmptySeq, SplitLoopEmpty DEF mid
<1>3. ASSUME NEW r \in Seq(Char), NEW c \in Char, r \in S
      PROVE  Append(r, c) \in S
  <2>1. s \o Append(r, c) = Append(s \o r, c) /\ s \o r \in Seq(Char)
    OBVIOUS
  <2>2. SplitLoop(from, Append(s \o r, c)) = SplitChar(SplitLoop(from, s \o r), c)
    BY <2>1, SplitLoopAppend
  <2>3. SplitLoop(mid, Append(r, c)) = SplitChar(SplitLoop(mid, r), c)
    BY <1>1, SplitLoopAppend
  <2>4. Append(r, c) \in Seq(Char)
    OBVIOUS
  <2>5. SplitLoop(from, s \o r) = SplitLoop(mid, r)
    BY <1>3
  <2> HIDE DEF S
  <2>6. SplitLoop(from, s \o Append(r, c)) = SplitLoop(mid, Append(r, c))
    BY <2>1, <2>2, <2>3, <2>5, Zenon
  <2> QED BY <2>4, <2>6, Zenon DEF S
<1> HIDE DEF S
<1>4. \A r \in Seq(Char) : r \in S
  BY <1>2, <1>3, SeqSetInduction
<1> QED BY <1>4 DEF S, mid

-----------------------------------------------------------------------------
(* quoteArg *)

LEMMA EscapeCharType ==
  ASSUME NEW c \in Char
  PROVE  EscapeChar(c) \in Seq(Char)
<1>1. <<c>> \in Seq(Char) /\ <<Back, c>> \in Seq(Char)
  BY DEF Char
<1> QED BY <1>1 DEF EscapeChar

(* One turn of the loop of Escaped. *)
EscapeTurn(x, c) == x \o EscapeChar(c)

EscapeStep(w) ==
  [x \in Seq(Char) \X (1 .. Len(w)) |-> EscapeTurn(x[1], w[x[2]])]

LEMMA EscapeStepType ==
  ASSUME NEW w \in Seq(Char)
  PROVE  /\ Len(w) \in Nat
         /\ EscapeStep(w) \in Steps(Seq(Char), Len(w))
         /\ \A x \in Seq(Char), n \in 1 .. Len(w) :
              EscapeStep(w)[<<x, n>>] = EscapeTurn(x, w[n])
<1>1. Len(w) \in Nat /\ \A n \in 1 .. Len(w) : EscapeChar(w[n]) \in Seq(Char)
  BY LenProperties, EscapeCharType
<1>2. \A x \in Seq(Char), n \in 1 .. Len(w) : EscapeTurn(x, w[n]) \in Seq(Char)
  BY <1>1, ConcatProperties DEF EscapeTurn
<1> QED BY <1>1, <1>2 DEF Steps, EscapeStep

LEMMA EscapeRun ==
  ASSUME NEW w \in Seq(Char)
  PROVE  \E f : /\ IsRun(f, Seq(Char), <<>>, Len(w), EscapeStep(w))
               /\ Escaped(w) = f[Len(w)]
<1> DEFINE esc == CHOOSE f : f = [n \in 0 .. Len(w) |->
                    IF n = 0 THEN <<>> ELSE EscapeTurn(f[n - 1], w[n])]
<1>0. <<>> \in Seq(Char)
  BY EmptySeq
<1>1. \E f : f = [n \in 0 .. Len(w) |->
                    IF n = 0 THEN <<>> ELSE EscapeTurn(f[n - 1], w[n])]
  <2>1. PICK f : IsRun(f, Seq(Char), <<>>, Len(w), EscapeStep(w))
    BY <1>0, EscapeStepType, Iterates, Zenon
  <2>2. ASSUME NEW n \in 1 .. Len(w) PROVE f[n] = EscapeTurn(f[n - 1], w[n])
    <3>1. n - 1 \in 0 .. Len(w)
      BY <2>2, EscapeStepType
    <3> QED BY <2>1, <2>2, <3>1, EscapeStepType DEF IsRun
  <2>3. f = [n \in 0 .. Len(w) |->
               IF n = 0 THEN <<>> ELSE EscapeTurn(f[n - 1], w[n])]
    BY <2>1, <2>2, EscapeStepType DEF IsRun
  <2> QED BY <2>3
<1>2. esc = [n \in 0 .. Len(w) |->
               IF n = 0 THEN <<>> ELSE EscapeTurn(esc[n - 1], w[n])]
  BY <1>1, Zenon
<1>3. Escaped(w) = esc[Len(w)]
  BY Zenon DEF Escaped, EscapeTurn
<1> HIDE DEF esc
<1>4. esc = [n \in 0 .. Len(w) |-> esc[n]] /\ esc[0] = <<>>
  BY <1>2, EscapeStepType
<1>5. \A n \in 1 .. Len(w) :
        esc[n - 1] \in Seq(Char) => esc[n] = EscapeStep(w)[<<esc[n - 1], n>>]
  BY <1>2, EscapeStepType
<1>6. IsRun(esc, Seq(Char), <<>>, Len(w), EscapeStep(w))
  BY <1>0, <1>4, <1>5, EscapeStepType, LoopIsRun, Zenon
<1> QED BY <1>3, <1>6

LEMMA EscapedEmpty == Escaped(<<>>) = <<>>
<1>1. <<>> \in Seq(Char) /\ Len(<<>>) = 0
  BY EmptySeq
<1>2. PICK f : /\ IsRun(f, Seq(Char), <<>>, 0, EscapeStep(<<>>))
               /\ Escaped(<<>>) = f[0]
  BY <1>1, EscapeRun
<1> QED BY <1>2 DEF IsRun

LEMMA EscapedAppend ==
  ASSUME NEW w \in Seq(Char), NEW c \in Char
  PROVE  /\ Escaped(w) \in Seq(Char)
         /\ Escaped(Append(w, c)) = Escaped(w) \o EscapeChar(c)
<1> DEFINE N == Len(w)
           t == Append(w, c)
           S == Seq(Char)
<1>1. /\ N \in Nat /\ t \in Seq(Char) /\ Len(t) = N + 1 /\ t[N + 1] = c
      /\ \A n \in 1 .. N : t[n] = w[n]
  BY AppendProperties, LenProperties
<1>2. PICK f : IsRun(f, S, <<>>, N, EscapeStep(w)) /\ Escaped(w) = f[N]
  BY EscapeRun
<1>3. PICK g : /\ IsRun(g, S, <<>>, N + 1, EscapeStep(t))
               /\ Escaped(t) = g[N + 1]
  <2> HIDE DEF t, N
  <2> QED BY <1>1, EscapeRun
<1>4. /\ EscapeStep(w) \in Steps(S, N) /\ EscapeStep(t) \in Steps(S, N + 1)
      /\ \A x \in S, n \in 1 .. N : EscapeStep(w)[<<x, n>>] = EscapeTurn(x, w[n])
      /\ \A x \in S, n \in 1 .. N + 1 :
           EscapeStep(t)[<<x, n>>] = EscapeTurn(x, t[n])
  <2> HIDE DEF t
  <2>1. EscapeStep(t) \in Steps(S, N + 1)
    BY <1>1, EscapeStepType
  <2> QED BY <1>1, <2>1, EscapeStepType
<1> HIDE DEF t, N, S
<1>5. Extended(S, N, EscapeStep(w), EscapeStep(t))
  <2>1. \A n \in 1 .. N : n \in 1 .. N + 1 /\ t[n] = w[n]
    BY <1>1
  <2>2. \A x \in S, n \in 1 .. N : EscapeStep(t)[<<x, n>>] = EscapeTurn(x, t[n])
    BY <1>4, <2>1, Zenon
  <2> QED BY <1>4, <2>1, <2>2, Zenon DEF Extended
<1>6. f[N] \in S /\ g[N + 1] = EscapeStep(t)[<<f[N], N + 1>>]
  <2>1. PICK M : M = N + 1
    OBVIOUS
  <2>2. f[N] \in S /\ g[M] = EscapeStep(t)[<<f[N], M>>]
    <3>1. N \in Nat /\ IsRun(f, S, <<>>, N, EscapeStep(w))
      BY <1>1, <1>2
    <3>2. EscapeStep(w) \in Steps(S, N)
      BY <1>4
    <3>3. EscapeStep(t) \in Steps(S, M)
      BY <1>4, <2>1, Zenon
    <3>4. IsRun(g, S, <<>>, M, EscapeStep(t))
      BY <1>3, <2>1, Zenon
    <3> QED BY <1>5, <2>1, <3>1, <3>2, <3>3, <3>4, RunAppend
  <2> QED BY <2>1, <2>2
<1>7. g[N + 1] = EscapeTurn(f[N], c)
  BY <1>1, <1>4, <1>6
<1> QED BY <1>2, <1>3, <1>6, <1>7 DEF t, S, EscapeTurn

(* What the loop does with one character, and with one escaped character. *)
LEMMA SplitLoopOne ==
  ASSUME NEW from \in State, NEW c \in Char
  PROVE  <<c>> \in Seq(Char) /\ SplitLoop(from, <<c>>) = SplitChar(from, c)
<1>1. <<>> \in Seq(Char) /\ <<c>> = Append(<<>>, c)
  OBVIOUS
<1>2. SplitLoop(from, Append(<<>>, c)) = SplitChar(SplitLoop(from, <<>>), c)
  BY <1>1, SplitLoopAppend
<1>3. SplitLoop(from, <<>>) = from
  BY SplitLoopEmpty
<1>4. <<c>> \in Seq(Char)
  OBVIOUS
<1> QED BY <1>1, <1>2, <1>3, <1>4, Zenon

LEMMA EscapeCharLoop ==
  ASSUME NEW o \in Seq(Word), NEW u \in Seq(Char), NEW c \in Char
  PROVE  SplitLoop(Quoted(o, u), EscapeChar(c)) = Quoted(o, Append(u, c))
<1>1. Quoted(o, u) \in State /\ QuotedEsc(o, u) \in State
  BY IsState
<1>2. CASE c \in {Back, Quote}
  <2>1. /\ Back \in Char /\ <<Back>> \in Seq(Char)
        /\ EscapeChar(c) = Append(<<Back>>, c)
    BY <1>2 DEF EscapeChar, Char
  <2>2. SplitLoop(Quoted(o, u), <<Back>>) = QuotedEsc(o, u)
    BY <1>1, <2>1, SplitLoopOne, SplitBack, Zenon
  <2>3. SplitLoop(Quoted(o, u), Append(<<Back>>, c)) =
          SplitChar(SplitLoop(Quoted(o, u), <<Back>>), c)
    BY <1>1, <2>1, SplitLoopAppend
  <2> QED BY <2>1, <2>2, <2>3, SplitEscaped, Zenon
<1>3. CASE c \notin {Back, Quote}
  <2>1. EscapeChar(c) = <<c>>
    BY <1>3 DEF EscapeChar
  <2>2. SplitChar(Quoted(o, u), c) = Quoted(o, Append(u, c))
    BY <1>3, SplitOther
  <2> QED BY <1>1, <2>1, <2>2, SplitLoopOne, Zenon
<1> QED BY <1>2, <1>3

(* Inside quotes, an escaped argument is read as the argument. *)
LEMMA EscapedLoop ==
  ASSUME NEW o \in Seq(Word), NEW u \in Seq(Char), NEW w \in Seq(Char)
  PROVE  SplitLoop(Quoted(o, u), Escaped(w)) = Quoted(o, u \o w)
<1> DEFINE S == {r \in Seq(Char) :
                   SplitLoop(Quoted(o, u), Escaped(r)) = Quoted(o, u \o r)}
<1>1. Quoted(o, u) \in State
  BY IsState
<1>2. <<>> \in S
  <2>1. u \o <<>> = u /\ <<>> \in Seq(Char)
    OBVIOUS
  <2> QED BY <1>1, <2>1, EscapedEmpty, SplitLoopEmpty, Zenon
<1>3. ASSUME NEW r \in Seq(Char), NEW c \in Char, r \in S
      PROVE  Append(r, c) \in S
  <2>1. /\ Escaped(r) \in Seq(Char) /\ EscapeChar(c) \in Seq(Char)
        /\ Escaped(Append(r, c)) = Escaped(r) \o EscapeChar(c)
    BY EscapedAppend, EscapeCharType
  <2>2. SplitLoop(Quoted(o, u), Escaped(r) \o EscapeChar(c)) =
          SplitLoop(SplitLoop(Quoted(o, u), Escaped(r)), EscapeChar(c))
    BY <1>1, <2>1, SplitLoopConcat
  <2>3. SplitLoop(Quoted(o, u), Escaped(r)) = Quoted(o, u \o r)
    BY <1>3
  <2>4. /\ u \o r \in Seq(Char) /\ Append(r, c) \in Seq(Char)
        /\ Append(u \o r, c) = u \o Append(r, c)
    BY AppendConcat
  <2>5. SplitLoop(Quoted(o, u \o r), EscapeChar(c)) = Quoted(o, Append(u \o r, c))
    BY <2>4, EscapeCharLoop
  <2> HIDE DEF S
  <2>6. SplitLoop(Quoted(o, u), Escaped(Append(r, c))) = Quoted(o, u \o Append(r, c))
    BY <2>1, <2>2, <2>3, <2>4, <2>5, Zenon
  <2> QED BY <2>4, <2>6, Zenon DEF S
<1> HIDE DEF S
<1>4. \A r \in Seq(Char) : r \in S
  BY <1>2, <1>3, SeqSetInduction
<1> QED BY <1>4 DEF S

(* An argument that needs no quotes. *)
Bare(w) == \A i \in DOMAIN w : w[i] \notin {Sp, Quote, Back}

LEMMA BareLoop ==
  ASSUME NEW o \in Seq(Word), NEW u \in Seq(Char), NEW w \in Seq(Char), Bare(w)
  PROVE  SplitLoop(Plain(o, u), w) = Plain(o, u \o w)
<1> DEFINE S == {r \in Seq(Char) :
                   Bare(r) => SplitLoop(Plain(o, u), r) = Plain(o, u \o r)}
<1>1. Plain(o, u) \in State
  BY IsState
<1>2. <<>> \in S
  <2>1. u \o <<>> = u /\ <<>> \in Seq(Char)
    OBVIOUS
  <2> QED BY <1>1, <2>1, SplitLoopEmpty, Zenon
<1>3. ASSUME NEW r \in Seq(Char), NEW c \in Char, r \in S
      PROVE  Append(r, c) \in S
  <2>1. /\ u \o r \in Seq(Char) /\ Append(r, c) \in Seq(Char)
        /\ Append(u \o r, c) = u \o Append(r, c)
    BY AppendConcat
  <2>2. Bare(Append(r, c)) => Bare(r) /\ c \notin {Sp, Quote, Back}
    <3>1. /\ DOMAIN r = 1 .. Len(r) /\ DOMAIN Append(r, c) = 1 .. Len(r) + 1
          /\ Append(r, c)[Len(r) + 1] = c /\ Len(r) \in Nat
          /\ \A i \in 1 .. Len(r) : Append(r, c)[i] = r[i]
      BY AppendProperties, LenProperties
    <3> QED BY <3>1 DEF Bare
  <2>3. SplitLoop(Plain(o, u), Append(r, c)) = SplitChar(SplitLoop(Plain(o, u), r), c)
    BY <1>1, SplitLoopAppend
  <2>4. ASSUME Bare(Append(r, c))
        PROVE  SplitLoop(Plain(o, u), Append(r, c)) = Plain(o, u \o Append(r, c))
    <3>1. SplitLoop(Plain(o, u), r) = Plain(o, u \o r)
      BY <1>3, <2>2, <2>4
    <3>2. SplitChar(Plain(o, u \o r), c) = Plain(o, Append(u \o r, c))
      BY <2>2, <2>4, SplitOther
    <3> HIDE DEF S
    <3> QED BY <2>1, <2>3, <3>1, <3>2, Zenon
  <2> HIDE DEF S
  <2> QED BY <2>1, <2>4, Zenon DEF S
<1> HIDE DEF S
<1>4. \A r \in Seq(Char) : r \in S
  BY <1>2, <1>3, SeqSetInduction
<1> QED BY <1>4 DEF S

(* Outside quotes and between arguments, what quoteArg returns for an      *)
(* argument is read as that argument.                                      *)
LEMMA QuoteArgLoop ==
  ASSUME NEW o \in Seq(Word), NEW w \in Word
  PROVE  /\ quoteArg(w) \in Seq(Char)
         /\ SplitLoop(Plain(o, <<>>), quoteArg(w)) = Plain(o, w)
<1>1. w \in Seq(Char) /\ w # <<>> /\ <<>> \in Seq(Char) /\ <<>> \o w = w
  BY DEF Word
<1>2. CASE Bare(w)
  <2>1. quoteArg(w) = w
    BY <1>1, <1>2 DEF quoteArg, Bare
  <2> QED BY <1>1, <1>2, <2>1, BareLoop, Zenon
<1>3. CASE ~Bare(w)
  <2> DEFINE q == <<Quote>>
             e == Escaped(w)
  <2>1. quoteArg(w) = q \o e \o q
    BY <1>3, Zenon DEF quoteArg, Bare
  <2>2. Quote \in Char /\ q \in Seq(Char) /\ e \in Seq(Char)
    BY <1>1, EscapedAppend DEF Char
  <2>3. /\ Plain(o, <<>>) \in State /\ Quoted(o, <<>>) \in State
        /\ Quoted(o, w) \in State
    BY <1>1, IsState
  <2>4. SplitLoop(Plain(o, <<>>), q) = Quoted(o, <<>>)
    BY <2>2, <2>3, SplitLoopOne, SplitQuote, Zenon
  <2>5. SplitLoop(Quoted(o, <<>>), e) = Quoted(o, w)
    BY <1>1, EscapedLoop, Zenon
  <2>6. SplitLoop(Quoted(o, w), q) = Plain(o, w)
    BY <2>2, <2>3, SplitLoopOne, SplitQuote, Zenon
  <2> HIDE DEF q, e
  <2>7. q \o e \in Seq(Char) /\ q \o e \o q \in Seq(Char)
    BY <2>2
  <2>8. SplitLoop(Plain(o, <<>>), q \o e) = Quoted(o, w)
    <3>1. SplitLoop(Plain(o, <<>>), q \o e) =
            SplitLoop(SplitLoop(Plain(o, <<>>), q), e)
      BY <2>2, <2>3, SplitLoopConcat
    <3> QED BY <2>4, <2>5, <3>1, Zenon
  <2>9. SplitLoop(Plain(o, <<>>), q \o e \o q) = Plain(o, w)
    <3>1. SplitLoop(Plain(o, <<>>), q \o e \o q) =
            SplitLoop(SplitLoop(Plain(o, <<>>), q \o e), q)
      BY <2>2, <2>3, <2>7, SplitLoopConcat
    <3> QED BY <2>6, <2>8, <3>1, Zenon
  <2> QED BY <2>1, <2>7, <2>9, Zenon
<1> QED BY <1>2, <1>3

-----------------------------------------------------------------------------
(* joinArgs *)

(* One turn of the loop of joinArgs. *)
JoinTurn(x, n, w) == x \o (IF n = 1 THEN <<>> ELSE <<Sp>>) \o quoteArg(w)

LEMMA JoinTurnType ==
  ASSUME NEW x \in Seq(Char), NEW n, NEW w \in Word
  PROVE  JoinTurn(x, n, w) \in Seq(Char)
<1>1. quoteArg(w) \in Seq(Char)
  BY EmptySeq, QuoteArgLoop
<1>2. <<>> \in Seq(Char) /\ <<Sp>> \in Seq(Char)
  BY DEF Char
<1>3. CASE n = 1
  BY <1>1, <1>2, <1>3, ConcatProperties DEF JoinTurn
<1>4. CASE n # 1
  BY <1>1, <1>2, <1>4, ConcatProperties DEF JoinTurn
<1> QED BY <1>3, <1>4

JoinStep(args) ==
  [x \in Seq(Char) \X (1 .. Len(args)) |-> JoinTurn(x[1], x[2], args[x[2]])]

LEMMA JoinStepType ==
  ASSUME NEW args \in Seq(Word)
  PROVE  /\ Len(args) \in Nat
         /\ JoinStep(args) \in Steps(Seq(Char), Len(args))
         /\ \A x \in Seq(Char), n \in 1 .. Len(args) :
              JoinStep(args)[<<x, n>>] = JoinTurn(x, n, args[n])
<1>1. Len(args) \in Nat /\ \A n \in 1 .. Len(args) : args[n] \in Word
  BY LenProperties
<1>2. \A x \in Seq(Char), n \in 1 .. Len(args) :
        JoinTurn(x, n, args[n]) \in Seq(Char)
  BY <1>1, JoinTurnType
<1> QED BY <1>1, <1>2 DEF Steps, JoinStep

LEMMA JoinRun ==
  ASSUME NEW args \in Seq(Word)
  PROVE  \E f : /\ IsRun(f, Seq(Char), <<>>, Len(args), JoinStep(args))
               /\ joinArgs(args) = f[Len(args)]
<1> DEFINE out == CHOOSE f : f = [n \in 0 .. Len(args) |->
                    IF n = 0 THEN <<>> ELSE JoinTurn(f[n - 1], n, args[n])]
<1>0. <<>> \in Seq(Char)
  BY EmptySeq
<1>1. \E f : f = [n \in 0 .. Len(args) |->
                    IF n = 0 THEN <<>> ELSE JoinTurn(f[n - 1], n, args[n])]
  <2>1. PICK f : IsRun(f, Seq(Char), <<>>, Len(args), JoinStep(args))
    BY <1>0, JoinStepType, Iterates, Zenon
  <2>2. ASSUME NEW n \in 1 .. Len(args) PROVE f[n] = JoinTurn(f[n - 1], n, args[n])
    <3>1. n - 1 \in 0 .. Len(args)
      BY <2>2, JoinStepType
    <3> QED BY <2>1, <2>2, <3>1, JoinStepType DEF IsRun
  <2>3. f = [n \in 0 .. Len(args) |->
               IF n = 0 THEN <<>> ELSE JoinTurn(f[n - 1], n, args[n])]
    BY <2>1, <2>2, JoinStepType DEF IsRun
  <2> QED BY <2>3
<1>2. out = [n \in 0 .. Len(args) |->
               IF n = 0 THEN <<>> ELSE JoinTurn(out[n - 1], n, args[n])]
  BY <1>1, Zenon
<1>3. joinArgs(args) = out[Len(args)]
  BY Zenon DEF joinArgs, JoinTurn
<1> HIDE DEF out
<1>4. out = [n \in 0 .. Len(args) |-> out[n]] /\ out[0] = <<>>
  BY <1>2, JoinStepType
<1>5. ASSUME NEW n \in 1 .. Len(args), out[n - 1] \in Seq(Char)
      PROVE  out[n] = JoinStep(args)[<<out[n - 1], n>>]
  <2>1. n \in 0 .. Len(args) /\ n # 0
    BY JoinStepType
  <2>2. out[n] = JoinTurn(out[n - 1], n, args[n])
    BY <1>2, <2>1
  <2> QED BY <1>5, <2>2, JoinStepType, Zenon
<1>6. IsRun(out, Seq(Char), <<>>, Len(args), JoinStep(args))
  BY <1>0, <1>4, <1>5, JoinStepType, LoopIsRun, Zenon
<1> QED BY <1>3, <1>6

LEMMA JoinArgsEmpty == joinArgs(<<>>) = <<>>
<1>1. <<>> \in Seq(Word) /\ Len(<<>>) = 0
  BY EmptySeq
<1>2. PICK f : /\ IsRun(f, Seq(Char), <<>>, 0, JoinStep(<<>>))
               /\ joinArgs(<<>>) = f[0]
  BY <1>1, JoinRun
<1> QED BY <1>2 DEF IsRun

LEMMA JoinArgsAppend ==
  ASSUME NEW args \in Seq(Word), NEW w \in Word
  PROVE  /\ joinArgs(args) \in Seq(Char)
         /\ joinArgs(Append(args, w)) = JoinTurn(joinArgs(args), Len(args) + 1, w)
<1> DEFINE N == Len(args)
           t == Append(args, w)
           S == Seq(Char)
<1>1. /\ N \in Nat /\ t \in Seq(Word) /\ Len(t) = N + 1 /\ t[N + 1] = w
      /\ \A n \in 1 .. N : t[n] = args[n]
  BY AppendProperties, LenProperties
<1>2. PICK f : IsRun(f, S, <<>>, N, JoinStep(args)) /\ joinArgs(args) = f[N]
  BY JoinRun
<1>3. PICK g : /\ IsRun(g, S, <<>>, N + 1, JoinStep(t))
               /\ joinArgs(t) = g[N + 1]
  <2> HIDE DEF t, N
  <2> QED BY <1>1, JoinRun
<1>4. /\ JoinStep(args) \in Steps(S, N) /\ JoinStep(t) \in Steps(S, N + 1)
      /\ \A x \in S, n \in 1 .. N : JoinStep(args)[<<x, n>>] = JoinTurn(x, n, args[n])
      /\ \A x \in S, n \in 1 .. N + 1 :
           JoinStep(t)[<<x, n>>] = JoinTurn(x, n, t[n])
  <2> HIDE DEF t
  <2>1. JoinStep(t) \in Steps(S, N + 1)
    BY <1>1, JoinStepType
  <2> QED BY <1>1, <2>1, JoinStepType
<1> HIDE DEF t, N, S
<1>5. Extended(S, N, JoinStep(args), JoinStep(t))
  <2>1. \A n \in 1 .. N : n \in 1 .. N + 1 /\ t[n] = args[n]
    BY <1>1
  <2>2. \A x \in S, n \in 1 .. N : JoinStep(t)[<<x, n>>] = JoinTurn(x, n, t[n])
    BY <1>4, <2>1, Zenon
  <2> QED BY <1>4, <2>1, <2>2, Zenon DEF Extended
<1>6. f[N] \in S /\ g[N + 1] = JoinStep(t)[<<f[N], N + 1>>]
  <2>1. PICK M : M = N + 1
    OBVIOUS
  <2>2. f[N] \in S /\ g[M] = JoinStep(t)[<<f[N], M>>]
    <3>1. N \in Nat /\ IsRun(f, S, <<>>, N, JoinStep(args))
      BY <1>1, <1>2
    <3>2. JoinStep(args) \in Steps(S, N)
      BY <1>4
    <3>3. JoinStep(t) \in Steps(S, M)
      BY <1>4, <2>1, Zenon
    <3>4. IsRun(g, S, <<>>, M, JoinStep(t))
      BY <1>3, <2>1, Zenon
    <3> QED BY <1>5, <2>1, <3>1, <3>2, <3>3, <3>4, RunAppend
  <2> QED BY <2>1, <2>2
<1>7. g[N + 1] = JoinTurn(f[N], N + 1, w)
  BY <1>1, <1>4, <1>6
<1> QED BY <1>2, <1>3, <1>6, <1>7 DEF t, S, N

(* What joinArgs returns is read as the arguments it was given; the last   *)
(* one is still being read when the line ends.                             *)
LEMMA JoinArgsLoop ==
  ASSUME NEW args \in Seq(Word), NEW w \in Word
  PROVE  /\ joinArgs(Append(args, w)) \in Seq(Char)
         /\ SplitLoop(Plain(<<>>, <<>>), joinArgs(Append(args, w))) = Plain(args, w)
<1> DEFINE from == Plain(<<>>, <<>>)
           S == {r \in Seq(Word) : \A v \in Word :
                   /\ joinArgs(Append(r, v)) \in Seq(Char)
                   /\ SplitLoop(from, joinArgs(Append(r, v))) = Plain(r, v)}
<1>1. <<>> \in Seq(Word) /\ <<>> \in Seq(Char) /\ from \in State
  BY IsState, EmptySeq
<1> HIDE DEF from
<1>2. <<>> \in S
  <2> SUFFICES ASSUME NEW v \in Word
               PROVE  /\ joinArgs(Append(<<>>, v)) \in Seq(Char)
                      /\ SplitLoop(from, joinArgs(Append(<<>>, v))) = Plain(<<>>, v)
    BY <1>1
  <2>1. quoteArg(v) \in Seq(Char) /\ SplitLoop(from, quoteArg(v)) = Plain(<<>>, v)
    BY <1>1, QuoteArgLoop DEF from
  <2>2. joinArgs(Append(<<>>, v)) = JoinTurn(<<>>, 1, v)
    <3>1. Len(<<>>) + 1 = 1
      OBVIOUS
    <3> QED BY <1>1, <3>1, JoinArgsAppend, JoinArgsEmpty
  <2>3. JoinTurn(<<>>, 1, v) = quoteArg(v)
    <3>1. JoinTurn(<<>>, 1, v) = <<>> \o <<>> \o quoteArg(v)
      BY DEF JoinTurn
    <3> QED BY <2>1, <3>1
  <2> QED BY <2>1, <2>2, <2>3, Zenon
<1>3. ASSUME NEW r \in Seq(Word), NEW v \in Word, r \in S
      PROVE  Append(r, v) \in S
  <2>1. Append(r, v) \in Seq(Word)
    OBVIOUS
  <2> SUFFICES ASSUME NEW u \in Word
               PROVE  /\ joinArgs(Append(Append(r, v), u)) \in Seq(Char)
                      /\ SplitLoop(from, joinArgs(Append(Append(r, v), u)))
                           = Plain(Append(r, v), u)
    BY <2>1
  <2> DEFINE a == Append(r, v)
             j == joinArgs(a)
             b == <<Sp>>
             q == quoteArg(u)
  <2>2. j \in Seq(Char) /\ SplitLoop(from, j) = Plain(r, v)
    BY <1>3
  <2>3. Len(a) + 1 # 1
    BY AppendProperties, LenProperties
  <2>4. joinArgs(Append(a, u)) = j \o b \o q
    <3> HIDE DEF a
    <3>1. joinArgs(Append(a, u)) = JoinTurn(j, Len(a) + 1, u)
      BY <2>1, JoinArgsAppend DEF a
    <3> QED BY <2>3, <3>1, Zenon DEF JoinTurn
  <2>5. /\ v \in Seq(Char) /\ v # <<>> /\ Plain(r, v) \in State
        /\ Plain(a, <<>>) \in State /\ Sp \in Char
    BY <1>1, <2>1, IsState DEF Word, Char
  <2>6. SplitLoop(Plain(r, v), b) = Plain(a, <<>>)
    BY <2>5, SplitLoopOne, SplitSpace, EndArgIs, Zenon
  <2>7. q \in Seq(Char) /\ SplitLoop(Plain(a, <<>>), q) = Plain(a, u)
    BY <2>1, QuoteArgLoop
  <2>8. b \in Seq(Char)
    BY <2>5
  <2> HIDE DEF a, j, b, q
  <2>9. j \o b \in Seq(Char) /\ j \o b \o q \in Seq(Char)
    BY <2>2, <2>7, <2>8
  <2>10. SplitLoop(from, j \o b) = SplitLoop(SplitLoop(from, j), b)
    BY <1>1, <2>2, <2>8, SplitLoopConcat
  <2>11. SplitLoop(from, j \o b \o q) = SplitLoop(SplitLoop(from, j \o b), q)
    BY <1>1, <2>7, <2>9, SplitLoopConcat
  <2>12. SplitLoop(from, j \o b \o q) = Plain(a, u)
    BY <2>2, <2>6, <2>7, <2>10, <2>11, Zenon
  <2> QED BY <2>4, <2>9, <2>12, Zenon DEF a
<1> HIDE DEF S
<1>4. \A r \in Seq(Word) : r \in S
  BY <1>2, <1>3, SeqSetInduction
<1> QED BY <1>4 DEF S, from

(* splitArgs returns non-empty arguments. *)
LEMMA SplitArgsType ==
  ASSUME NEW s \in Seq(Char)
  PROVE  splitArgs(s) \in Seq(Word)
<1> DEFINE from == Plain(<<>>, <<>>)
           st == SplitLoop(from, s)
<1>1. <<>> \in Seq(Word) /\ <<>> \in Seq(Char) /\ from \in State
  BY IsState, EmptySeq
<1> HIDE DEF from
<1>2. st \in State
  BY <1>1, SplitLoopAppend DEF Char
<1> HIDE DEF st
<1>3. st.out \in Seq(Word) /\ st.cur \in Seq(Char)
  BY <1>2 DEF State
<1>4. EndArg(st).out \in Seq(Word)
  <2>1. CASE st.cur = <<>>
    BY <1>3, <2>1 DEF EndArg
  <2>2. CASE st.cur # <<>>
    <3>1. EndArg(st).out = Append(st.out, st.cur)
      BY <1>2, <2>2 DEF EndArg, State
    <3>2. st.cur \in Word
      BY <1>3, <2>2 DEF Word
    <3>3. Append(st.out, st.cur) \in Seq(Word)
      BY <1>3, <3>2, AppendProperties
    <3> QED BY <3>1, <3>3
  <2> QED BY <2>1, <2>2
<1>5. splitArgs(s) = IF st.inQuote THEN <<>> ELSE EndArg(st).out
  BY Zenon DEF splitArgs, Error, st, from, Plain
<1> QED BY <1>1, <1>4, <1>5

(* Splitting what joinArgs joined gives the arguments back, whatever       *)
(* characters they are made of and however many there are.                 *)
THEOREM SplitJoin ==
  ASSUME NEW args \in Seq(Word), args # <<>>
  PROVE  splitArgs(joinArgs(args)) = args
<1>1. PICK r \in Seq(Word), w \in Word : args = Append(r, w)
  BY SequenceEmptyOrAppend, Zenon
<1> DEFINE st == SplitLoop(Plain(<<>>, <<>>), joinArgs(args))
<1>2. st = Plain(r, w)
  BY <1>1, JoinArgsLoop
<1> HIDE DEF st
<1>3. splitArgs(joinArgs(args)) = IF st.inQuote THEN <<>> ELSE EndArg(st).out
  BY Zenon DEF splitArgs, Error, st, Plain
<1>4. ~st.inQuote
  BY <1>2 DEF Plain
<1>5. EndArg(st) = Plain(args, <<>>)
  <2>1. w # <<>>
    BY DEF Word
  <2> QED BY <1>1, <1>2, <2>1, EndArgIs, Zenon
<1>6. EndArg(st).out = args
  BY <1>5 DEF Plain
<1> QED BY <1>3, <1>4, <1>6

-----------------------------------------------------------------------------
(* TrimSpace *)

(* A bounded set of natural numbers has a least and a greatest element. *)
LEMMA MinMax ==
  ASSUME NEW N \in Nat, NEW T, T \subseteq 0 .. N, T # {}
  PROVE  /\ Min(T) \in T /\ \A y \in T : Min(T) <= y
         /\ Max(T) \in T /\ \A y \in T : Max(T) >= y
<1>1. T \subseteq Nat
  OBVIOUS
<1>2. \E x \in T : \A y \in T : x <= y
  BY <1>1, NatLeast
<1>3. \E x \in T : \A y \in T : x >= y
  <2> DEFINE U == {k \in Nat : \A y \in T : k >= y}
  <2>1. PICK u \in U : \A k \in U : u <= k
    <3>1. N \in U /\ U \subseteq Nat
      BY <1>1
    <3> HIDE DEF U
    <3> QED BY <3>1, NatLeast
  <2>2. u \in T
    <3> SUFFICES ASSUME u \notin T PROVE FALSE
      OBVIOUS
    <3>1. \A y \in T : u - 1 >= y
      BY <1>1, <2>1
    <3>2. PICK y \in T : TRUE
      OBVIOUS
    <3>3. u - 1 \in Nat
      BY <1>1, <2>1, <3>1, <3>2
    <3> QED BY <2>1, <3>1, <3>3
  <2> QED BY <2>1, <2>2
<1>4. Min(T) \in T /\ \A y \in T : Min(T) <= y
  BY <1>2, Zenon DEF Min
<1>5. Max(T) \in T /\ \A y \in T : Max(T) >= y
  BY <1>3, Zenon DEF Max
<1> QED BY <1>4, <1>5

LEMMA TrimSpaceType ==
  ASSUME NEW s \in Seq(Char)
  PROVE  TrimSpace(s) \in Seq(Char)
<1> DEFINE keep == {i \in DOMAIN s : s[i] \notin Blank}
<1>1. CASE keep = {}
  BY <1>1, EmptySeq DEF TrimSpace
<1>2. CASE keep # {}
  <2>1. /\ Len(s) \in Nat /\ keep \subseteq 1 .. Len(s)
        /\ \A i \in 1 .. Len(s) : s[i] \in Char
    BY LenProperties
  <2>2. TrimSpace(s) = SubSeq(s, Min(keep), Max(keep))
    BY <1>2 DEF TrimSpace
  <2> HIDE DEF keep
  <2>3. Min(keep) \in 1 .. Len(s) /\ Max(keep) \in 1 .. Len(s)
    <3>1. keep \subseteq 0 .. Len(s)
      BY <2>1
    <3> QED BY <1>2, <2>1, <3>1, MinMax
  <2>4. \A i \in Min(keep) .. Max(keep) : s[i] \in Char
    BY <2>1, <2>3
  <2> QED BY <2>1, <2>2, <2>3, <2>4, SubSeqProperties
<1> QED BY <1>1, <1>2

(* A line that neither begins nor ends with white space stays as it is. *)
LEMMA TrimSpaceNothing ==
  ASSUME NEW s \in Seq(Char), s # <<>>,
         s[1] \notin Blank, s[Len(s)] \notin Blank
  PROVE  TrimSpace(s) = s
<1> DEFINE keep == {i \in DOMAIN s : s[i] \notin Blank}
<1>1. /\ Len(s) \in Nat /\ Len(s) # 0 /\ keep \subseteq 1 .. Len(s)
      /\ 1 \in keep /\ Len(s) \in keep
  BY LenProperties, EmptySeq
<1>2. TrimSpace(s) = SubSeq(s, Min(keep), Max(keep))
  BY <1>1 DEF TrimSpace
<1> HIDE DEF keep
<1>3. keep \subseteq 0 .. Len(s) /\ keep # {}
  BY <1>1
<1>4. Min(keep) = 1 /\ Max(keep) = Len(s)
  <2>1. /\ Min(keep) \in keep /\ \A y \in keep : Min(keep) <= y
        /\ Max(keep) \in keep /\ \A y \in keep : Max(keep) >= y
    BY <1>1, <1>3, MinMax
  <2>2. /\ Min(keep) \in 1 .. Len(s) /\ Min(keep) <= 1
        /\ Max(keep) \in 1 .. Len(s) /\ Max(keep) >= Len(s)
    BY <1>1, <2>1, Zenon
  <2>3. \A n \in 1 .. Len(s) : (n <= 1 => n = 1) /\ (n >= Len(s) => n = Len(s))
    BY <1>1
  <2> QED BY <2>2, <2>3, Zenon
<1>5. SubSeq(s, 1, Len(s)) = s
  OBVIOUS
<1> QED BY <1>2, <1>4, <1>5

(* The ends of a quoted argument, and of the joined line. *)
LEMMA QuoteArgEnds ==
  ASSUME NEW w \in Word
  PROVE  LET q == quoteArg(w) IN
         /\ q \in Seq(Char) /\ q # <<>>
         /\ w[1] # Nl => q[1] \notin Blank
         /\ w[Len(w)] # Nl => q[Len(q)] \notin Blank
<1> DEFINE q == quoteArg(w)
<1>1. /\ q \in Seq(Char) /\ w \in Seq(Char) /\ w # <<>> /\ Len(w) \in Nat
      /\ Len(w) # 0
  BY EmptySeq, QuoteArgLoop, LenProperties DEF Word
<1>2. CASE Bare(w)
  <2>1. q = w
    BY <1>1, <1>2 DEF quoteArg, Bare
  <2>2. w[1] # Sp /\ w[Len(w)] # Sp
    BY <1>1, <1>2 DEF Bare
  <2> QED BY <1>1, <2>1, <2>2 DEF Blank
<1>3. CASE ~Bare(w)
  <2> DEFINE e == Escaped(w)
  <2>1. q = <<Quote>> \o e \o <<Quote>>
    BY <1>3, Zenon DEF quoteArg, Bare
  <2>2. e \in Seq(Char)
    BY <1>1, EscapedAppend DEF Char
  <2> HIDE DEF e, q
  <2>3. /\ Len(q) \in Nat /\ Len(q) # 0 /\ q[1] = Quote /\ q[Len(q)] = Quote
    BY <2>1, <2>2
  <2>4. Quote \notin Blank
    BY DEF Quote, Blank, Sp, Nl
  <2> QED BY <1>1, <2>3, <2>4 DEF q
<1> QED BY <1>2, <1>3

LEMMA ConcatEnds ==
  ASSUME NEW x \in Seq(Char), NEW y \in Seq(Char)
  PROVE  /\ x # <<>> => x \o y # <<>> /\ (x \o y)[1] = x[1]
         /\ y # <<>> => /\ x \o y # <<>>
                       /\ (x \o y)[Len(x \o y)] = y[Len(y)]
<1>1. /\ Len(x) \in Nat /\ Len(y) \in Nat /\ Len(x \o y) = Len(x) + Len(y)
      /\ x # <<>> => Len(x) # 0
      /\ y # <<>> => Len(y) # 0
      /\ x \o y = <<>> => Len(x \o y) = 0
  BY LenProperties, EmptySeq
<1>2. CASE x # <<>>
  BY <1>1, <1>2
<1>3. CASE y # <<>>
  BY <1>1, <1>3
<1> QED BY <1>2, <1>3

LEMMA JoinTurnEnds ==
  ASSUME NEW x \in Seq(Char), NEW n, NEW w \in Word
  PROVE  LET j == JoinTurn(x, n, w) IN
         /\ j # <<>>
         /\ x # <<>> => j[1] = x[1]
         /\ w[Len(w)] # Nl => j[Len(j)] \notin Blank
<1> DEFINE sep == IF n = 1 THEN <<>> ELSE <<Sp>>
           q == quoteArg(w)
           j == JoinTurn(x, n, w)
<1>1. sep \in Seq(Char)
  <2>1. <<>> \in Seq(Char) /\ <<Sp>> \in Seq(Char)
    BY DEF Char
  <2> QED BY <2>1
<1>2. /\ q \in Seq(Char) /\ q # <<>>
      /\ w[Len(w)] # Nl => q[Len(q)] \notin Blank
  BY QuoteArgEnds
<1>3. j = (x \o sep) \o q
  BY Zenon DEF JoinTurn
<1> HIDE DEF sep, q, j
<1>4. x \o sep \in Seq(Char)
  BY <1>1, ConcatProperties
<1>5. x # <<>> => x \o sep # <<>> /\ (x \o sep)[1] = x[1]
  BY <1>1, ConcatEnds
<1>6. /\ j # <<>> /\ j[Len(j)] = q[Len(q)]
      /\ x \o sep # <<>> => j[1] = (x \o sep)[1]
  BY <1>2, <1>3, <1>4, ConcatEnds
<1>7. /\ j # <<>>
      /\ x # <<>> => j[1] = x[1]
      /\ w[Len(w)] # Nl => j[Len(j)] \notin Blank
  BY <1>2, <1>5, <1>6
<1> QED BY <1>7 DEF j

LEMMA JoinArgsEnds ==
  ASSUME NEW args \in Seq(Word), NEW w \in Word
  PROVE  LET j == joinArgs(Append(args, w)) IN
         /\ j # <<>>
         /\ Append(args, w)[1][1] # Nl => j[1] \notin Blank
         /\ w[Len(w)] # Nl => j[Len(j)] \notin Blank
<1> DEFINE First(r) == r[1][1] # Nl => joinArgs(r)[1] \notin Blank
           S == {r \in Seq(Word) : \A v \in Word :
                   joinArgs(Append(r, v)) # <<>> /\ First(Append(r, v))}
<1>1. <<>> \in S
  <2>1. <<>> \in Seq(Word) /\ <<>> \in Seq(Char)
    BY EmptySeq
  <2> SUFFICES ASSUME NEW v \in Word
               PROVE  joinArgs(Append(<<>>, v)) # <<>> /\ First(Append(<<>>, v))
    BY <2>1
  <2>2. quoteArg(v) \in Seq(Char)
    BY QuoteArgEnds
  <2>3. joinArgs(Append(<<>>, v)) = JoinTurn(<<>>, 1, v)
    <3>1. Len(<<>>) + 1 = 1
      OBVIOUS
    <3> QED BY <2>1, <3>1, JoinArgsAppend, JoinArgsEmpty
  <2>4. JoinTurn(<<>>, 1, v) = quoteArg(v)
    <3>1. JoinTurn(<<>>, 1, v) = <<>> \o <<>> \o quoteArg(v)
      BY DEF JoinTurn
    <3> QED BY <2>2, <3>1
  <2>5. Append(<<>>, v)[1] = v
    OBVIOUS
  <2>6. quoteArg(v) # <<>> /\ (v[1] # Nl => quoteArg(v)[1] \notin Blank)
    BY QuoteArgEnds
  <2> QED BY <2>3, <2>4, <2>5, <2>6, Zenon
<1>2. ASSUME NEW r \in Seq(Word), NEW v \in Word, r \in S
      PROVE  Append(r, v) \in S
  <2>1. Append(r, v) \in Seq(Word)
    OBVIOUS
  <2> SUFFICES ASSUME NEW u \in Word
               PROVE  /\ joinArgs(Append(Append(r, v), u)) # <<>>
                      /\ First(Append(Append(r, v), u))
    BY <2>1
  <2>2. joinArgs(Append(r, v)) # <<>> /\ First(Append(r, v))
    BY <1>2
  <2> DEFINE a == Append(r, v)
  <2>3. a[1] = Append(a, u)[1]
    <3>1. Len(a) \in Nat /\ Len(a) # 0
      BY AppendProperties, LenProperties
    <3> HIDE DEF a
    <3>2. a \in Seq(Word)
      BY <2>1 DEF a
    <3> QED BY <3>1, <3>2
  <2> HIDE DEF a
  <2>4. joinArgs(Append(a, u)) = JoinTurn(joinArgs(a), Len(a) + 1, u)
    BY <2>1, JoinArgsAppend DEF a
  <2>5. joinArgs(a) \in Seq(Char)
    BY JoinArgsLoop DEF a
  <2>6. joinArgs(Append(a, u)) # <<>> /\ joinArgs(Append(a, u))[1] = joinArgs(a)[1]
    BY <2>2, <2>4, <2>5, JoinTurnEnds DEF a
  <2> QED BY <2>2, <2>3, <2>6 DEF a
<1> HIDE DEF S
<1>3. \A r \in Seq(Word) : r \in S
  BY <1>1, <1>2, SeqSetInduction
<1>4. joinArgs(Append(args, w)) # <<>> /\ First(Append(args, w))
  BY <1>3 DEF S
<1>5. LET j == joinArgs(Append(args, w)) IN
        w[Len(w)] # Nl => j[Len(j)] \notin Blank
  <2>1. joinArgs(args) \in Seq(Char)
    BY JoinArgsAppend
  <2>2. joinArgs(Append(args, w)) = JoinTurn(joinArgs(args), Len(args) + 1, w)
    BY JoinArgsAppend
  <2> QED BY <2>1, <2>2, JoinTurnEnds
<1> QED BY <1>4, <1>5

-----------------------------------------------------------------------------
(* The executable and every argument that StartWarpSvc starts warp-svc     *)
(* with are those of the configured command line, for a line of any length *)
(* and any characters; only a newline that ends the last argument is lost. *)
THEOREM CommandSurvives ==
  ASSUME NEW raw \in Seq(Char)
  PROVE  ArgsSurviveJoin(raw)
<1> DEFINE line == TrimSpace(raw)
           parts == splitArgs(line)
           argv == StartWarpSvc(prepareWarpSvcCommand(raw))
<1>1. line \in Seq(Char) /\ parts \in Seq(Word)
  BY TrimSpaceType, SplitArgsType
<1>2. CASE line = <<>> \/ parts = Error
  <2>1. prepareWarpSvcCommand(raw) = <<>>
    BY <1>2 DEF prepareWarpSvcCommand
  <2>2. TrimSpace(<<>>) = <<>>
    BY DEF TrimSpace
  <2>3. argv = Error
    BY <2>1, <2>2, Zenon DEF StartWarpSvc
  <2> QED BY <1>2, <2>3, Zenon DEF ArgsSurviveJoin
<1>3. CASE ~(line = <<>> \/ parts = Error)
  <2> DEFINE exe == parts[1]
             N == Len(parts)
             args == [parts EXCEPT ![1] = Target(exe)]
             j == joinArgs(args)
  <2> SUFFICES ASSUME parts[N][Len(parts[N])] # Nl
               PROVE  argv = args
    BY <1>3, Zenon DEF ArgsSurviveJoin
  <2>1. prepareWarpSvcCommand(raw) = j
    BY <1>3, Zenon DEF prepareWarpSvcCommand
  <2> HIDE DEF parts, line
  <2>2. N \in Nat /\ N # 0 /\ exe \in Word /\ parts[N] \in Word
    BY <1>1, <1>3, LenProperties, EmptySeq DEF Error
  <2>3. /\ Target(exe) \in Word /\ Target(exe)[1] = A
        /\ Target(exe)[Len(Target(exe))] = exe[Len(exe)]
    <3>1. exe \in Seq(Char) /\ exe # <<>> /\ <<A>> \in Seq(Char)
      BY <2>2 DEF Word, Char
    <3>2. /\ <<A>> \o exe \in Seq(Char) /\ <<A>> \o exe # <<>>
          /\ (<<A>> \o exe)[Len(<<A>> \o exe)] = exe[Len(exe)]
      BY <3>1, ConcatProperties, ConcatEnds
    <3>3. (<<A>> \o exe)[1] = A
      BY <3>1
    <3> QED BY <3>2, <3>3 DEF Target, Word
  <2>4. args \in Seq(Word) /\ Len(args) = N /\ args[1] = Target(exe)
    <3> HIDE DEF exe
    <3> QED BY <1>1, <2>2, <2>3
  <2>5. args[N][Len(args[N])] # Nl
    <3>1. CASE N = 1
      BY <2>3, <2>4, <3>1
    <3>2. CASE N # 1
      <4>1. args[N] = parts[N]
        BY <1>1, <2>2, <3>2
      <4> QED BY <4>1
    <3> QED BY <3>1, <3>2
  <2> HIDE DEF args, exe, N
  <2>6. args # <<>>
    BY <2>2, <2>4, EmptySeq
  <2>7. PICK r \in Seq(Word), w \in Word : args = Append(r, w)
    BY <2>4, <2>6, SequenceEmptyOrAppend, Zenon
  <2>8. args[N] = w
    BY <2>4, <2>7, AppendProperties
  <2>9. A # Nl
    BY DEF A, Nl
  <2>10. /\ j \in Seq(Char) /\ j # <<>>
         /\ j[1] \notin Blank /\ j[Len(j)] \notin Blank
    BY <2>3, <2>4, <2>5, <2>7, <2>8, <2>9, JoinArgsLoop, JoinArgsEnds
  <2>11. splitArgs(j) = args
    BY <2>4, <2>6, SplitJoin
  <2> HIDE DEF j
  <2>12. TrimSpace(j) = j
    BY <2>10, TrimSpaceNothing
  <2>13. StartWarpSvc(j) = args
    BY <2>10, <2>11, <2>12, Zenon DEF StartWarpSvc
  <2> QED BY <2>1, <2>13, Zenon
<1> QED BY <1>2, <1>3
=============================================================================
