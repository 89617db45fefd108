-------------------------- MODULE CommandTextProofs ---------------------------
(***************************************************************************)
(* Theorems about CommandText: whatever a client sends, and whatever the   *)
(* parameters of the handler are, its values are in their places           *)
(* (CalledInPlaceAlways); no argument is cut inside its quotes, and a      *)
(* command that is sent again is the same command (QuotesWholeAlways);     *)
(* what a client composes arrives value by value (ValuesArriveAlways).     *)
(*                                                                         *)
(* The last two are about loops over a text of any length.  They rest on   *)
(* an induction principle for sets of numbers (Induction), which follows   *)
(* from < being well-founded.                                              *)
(***************************************************************************)
EXTENDS CommandText, Integers, FiniteSetTheorems, WellFoundedInduction,
        TLAPS

-----------------------------------------------------------------------------
(* The values of a call are in their places.                               *)

Parameters == [type : Types, optional : BOOLEAN]

\* The IPs are the first parameters, as many as Ips says.
LEMMA IpsFirst ==
    ASSUME NEW sig \in Signatures
    PROVE  /\ sig \in Seq(Parameters)
           /\ Ips(sig) \in 0..Len(sig)
           /\ \A k \in DOMAIN sig : sig[k].type = "ip" <=> k <= Ips(sig)
<1>1. PICK n \in 0..Len(sig) :
         \A k \in DOMAIN sig : sig[k].type = "ip" <=> k <= n
  BY TextAssumption
<1>2. sig \in Seq(Parameters)
  BY TextAssumption DEF Parameters
<1>3. {k \in DOMAIN sig : sig[k].type = "ip"} = 1..n
  BY <1>1, <1>2
<1>4. n \in Nat /\ n - 1 + 1 = n
  BY <1>1, <1>2
<1>5. Cardinality(1..n) = n
  BY <1>4, FS_Interval
<1> QED BY <1>1, <1>2, <1>3, <1>5 DEF Ips

\* What an argument is converted to keeps its text, or its text unquoted.
LEMMA ConvertArgument ==
    ASSUME NEW type \in Types \ {"ip"}, NEW postponed \in BOOLEAN, NEW raw,
           Convert(type, postponed, raw) # Error
    PROVE  /\ Convert(type, postponed, raw).type \in Types \ {"ip"}
           /\ Convert(type, postponed, raw).text \in {raw, StripQuotes(raw)}
BY DEF Convert, Value, Error, Types

\* The parameters behind the IPs, and their number.
LEMMA ParamsBehind ==
    ASSUME NEW sig \in Signatures
    PROVE  \E n, m \in Nat :
             /\ n = Ips(sig) /\ Len(sig) = n + m
             /\ DOMAIN sig = 1..(n + m)
             /\ \A k \in 1..(n + m) : sig[k].type = "ip" <=> k <= n
             /\ DOMAIN ScpiParams(sig) = 1..m
             /\ \A i \in 1..m : /\ ScpiParams(sig)[i] = sig[n + i]
                                /\ sig[n + i].type \in Types \ {"ip"}
<1>1. /\ sig \in Seq(Parameters) /\ Ips(sig) \in 0..Len(sig)
      /\ \A k \in DOMAIN sig : sig[k].type = "ip" <=> k <= Ips(sig)
  BY IpsFirst
<1>2. PICK n \in Nat, m \in Nat : n = Ips(sig) /\ Len(sig) = n + m
  <2>1. PICK n \in Nat, l \in Nat : n = Ips(sig) /\ l = Len(sig) /\ n <= l
    BY <1>1
  <2>2. l - n \in Nat /\ l = n + (l - n)
    BY <2>1
  <2> QED BY <2>1, <2>2
<1>3. DOMAIN sig = 1..(n + m)
  BY <1>1, <1>2
<1>4. \A k \in 1..(n + m) : sig[k].type = "ip" <=> k <= n
  BY <1>1, <1>2, <1>3
<1>5. ASSUME NEW i \in 1..m
      PROVE  sig[n + i].type \in Types \ {"ip"}
  <2>1. n + i \in 1..(n + m) /\ ~(n + i <= n)
    OBVIOUS
  <2>2. sig[n + i] \in Parameters
    BY <1>1, <1>3, <2>1
  <2>3. sig[n + i].type # "ip"
    BY <1>4, <2>1
  <2> QED BY <2>2, <2>3 DEF Parameters
<1>6. ScpiParams(sig) = SubSeq(sig, n + 1, n + m)
  BY <1>2 DEF ScpiParams
<1>7. /\ DOMAIN SubSeq(sig, n + 1, n + m) = 1..m
      /\ \A i \in 1..m : SubSeq(sig, n + 1, n + m)[i] = sig[n + i]
  <2>1. CASE m > 0
    BY <1>1, <1>2, <2>1
  <2>2. CASE m = 0
    BY <1>1, <1>2, <2>2
  <2> QED BY <2>1, <2>2
<1>8. /\ DOMAIN ScpiParams(sig) = 1..m
      /\ \A i \in 1..m : /\ ScpiParams(sig)[i] = sig[n + i]
                         /\ sig[n + i].type \in Types \ {"ip"}
  BY <1>5, <1>6, <1>7
<1> WITNESS n \in Nat, m \in Nat
<1> QED BY <1>2, <1>3, <1>4, <1>8

\* A function on 1..n is a sequence of length n.
LEMMA Listed ==
    ASSUME NEW n \in Nat, NEW S, NEW f \in [1..n -> S]
    PROVE  f \in Seq(S) /\ Len(f) = n
<1>1. [i \in 1..n |-> f[i]] \in Seq(S) /\ Len([i \in 1..n |-> f[i]]) = n
  OBVIOUS
<1>2. f = [i \in 1..n |-> f[i]]
  OBVIOUS
<1> QED BY <1>1, <1>2

\* A sequence behind another: first the elements of one, then of the other.
LEMMA Joined ==
    ASSUME NEW S, NEW f \in Seq(S), NEW g \in Seq(S),
           NEW n \in Nat, NEW m \in Nat, Len(f) = n, Len(g) = m
    PROVE  /\ f \o g \in Seq(S) /\ Len(f \o g) = n + m
           /\ \A k \in 1..n : (f \o g)[k] = f[k]
           /\ \A i \in 1..m : (f \o g)[n + i] = g[i]
OBVIOUS

\* A call that is not refused has its values in their places.
InPlace(sig, values) ==
    /\ Len(values) = Len(sig)
    /\ \A i \in DOMAIN sig :
         LET arg == i - Ips(sig) IN
         /\ sig[i].type = "ip" <=> values[i].type = "ip"
         /\ values[i].type = "default" =>
              sig[i].optional /\ arg \notin 1..Len(command.args)
         /\ values[i].type \notin {"ip", "default"} =>
              values[i].text \in
                  {command.args[arg], StripQuotes(command.args[arg])}

\* That is what AllArgs puts together, unless one of the values is an error.
LEMMA AllArgsInPlace ==
    ASSUME NEW sig \in Signatures, NEW postponed \in BOOLEAN,
           \A i \in DOMAIN AllArgs(sig, postponed) :
              AllArgs(sig, postponed)[i] # Error
    PROVE  InPlace(sig, AllArgs(sig, postponed))
<1> DEFINE values == AllArgs(sig, postponed)
           ips    == [i \in 1..Ips(sig) |-> Value("ip", << >>)]
           rest   == [i \in DOMAIN ScpiParams(sig) |->
                        Extracted(ScpiParams(sig)[i], i, postponed)]
<1> HIDE DEF values, ips, rest
<1>1. PICK n \in Nat, m \in Nat :
         /\ n = Ips(sig) /\ Len(sig) = n + m
         /\ DOMAIN sig = 1..(n + m)
         /\ \A k \in 1..(n + m) : sig[k].type = "ip" <=> k <= n
         /\ DOMAIN ScpiParams(sig) = 1..m
         /\ \A i \in 1..m : /\ ScpiParams(sig)[i] = sig[n + i]
                            /\ sig[n + i].type \in Types \ {"ip"}
  BY ParamsBehind
<1>2. values = ips \o rest
  BY DEF AllArgs, values, ips, rest
<1>3. /\ ips = [i \in 1..n |-> Value("ip", << >>)]
      /\ rest = [i \in 1..m |-> Extracted(sig[n + i], i, postponed)]
  BY <1>1 DEF ips, rest
<1> DEFINE Given == {ips[i] : i \in 1..n} \cup {rest[i] : i \in 1..m}
<1>4. ips \in [1..n -> Given] /\ rest \in [1..m -> Given]
  BY <1>3
<1> HIDE DEF Given
<1>5. /\ ips \in Seq(Given) /\ rest \in Seq(Given)
      /\ Len(ips) = n /\ Len(rest) = m
  BY <1>4, Listed
<1>6. /\ values \in Seq(Given) /\ Len(values) = n + m /\ DOMAIN values = 1..(n + m)
      /\ \A k \in 1..n : values[k] = Value("ip", << >>)
      /\ \A i \in 1..m : /\ n + i \in 1..(n + m)
                         /\ values[n + i] = Extracted(sig[n + i], i, postponed)
  <2>1. Len(values) = n + m /\ values \in Seq(Given)
    BY <1>2, <1>5, Joined
  <2>2. \A k \in 1..n : values[k] = ips[k]
    BY <1>2, <1>5, Joined
  <2>3. \A i \in 1..m : values[n + i] = rest[i]
    BY <1>2, <1>5, Joined
  <2>4. \A i \in 1..m : n + i \in 1..(n + m)
    OBVIOUS
  <2> QED BY <2>1, <2>2, <2>3, <2>4, <1>3
<1>7. ASSUME NEW k \in 1..n
       PROVE  k - n \in Int /\ sig[k].type = "ip" /\ values[k].type = "ip"
  BY <1>1, <1>6 DEF Value
<1>8. ASSUME NEW i \in 1..m
       PROVE  /\ sig[n + i].type # "ip" /\ values[n + i].type # "ip"
              /\ values[n + i].type = "default" =>
                   sig[n + i].optional /\ i \notin 1..Len(command.args)
              /\ values[n + i].type # "default" =>
                   values[n + i].text \in
                     {command.args[i], StripQuotes(command.args[i])}
  <2>1. sig[n + i].type \in Types \ {"ip"}
    BY <1>1
  <2>2. values[n + i] = Extracted(sig[n + i], i, postponed)
    BY <1>6
  <2>3. values[n + i] # Error
    BY <1>6 DEF values
  <2>4. CASE i <= Len(command.args)
    <3>1. values[n + i] = Convert(sig[n + i].type, postponed, command.args[i])
      BY <2>2, <2>4 DEF Extracted
    <3>2. /\ values[n + i].type \in Types \ {"ip"}
          /\ values[n + i].text \in
               {command.args[i], StripQuotes(command.args[i])}
      BY <2>1, <2>3, <3>1, ConvertArgument
    <3> QED BY <2>1, <3>2 DEF Types
  <2>5. CASE ~(i <= Len(command.args))
    <3>1. /\ sig[n + i].optional
          /\ values[n + i] = Default(sig[n + i])
      BY <2>2, <2>3, <2>5 DEF Extracted
    <3>2. i \notin 1..Len(command.args)
      BY <2>5
    <3> QED BY <2>1, <3>1, <3>2 DEF Default, Value
  <2> QED BY <2>4, <2>5
<1>9. \A k \in 1..(n + m) : k \in 1..n \/ \E i \in 1..m : k = n + i /\ k - n = i
  <2> TAKE k \in 1..(n + m)
  <2>1. CASE k <= n
    BY <2>1
  <2>2. CASE ~(k <= n)
    <3>1. k - n \in 1..m /\ k = n + (k - n)
      BY <2>2
    <3> QED BY <3>1
  <2> QED BY <2>1, <2>2
<1>10. ASSUME NEW k \in 1..(n + m)
       PROVE  LET arg == k - n IN
              /\ sig[k].type = "ip" <=> values[k].type = "ip"
              /\ values[k].type = "default" =>
                   sig[k].optional /\ arg \notin 1..Len(command.args)
              /\ values[k].type \notin {"ip", "default"} =>
                   values[k].text \in
                     {command.args[arg], StripQuotes(command.args[arg])}
  <2>1. CASE k \in 1..n
    BY <1>7, <2>1
  <2>2. CASE \E i \in 1..m : k = n + i /\ k - n = i
    <3> PICK i \in 1..m : k = n + i /\ k - n = i
      BY <2>2
    <3> QED BY <1>8
  <2> QED BY <1>9, <2>1, <2>2
<1> QED BY <1>1, <1>6, <1>10 DEF InPlace, values

\* The call that is under way is that of its command.
CallInv ==
    call # None =>
        /\ command # None /\ command.mnemonic # << >>
        /\ ~call.refused => InPlace(call.sig, call.values)

\* Whatever a client sends and whatever handler it reaches: one value for each
\* parameter, the IPs first, then the arguments in order, then defaults.
THEOREM CalledInPlaceAlways == Spec => []CalledInPlace
<1>1. Init => CallInv
  BY DEF Init, CallInv
<1>2. CallInv /\ [Next]_vars => CallInv'
  <2> SUFFICES ASSUME CallInv, [Next]_vars PROVE CallInv'
    OBVIOUS
  <2>1. CASE UNCHANGED vars
    BY <2>1 DEF vars, CallInv, InPlace
  <2>2. CASE Receive
    BY <2>2 DEF Receive, CallInv
  <2>3. CASE Empty
    BY <2>3 DEF Empty, CallInv
  <2>4. CASE Call
    <3>1. PICK sig \in Signatures, postponed \in Postponements :
             LET values == AllArgs(sig, postponed)
                 bad    == \E i \in DOMAIN values : values[i] = Error
             IN  call' = [sig |-> sig, postponed |-> postponed, refused |-> bad,
                          values |-> IF bad THEN << >> ELSE values]
      BY <2>4 DEF Call
    <3>2. postponed \in BOOLEAN
      BY TextAssumption
    <3>3. command' = command /\ command # None /\ command.mnemonic # << >>
      BY <2>4 DEF Call
    <3>4. ASSUME ~call'.refused
          PROVE  InPlace(sig, AllArgs(sig, postponed))
      BY <3>1, <3>2, <3>4, AllArgsInPlace
    <3>5. ~call'.refused => /\ call'.sig = sig
                            /\ call'.values = AllArgs(sig, postponed)
      BY <3>1
    <3> QED BY <3>3, <3>4, <3>5 DEF CallInv, InPlace
  <2>5. CASE Answer
    BY <2>5 DEF Answer, CallInv
  <2> QED BY <2>1, <2>2, <2>3, <2>4, <2>5 DEF Next
<1>3. CallInv => CalledInPlace
  BY DEF CallInv, CalledInPlace, InPlace
<1> QED BY <1>1, <1>2, <1>3, PTL DEF Spec
-----------------------------------------------------------------------------
(* Induction on the natural numbers, for sets rather than for operators.   *)

Less == {p \in Nat \X Nat : p[1] < p[2]}

LEMMA LessWellFounded == IsWellFoundedOn(Less, Nat)
<1>1. OpToRel(<, Nat) = Less
  BY Zenon DEF OpToRel, Less
<1> QED BY <1>1, NatLessThanWellFounded

\* Of natural numbers there is a least one.
LEMMA Least ==
    ASSUME NEW S \in SUBSET Nat, S # {}
    PROVE  \E m \in S : \A y \in S : m <= y
<1>1. PICK m \in S : \A y \in S : ~(<<y, m>> \in Less)
  BY LessWellFounded, WFMin
<1>2. ASSUME NEW y \in S, y < m PROVE FALSE
  <2>1. <<y, m>> \in Less
    BY <1>2 DEF Less
  <2> QED BY <1>1, <2>1
<1>3. \A y \in S : m <= y
  BY <1>2
<1> QED BY <1>3

\* A set with 0 that has the successors of its members has all numbers.
LEMMA Induction ==
    ASSUME NEW T, 0 \in T, \A n \in Nat : n \in T => n + 1 \in T
    PROVE  \A n \in Nat : n \in T
<1> SUFFICES ASSUME Nat \ T # {} PROVE FALSE
  OBVIOUS
<1>1. PICK m \in Nat \ T : \A y \in Nat \ T : m <= y
  BY Least
<1>2. m - 1 \in Nat /\ m = (m - 1) + 1 /\ ~(m <= m - 1)
  BY <1>1
<1>3. m - 1 \in T
  BY <1>1, <1>2
<1>4. m \in T
  BY <1>2, <1>3
<1> QED BY <1>4

-----------------------------------------------------------------------------
(* The mnemonic and the rest of a text are texts.                          *)

\* What CHOOSE finds is there.
LEMMA MinIsLeast ==
    ASSUME NEW S \in SUBSET Nat, S # {}
    PROVE  Min(S) \in S /\ \A y \in S : Min(S) <= y
BY Least DEF Min

LEMMA MaxIsGreatest ==
    ASSUME NEW n \in Nat, NEW S \in SUBSET (1..n), S # {}
    PROVE  Max(S) \in S /\ \A y \in S : Max(S) >= y
<1> DEFINE Above == {m \in Nat : \A y \in S : y <= m}
<1>1. n \in Above
  OBVIOUS
<1>2. PICK m \in Above : \A y \in Above : m <= y
  BY <1>1, Least
<1>3. m \in S
  <2> SUFFICES ASSUME m \notin S PROVE FALSE
    OBVIOUS
  <2>1. \A y \in S : y \in Nat /\ y <= m /\ y # m /\ y >= 1
    BY <1>2
  <2>2. PICK z \in S : TRUE
    OBVIOUS
  <2>3. m \in Nat /\ m > 0
    BY <1>2, <2>1, <2>2
  <2>4. m - 1 \in Nat /\ \A y \in S : y <= m - 1
    BY <2>1, <2>3
  <2>5. m - 1 \in Above
    BY <2>4
  <2> QED BY <2>3, <2>5, <1>2
<1>4. \E x \in S : \A y \in S : x >= y
  <2>1. \A y \in S : m >= y
    BY <1>2
  <2> QED BY <1>3, <2>1
<1> QED BY <1>4 DEF Max

\* A part of a text is a text.
LEMMA Part ==
    ASSUME NEW S, NEW s \in Seq(S), NEW a \in 1..(Len(s) + 1), NEW b \in 0..Len(s)
    PROVE  SubSeq(s, a, b) \in Seq(S)
OBVIOUS

\* A stripped text is a text.
LEMMA StripType ==
    ASSUME NEW s \in Seq(Chars)
    PROVE  Strip(s) \in Seq(Chars)
<1> DEFINE solid == {k \in DOMAIN s : s[k] \notin White}
<1> HIDE DEF solid
<1>1. solid \in SUBSET (1..Len(s)) /\ Len(s) \in Nat
  BY DEF solid
<1>2. CASE solid = {}
  <2>1. Strip(s) = << >>
    BY <1>2 DEF Strip, solid
  <2> QED BY <2>1
<1>3. CASE solid # {}
  <2>1. Min(solid) \in 1..Len(s) /\ Max(solid) \in 1..Len(s)
    <3>1. solid \in SUBSET Nat
      BY <1>1
    <3> QED BY <1>1, <1>3, <3>1, MinIsLeast, MaxIsGreatest
  <2>2. Strip(s) = SubSeq(s, Min(solid), Max(solid))
    BY <1>3 DEF Strip, solid
  <2> QED BY <2>1, <2>2, Part
<1> QED BY <1>2, <1>3

\* A text without white space around it is what is left of it.
LEMMA StripFrom ==
    ASSUME NEW s \in Seq(Chars), NEW n \in Nat, n < Len(s),
           \A k \in 1..n : s[k] \in White,
           s[n + 1] \notin White, s[Len(s)] \notin White
    PROVE  Strip(s) = SubSeq(s, n + 1, Len(s))
<1> DEFINE solid == {k \in DOMAIN s : s[k] \notin White}
<1> HIDE DEF solid
<1>1. /\ solid \in SUBSET (1..Len(s)) /\ solid \in SUBSET Nat /\ Len(s) \in Nat
      /\ n + 1 \in solid /\ Len(s) \in solid
      /\ \A k \in solid : k >= n + 1
  BY DEF solid
<1>2. /\ Min(solid) \in solid /\ \A k \in solid : Min(solid) <= k
      /\ Max(solid) \in solid /\ \A k \in solid : Max(solid) >= k
  BY <1>1, MinIsLeast, MaxIsGreatest
<1>3. Min(solid) = n + 1 /\ Max(solid) = Len(s)
  <2>1. PICK a \in 1..Len(s), b \in 1..Len(s) : a = Min(solid) /\ b = Max(solid)
    BY <1>1, <1>2
  <2>2. a >= n + 1 /\ a <= n + 1 /\ b >= Len(s) /\ b <= Len(s)
    BY <1>1, <1>2, <2>1
  <2> QED BY <1>1, <2>1, <2>2
<1>4. Strip(s) = SubSeq(s, Min(solid), Max(solid))
  BY <1>1 DEF Strip, solid
<1> QED BY <1>3, <1>4

\* What is left of a text has no white space around it.
Bare(s) == s # << >> => s[1] \notin White /\ s[Len(s)] \notin White

LEMMA StripBare ==
    ASSUME NEW s \in Seq(Chars)
    PROVE  Bare(Strip(s))
<1> DEFINE solid == {k \in DOMAIN s : s[k] \notin White}
<1> HIDE DEF solid
<1>1. solid \in SUBSET (1..Len(s)) /\ solid \in SUBSET Nat /\ Len(s) \in Nat
  BY DEF solid
<1>2. CASE solid = {}
  <2>1. Strip(s) = << >>
    BY <1>2 DEF Strip, solid
  <2> QED BY <2>1 DEF Bare
<1>3. CASE solid # {}
  <2>1. PICK a \in 1..Len(s), b \in 1..Len(s) :
           a = Min(solid) /\ b = Max(solid) /\ a <= b /\ a \in solid /\ b \in solid
    <3>1. Min(solid) \in solid /\ Max(solid) \in solid /\ Min(solid) <= Max(solid)
      BY <1>1, <1>3, MinIsLeast, MaxIsGreatest
    <3> QED BY <1>1, <3>1
  <2>2. Strip(s) = SubSeq(s, a, b)
    BY <1>3, <2>1 DEF Strip, solid
  <2>3. /\ SubSeq(s, a, b)[1] = s[a]
        /\ SubSeq(s, a, b)[Len(SubSeq(s, a, b))] = s[b]
    BY <2>1
  <2>4. s[a] \notin White /\ s[b] \notin White
    BY <2>1 DEF solid
  <2> QED BY <2>2, <2>3, <2>4 DEF Bare
<1> QED BY <1>2, <1>3

\* The mnemonic ends at the first white space, or with the text; the scan is
\* over what is left of the rest.
LEMMA NormalizeParts ==
    ASSUME NEW raw \in Seq(Chars)
    PROVE  \E end \in 0..Len(Strip(raw)) :
             /\ \A k \in 1..end : Strip(raw)[k] \notin White
             /\ end # Len(Strip(raw)) => Strip(raw)[end + 1] \in White
             /\ Normalize(raw) =
                  [mnemonic |-> SubSeq(Strip(raw), 1, end),
                   args     |-> SplitArgs(Strip(SubSeq(Strip(raw), end + 1,
                                                       Len(Strip(raw)))))]
<1> DEFINE s     == Strip(raw)
           white == {k \in DOMAIN s : s[k] \in White}
           end   == IF white = {} THEN Len(s) ELSE Min(white) - 1
<1> HIDE DEF s, white, end
<1>1. s \in Seq(Chars)
  BY StripType DEF s
<1>2. white \in SUBSET (1..Len(s)) /\ white \in SUBSET Nat /\ Len(s) \in Nat
  BY <1>1 DEF white
<1>3. /\ end \in 0..Len(s)
      /\ \A k \in 1..end : s[k] \notin White
      /\ end # Len(s) => s[end + 1] \in White
  <2>1. CASE white = {}
    <3>1. \A k \in 1..Len(s) : s[k] \notin White
      BY <1>1, <2>1 DEF white
    <3> QED BY <1>2, <2>1, <3>1 DEF end
  <2>2. CASE white # {}
    <3>1. PICK w \in white : w = Min(white) /\ \A k \in white : w <= k
      BY <1>2, <2>2, MinIsLeast
    <3>2. w \in 1..Len(s) /\ s[w] \in White /\ end = w - 1
      BY <1>2, <2>2, <3>1 DEF white, end
    <3>3. ASSUME NEW k \in 1..end, s[k] \in White PROVE FALSE
      <4>1. k \in 1..Len(s) /\ ~(w <= k)
        BY <1>2, <3>2
      <4>2. k \in white
        BY <1>1, <3>3, <4>1 DEF white
      <4> QED BY <3>1, <4>1, <4>2
    <3>4. end + 1 = w
      BY <1>2, <3>2
    <3> QED BY <1>2, <3>2, <3>3, <3>4
  <2> QED BY <2>1, <2>2
<1>4. Normalize(raw) = [mnemonic |-> SubSeq(s, 1, end),
                        args |-> SplitArgs(Strip(SubSeq(s, end + 1, Len(s))))]
  BY DEF Normalize, s, white, end
<1> QED BY <1>3, <1>4 DEF s

\* The mnemonic and the rest of a text are texts.
LEMMA NormalizeType ==
    ASSUME NEW raw \in Seq(Chars)
    PROVE  \E m \in Seq(Chars), rest \in Seq(Chars) :
             /\ Normalize(raw) = [mnemonic |-> m, args |-> SplitArgs(rest)]
             /\ \A k \in 1..Len(m) : m[k] \notin White
             /\ Bare(rest)
             /\ m = << >> => rest = << >>
<1> DEFINE s == Strip(raw)
<1> HIDE DEF s
<1>1. s \in Seq(Chars) /\ Bare(s) /\ Len(s) \in Nat
  BY StripType, StripBare DEF s
<1>2. PICK end \in 0..Len(s) :
         /\ \A k \in 1..end : s[k] \notin White
         /\ end # Len(s) => s[end + 1] \in White
         /\ Normalize(raw) =
              [mnemonic |-> SubSeq(s, 1, end),
               args     |-> SplitArgs(Strip(SubSeq(s, end + 1, Len(s))))]
  BY NormalizeParts DEF s
<1> DEFINE m    == SubSeq(s, 1, end)
           back == SubSeq(s, end + 1, Len(s))
<1>3. m \in Seq(Chars) /\ back \in Seq(Chars)
  <2>1. end + 1 \in 1..(Len(s) + 1) /\ Len(s) \in 0..Len(s)
    BY <1>1, <1>2
  <2> QED BY <1>1, <1>2, <2>1, Part
<1>4. Len(m) = end /\ \A k \in 1..end : m[k] = s[k]
  BY <1>1, <1>2
<1>5. m = << >> => Strip(back) = << >>
  <2> SUFFICES ASSUME m = << >> PROVE Strip(back) = << >>
    OBVIOUS
  <2>1. end = 0
    BY <1>4
  <2>2. s = << >>
    <3> SUFFICES ASSUME s # << >> PROVE FALSE
      OBVIOUS
    <3>1. Len(s) # 0 /\ s[1] \notin White
      BY <1>1 DEF Bare
    <3> QED BY <1>2, <2>1, <3>1
  <2>3. back = << >>
    BY <2>1, <2>2
  <2>4. {k \in DOMAIN << >> : << >>[k] \notin White} = {}
    OBVIOUS
  <2> QED BY <2>3, <2>4 DEF Strip
<1> HIDE DEF m, back
<1>6. /\ Strip(back) \in Seq(Chars) /\ Bare(Strip(back))
      /\ Normalize(raw) = [mnemonic |-> m, args |-> SplitArgs(Strip(back))]
      /\ \A k \in 1..Len(m) : m[k] \notin White
  BY <1>2, <1>3, <1>4, StripType, StripBare DEF m, back
<1> QED BY <1>3, <1>5, <1>6

-----------------------------------------------------------------------------
(* The loop of _split_args, character by character.                        *)

\* Scanning is what its recursive definition says.
LEMMA ScanningStep ==
    ASSUME NEW s, Len(s) \in Nat
    PROVE  /\ Scanning(s)[0] = Split0
           /\ \A k \in 1..Len(s) :
                Scanning(s)[k] = Scan(Scanning(s)[k - 1], s[k])
<1> DEFINE Turn(f, k) == IF k = 0 THEN Split0 ELSE Scan(f[k - 1], s[k])
           T == {n \in Nat : \E f : f = [k \in 0..n |-> Turn(f, k)]}
<1> HIDE DEF T
<1>1. 0 \in T
  <2> DEFINE f == [k \in 0..0 |-> Split0]
  <2>1. f = [k \in 0..0 |-> Turn(f, k)]
    OBVIOUS
  <2> QED BY <2>1 DEF T
<1>2. ASSUME NEW n \in Nat, n \in T PROVE n + 1 \in T
  <2>1. PICK f : f = [k \in 0..n |-> Turn(f, k)]
    BY <1>2 DEF T
  <2> DEFINE g == [k \in 0..(n + 1) |->
                     IF k = n + 1 THEN Scan(f[n], s[n + 1]) ELSE f[k]]
  <2>2. ASSUME NEW k \in 0..(n + 1) PROVE g[k] = Turn(g, k)
    <3>1. CASE k = n + 1
      <4>1. g[n] = f[n] /\ k - 1 = n /\ k # 0
        BY <3>1
      <4>2. g[k] = Scan(f[n], s[n + 1])
        BY <3>1
      <4> QED BY <3>1, <4>1, <4>2
    <3>2. CASE k # n + 1
      <4>1. k \in 0..n /\ g[k] = f[k]
        BY <3>2
      <4>2. f[k] = Turn(f, k)
        BY <2>1, <4>1
      <4>3. CASE k = 0
        BY <4>1, <4>2, <4>3
      <4>4. CASE k # 0
        <5>1. k - 1 \in 0..(n + 1) /\ k - 1 # n + 1
          BY <4>1, <4>4
        <5>2. g[k - 1] = f[k - 1]
          BY <5>1
        <5> QED BY <4>1, <4>2, <4>4, <5>2
      <4> QED BY <4>3, <4>4
    <3> QED BY <3>1, <3>2
  <2>3. g = [k \in 0..(n + 1) |-> Turn(g, k)]
    <3> DEFINE same == [k \in 0..(n + 1) |-> Turn(g, k)]
    <3>1. \A k \in 0..(n + 1) : g[k] = same[k]
      BY <2>2
    <3> QED BY <3>1
  <2> HIDE DEF g
  <2>4. \E h : h = [k \in 0..(n + 1) |-> Turn(h, k)]
    BY <2>3, Zenon
  <2>5. n + 1 \in Nat
    OBVIOUS
  <2> QED BY <2>4, <2>5, Zenon DEF T
<1>3. Len(s) \in T
  BY <1>1, <1>2, Induction
<1>4. \E f : f = [k \in 0..Len(s) |-> Turn(f, k)]
  BY <1>3 DEF T
<1>5. Scanning(s) = [k \in 0..Len(s) |-> Turn(Scanning(s), k)]
  BY <1>4 DEF Scanning
<1> HIDE DEF Turn
<1>6. \A k \in 0..Len(s) : Scanning(s)[k] = Turn(Scanning(s), k)
  BY <1>5
<1> USE DEF Turn
<1>7. Scanning(s)[0] = Split0
  BY <1>6
<1>8. ASSUME NEW k \in 1..Len(s)
      PROVE  Scanning(s)[k] = Scan(Scanning(s)[k - 1], s[k])
  BY <1>6
<1> QED BY <1>7, <1>8

\* What the loop makes of the first characters needs only these.
LEMMA ScanningPrefix ==
    ASSUME NEW s, NEW t, NEW n \in Nat, Len(s) \in Nat, Len(t) \in Nat,
           n <= Len(s), n <= Len(t), \A k \in 1..n : s[k] = t[k]
    PROVE  \A k \in 0..n : Scanning(s)[k] = Scanning(t)[k]
<1> DEFINE T == {k \in Nat : k <= n => Scanning(s)[k] = Scanning(t)[k]}
<1>1. 0 \in T
  BY ScanningStep
<1>2. ASSUME NEW k \in Nat, k \in T PROVE k + 1 \in T
  <2> SUFFICES ASSUME k + 1 <= n
               PROVE  Scanning(s)[k + 1] = Scanning(t)[k + 1]
    OBVIOUS
  <2>1. /\ k + 1 \in 1..n /\ k + 1 \in 1..Len(s) /\ k + 1 \in 1..Len(t)
        /\ (k + 1) - 1 = k /\ k <= n
    OBVIOUS
  <2>2. Scanning(s)[k] = Scanning(t)[k]
    BY <1>2, <2>1
  <2>3. /\ Scanning(s)[k + 1] = Scan(Scanning(s)[k], s[k + 1])
        /\ Scanning(t)[k + 1] = Scan(Scanning(t)[k], t[k + 1])
    BY <2>1, ScanningStep
  <2> QED BY <2>1, <2>2, <2>3
<1> HIDE DEF T
<1>3. \A k \in Nat : k \in T
  BY <1>1, <1>2, Induction
<1> QED BY <1>3 DEF T

-----------------------------------------------------------------------------
(* Every argument is whole: the loop goes through it without an end.       *)

Marks == Quotes \cup {None}

Within(args, current, quote) ==
    [args |-> args, current |-> current, quote |-> quote]

\* What a character that the loop keeps does to the quote it is in.
Turned(quote, ch) ==
    IF quote = ch THEN None
    ELSE IF quote = None /\ ch \in Quotes THEN ch ELSE quote

\* From the start the loop keeps all of a, and then is in this quote.
Whole(a, quote) ==
    /\ a \in Seq(Chars)
    /\ \A k \in 0..Len(a) : \E q \in Marks :
         Scanning(a)[k] = Within(<< >>, SubSeq(a, 1, k), q)
    /\ Scanned(a).quote = quote

\* What one turn of the loop does: it keeps the character,
LEMMA ScanKeeps ==
    ASSUME NEW args, NEW current, NEW quote, NEW ch,
           ~(ch = "blank" /\ quote = None)
    PROVE  Scan(Within(args, current, quote), ch) =
             Within(args, Append(current, ch), Turned(quote, ch))
BY DEF Scan, Within, Turned

\* How an argument is ended.
LEMMA FlushEnds ==
    ASSUME NEW args, NEW current, NEW quote
    PROVE  /\ Flush(Within(args, current, quote)).quote = quote
           /\ Flush(Within(args, current, quote)) =
                IF current = << >> THEN Within(args, current, quote)
                ELSE Within(Append(args, current), << >>, quote)
           /\ Flush(Within(args, current, quote)).current = << >>
<1>1. ASSUME NEW more, NEW nothing
      PROVE  [Within(args, current, quote) EXCEPT !.args = more, !.current = nothing]
               = Within(more, nothing, quote)
  <2> DEFINE old == [args |-> args, current |-> current, quote |-> quote]
             st  == [old EXCEPT !.args = more, !.current = nothing]
             new == [args |-> more, current |-> nothing, quote |-> quote]
  <2>1. DOMAIN st = DOMAIN new
    OBVIOUS
  <2>2. st.args = new.args /\ st.current = new.current /\ st.quote = new.quote
    OBVIOUS
  <2>3. st = new
    BY <2>1, <2>2
  <2>4. Within(args, current, quote) = old /\ Within(more, nothing, quote) = new
    BY DEF Within
  <2> HIDE DEF old, new
  <2> QED BY <2>3, <2>4
<1>2. /\ Within(args, current, quote).args = args
      /\ Within(args, current, quote).current = current
  BY DEF Within
<1>3. Flush(Within(args, current, quote)) =
        IF current = << >> THEN Within(args, current, quote)
        ELSE Within(Append(args, current), << >>, quote)
  BY <1>1, <1>2 DEF Flush
<1>4. ASSUME NEW more, NEW now
      PROVE  /\ Within(more, now, quote).args = more
             /\ Within(more, now, quote).current = now
             /\ Within(more, now, quote).quote = quote
  BY DEF Within
<1> QED BY <1>3, <1>4

LEMMA FlushArgs ==
    ASSUME NEW args, NEW current, NEW quote, current # << >>
    PROVE  Flush(Within(args, current, quote)).args = Append(args, current)
BY DEF Flush, Within

LEMMA FlushSome ==
    ASSUME NEW args, NEW current, NEW quote, current # << >>
    PROVE  Flush(Within(args, current, quote)) =
             Within(Append(args, current), << >>, quote)
BY FlushEnds

LEMMA FlushNothing ==
    ASSUME NEW args, NEW quote
    PROVE  Flush(Within(args, << >>, quote)).args = args
BY DEF Flush, Within

\* or ends an argument, if there is one.
LEMMA ScanEnds ==
    ASSUME NEW args, NEW current, NEW ch, ch = "blank"
    PROVE  Scan(Within(args, current, None), ch) = Flush(Within(args, current, None))
BY DEF Scan, Within

LEMMA TurnedMark ==
    ASSUME NEW quote \in Marks, NEW ch
    PROVE  Turned(quote, ch) \in Marks
BY DEF Turned, Marks

\* The beginnings of a sequence and of a longer one.
LEMMA Beginnings ==
    ASSUME NEW S, NEW a \in Seq(S), NEW ch \in S
    PROVE  /\ SubSeq(a, 1, 0) = << >> /\ SubSeq(a, 1, Len(a)) = a
           /\ Append(a, ch) \in Seq(S) /\ Len(Append(a, ch)) = Len(a) + 1
           /\ Append(a, ch)[Len(a) + 1] = ch
           /\ \A k \in 1..Len(a) : Append(a, ch)[k] = a[k]
           /\ \A k \in 0..Len(a) : SubSeq(Append(a, ch), 1, k) = SubSeq(a, 1, k)
<1>1. ASSUME NEW k \in 0..Len(a)
      PROVE  SubSeq(Append(a, ch), 1, k) = SubSeq(a, 1, k)
  OBVIOUS
<1> QED BY <1>1

\* What is whole: nothing yet,
LEMMA WholeNothing == Whole(<< >>, None)
<1>1. << >> \in Seq(Chars) /\ Len(<< >>) = 0
  OBVIOUS
<1>2. Scanning(<< >>)[0] = Split0
  BY ScanningStep
<1>3. SubSeq(<< >>, 1, 0) = << >>
  OBVIOUS
<1>4. Split0 = Within(<< >>, SubSeq(<< >>, 1, 0), None) /\ None \in Marks
  BY <1>3 DEF Split0, Within, Marks
<1> QED BY <1>1, <1>2, <1>4 DEF Whole, Scanned, Split0

\* The loop at the end of a whole argument.
LEMMA WholeEnd ==
    ASSUME NEW a, NEW quote, Whole(a, quote)
    PROVE  Scanned(a) = Within(<< >>, a, quote) /\ quote \in Marks
<1>1. a \in Seq(Chars) /\ Len(a) \in 0..Len(a) /\ SubSeq(a, 1, Len(a)) = a
  BY DEF Whole
<1>2. PICK q \in Marks : Scanning(a)[Len(a)] = Within(<< >>, SubSeq(a, 1, Len(a)), q)
  BY <1>1 DEF Whole
<1> QED BY <1>1, <1>2 DEF Whole, Scanned, Within

\* and a whole argument with another character that the loop keeps.
LEMMA WholeLonger ==
    ASSUME NEW a, NEW quote, Whole(a, quote), NEW ch \in Chars,
           ~(ch = "blank" /\ quote = None)
    PROVE  Whole(Append(a, ch), Turned(quote, ch))
<1> DEFINE b == Append(a, ch)
<1> HIDE DEF b
<1>1. a \in Seq(Chars)
  BY DEF Whole
<1>2. /\ b \in Seq(Chars) /\ Len(b) = Len(a) + 1 /\ b[Len(a) + 1] = ch
      /\ \A k \in 1..Len(a) : b[k] = a[k]
      /\ \A k \in 0..Len(a) : SubSeq(b, 1, k) = SubSeq(a, 1, k)
      /\ SubSeq(b, 1, Len(b)) = b
  BY <1>1, Beginnings DEF b
<1>3. PICK n \in Nat : n = Len(a) /\ n + 1 = Len(b)
  BY <1>1, <1>2
<1>4. \A k \in 0..n : Scanning(b)[k] = Scanning(a)[k]
  BY <1>2, <1>3, ScanningPrefix
<1>5. Scanning(a)[n] = Within(<< >>, a, quote) /\ quote \in Marks
  BY <1>3, WholeEnd DEF Scanned
<1>6. Scanning(b)[n + 1] = Within(<< >>, b, Turned(quote, ch))
  <2>1. Scanning(b)[n + 1] = Scan(Scanning(b)[n], ch)
    <3>1. n + 1 \in 1..Len(b) /\ (n + 1) - 1 = n /\ b[n + 1] = ch
      BY <1>2, <1>3
    <3> QED BY <3>1, <1>3, ScanningStep
  <2>2. Scanning(b)[n] = Within(<< >>, a, quote)
    BY <1>4, <1>5
  <2> QED BY <2>1, <2>2, ScanKeeps DEF b
<1>7. ASSUME NEW k \in 0..Len(b)
      PROVE  \E q \in Marks : Scanning(b)[k] = Within(<< >>, SubSeq(b, 1, k), q)
  <2>1. CASE k = n + 1
    BY <1>2, <1>3, <1>5, <1>6, <2>1, TurnedMark
  <2>2. CASE k # n + 1
    <3>1. k \in 0..n
      BY <1>3, <2>2
    <3> QED BY <1>2, <1>3, <1>4, <3>1 DEF Whole
  <2> QED BY <2>1, <2>2
<1>8. Scanned(b).quote = Turned(quote, ch)
  BY <1>3, <1>6 DEF Scanned, Within
<1>9. Whole(b, Turned(quote, ch))
  BY <1>2, <1>7, <1>8 DEF Whole
<1> QED BY <1>9 DEF b

\* What the loop has split off is whole and closed; what it is at is whole.
Sound(st) ==
    \E args \in Seq(Seq(Chars) \ {<< >>}), current \in Seq(Chars), quote \in Marks :
        /\ st = Within(args, current, quote)
        /\ \A i \in DOMAIN args : Whole(args[i], None)
        /\ Whole(current, quote)

\* The argument that ends joins the others,
LEMMA AppendSound ==
    ASSUME NEW args \in Seq(Seq(Chars) \ {<< >>}), NEW a \in Seq(Chars) \ {<< >>},
           \A i \in DOMAIN args : Whole(args[i], None), Whole(a, None)
    PROVE  /\ Append(args, a) \in Seq(Seq(Chars) \ {<< >>})
           /\ \A i \in DOMAIN Append(args, a) : Whole(Append(args, a)[i], None)
<1>1. /\ Append(args, a) \in Seq(Seq(Chars) \ {<< >>})
      /\ DOMAIN Append(args, a) = 1..(Len(args) + 1)
      /\ Len(args) \in Nat
  OBVIOUS
<1>2. ASSUME NEW i \in 1..(Len(args) + 1) PROVE Whole(Append(args, a)[i], None)
  <2>1. CASE i = Len(args) + 1
    <3>1. Append(args, a)[i] = a
      BY <2>1
    <3> QED BY <3>1
  <2>2. CASE i # Len(args) + 1
    <3>1. i \in DOMAIN args /\ Append(args, a)[i] = args[i]
      BY <2>2
    <3> QED BY <3>1
  <2> QED BY <2>1, <2>2
<1> QED BY <1>1, <1>2

\* so that every turn of the loop,
LEMMA ScanSound ==
    ASSUME NEW st, Sound(st), NEW ch \in Chars
    PROVE  Sound(Scan(st, ch))
<1>1. PICK args \in Seq(Seq(Chars) \ {<< >>}), current \in Seq(Chars), quote \in Marks :
         /\ st = Within(args, current, quote)
         /\ \A i \in DOMAIN args : Whole(args[i], None)
         /\ Whole(current, quote)
  BY DEF Sound
<1>2. CASE ~(ch = "blank" /\ quote = None)
  <2>1. Scan(st, ch) = Within(args, Append(current, ch), Turned(quote, ch))
    BY <1>1, <1>2, ScanKeeps
  <2>2. Whole(Append(current, ch), Turned(quote, ch))
    BY <1>1, <1>2, WholeLonger
  <2>3. Append(current, ch) \in Seq(Chars) /\ Turned(quote, ch) \in Marks
    BY TurnedMark
  <2> QED BY <1>1, <2>1, <2>2, <2>3 DEF Sound
<1>3. CASE ch = "blank" /\ quote = None /\ current = << >>
  <2>1. Scan(st, ch) = st
    BY <1>1, <1>3, ScanEnds, FlushEnds
  <2> QED BY <2>1
<1>4. CASE ch = "blank" /\ quote = None /\ current # << >>
  <2>1. Scan(st, ch) = Within(Append(args, current), << >>, None)
    BY <1>1, <1>4, ScanEnds, FlushEnds
  <2>2. /\ Append(args, current) \in Seq(Seq(Chars) \ {<< >>})
        /\ \A i \in DOMAIN Append(args, current) :
             Whole(Append(args, current)[i], None)
    BY <1>1, <1>4, AppendSound
  <2>3. << >> \in Seq(Chars) /\ None \in Marks
    BY DEF Marks
  <2> QED BY <2>1, <2>2, <2>3, WholeNothing DEF Sound
<1> QED BY <1>2, <1>3, <1>4

\* and all of it, keeps what it has found sound.
LEMMA ScanningSound ==
    ASSUME NEW s \in Seq(Chars)
    PROVE  \A k \in 0..Len(s) : Sound(Scanning(s)[k])
<1> DEFINE T == {k \in Nat : k <= Len(s) => Sound(Scanning(s)[k])}
<1>1. 0 \in T
  <2>1. Scanning(s)[0] = Within(<< >>, << >>, None)
    BY ScanningStep DEF Split0, Within
  <2>2. /\ << >> \in Seq(Seq(Chars) \ {<< >>}) /\ DOMAIN << >> = {}
        /\ << >> \in Seq(Chars) /\ None \in Marks
    BY DEF Marks
  <2>3. Sound(Scanning(s)[0])
    BY <2>1, <2>2, WholeNothing DEF Sound
  <2> QED BY <2>3
<1>2. ASSUME NEW k \in Nat, k \in T PROVE k + 1 \in T
  <2> SUFFICES ASSUME k + 1 <= Len(s) PROVE Sound(Scanning(s)[k + 1])
    OBVIOUS
  <2>1. k + 1 \in 1..Len(s) /\ (k + 1) - 1 = k /\ k <= Len(s) /\ s[k + 1] \in Chars
    OBVIOUS
  <2>2. Sound(Scanning(s)[k])
    BY <1>2, <2>1
  <2>3. Scanning(s)[k + 1] = Scan(Scanning(s)[k], s[k + 1])
    BY <2>1, ScanningStep
  <2> QED BY <2>1, <2>2, <2>3, ScanSound
<1> HIDE DEF T
<1>3. \A k \in Nat : k \in T
  BY <1>1, <1>2, Induction
<1> QED BY <1>3 DEF T

\* What the scan of a text returns: arguments that are whole, and closed but
\* for the last one.
Arguments(args) ==
    /\ args \in Seq(Seq(Chars) \ {<< >>})
    /\ \A i \in 1..Len(args) : \E q \in Marks :
         Whole(args[i], q) /\ (i < Len(args) => q = None)

LEMMA SplitArgsWhole ==
    ASSUME NEW s \in Seq(Chars)
    PROVE  Arguments(SplitArgs(s))
<1>1. Len(s) \in 0..Len(s)
  OBVIOUS
<1>2. Sound(Scanned(s))
  BY <1>1, ScanningSound DEF Scanned
<1>3. PICK args \in Seq(Seq(Chars) \ {<< >>}), current \in Seq(Chars), quote \in Marks :
         /\ Scanned(s) = Within(args, current, quote)
         /\ \A i \in DOMAIN args : Whole(args[i], None)
         /\ Whole(current, quote)
  BY <1>2 DEF Sound
<1>4. None \in Marks /\ DOMAIN args = 1..Len(args) /\ Len(args) \in Nat
  BY DEF Marks
<1>5. CASE current = << >>
  <2>1. SplitArgs(s) = args
    <3>1. Flush(Scanned(s)).args = args
      <4>1. Flush(Within(args, << >>, quote)).args = args
        BY FlushNothing
      <4> QED BY <1>3, <1>5, <4>1
    <3> QED BY <3>1 DEF SplitArgs
  <2>2. Arguments(args)
    BY <1>3, <1>4 DEF Arguments
  <2> QED BY <2>1, <2>2
<1>6. CASE current # << >>
  <2> DEFINE all == Append(args, current)
  <2> HIDE DEF all
  <2>1. SplitArgs(s) = all
    <3>1. Flush(Scanned(s)).args = Append(args, current)
      <4>1. Flush(Within(args, current, quote)).args = Append(args, current)
        BY <1>6, FlushArgs
      <4> QED BY <1>3, <4>1
    <3> QED BY <3>1 DEF SplitArgs, all
  <2>2. PICK n \in Nat :
           /\ n = Len(args) /\ Len(all) = n + 1 /\ all[n + 1] = current
           /\ \A i \in 1..n : all[i] = args[i]
           /\ all \in Seq(Seq(Chars) \ {<< >>})
    <3>1. current \in Seq(Chars) \ {<< >>}
      BY <1>6
    <3>2. /\ all \in Seq(Seq(Chars) \ {<< >>}) /\ Len(all) = Len(args) + 1
          /\ all[Len(args) + 1] = current
          /\ \A i \in 1..Len(args) : all[i] = args[i]
      BY <3>1, Beginnings DEF all
    <3> QED BY <3>2, <1>4
  <2>3. ASSUME NEW i \in 1..(n + 1)
        PROVE  \E q \in Marks : Whole(all[i], q) /\ (i < n + 1 => q = None)
    <3>1. CASE i = n + 1
      BY <1>3, <2>2, <3>1
    <3>2. CASE i # n + 1
      <4>1. i \in 1..n
        BY <3>2
      <4>2. Whole(all[i], None)
        BY <1>3, <1>4, <2>2, <4>1
      <4> QED BY <1>4, <4>2
    <3> QED BY <3>1, <3>2
  <2>4. Arguments(all)
    BY <2>2, <2>3 DEF Arguments
  <2> QED BY <2>1, <2>4
<1> QED BY <1>5, <1>6

-----------------------------------------------------------------------------
(* What a client sends is split into what it composed.                     *)

\* Spacing is what its recursive definition says.
LEMMA SpacingStep ==
    ASSUME NEW gaps, NEW words, Len(words) \in Nat
    PROVE  /\ Spacing(gaps, words)[0] = << >>
           /\ \A k \in 1..Len(words) :
                Spacing(gaps, words)[k] =
                  Spacing(gaps, words)[k - 1] \o gaps[k] \o words[k]
<1> DEFINE Turn(f, k) ==
             IF k = 0 THEN << >> ELSE f[k - 1] \o gaps[k] \o words[k]
           T == {n \in Nat : \E f : f = [k \in 0..n |-> Turn(f, k)]}
<1> HIDE DEF T
<1>1. 0 \in T
  <2> DEFINE f == [k \in 0..0 |-> << >>]
  <2>1. f = [k \in 0..0 |-> Turn(f, k)]
    OBVIOUS
  <2> QED BY <2>1 DEF T
<1>2. ASSUME NEW n \in Nat, n \in T PROVE n + 1 \in T
  <2>1. PICK f : f = [k \in 0..n |-> Turn(f, k)]
    BY <1>2 DEF T
  <2> DEFINE g == [k \in 0..(n + 1) |->
                     IF k = n + 1 THEN f[n] \o gaps[n + 1] \o words[n + 1] ELSE f[k]]
  <2>2. ASSUME NEW k \in 0..(n + 1) PROVE g[k] = Turn(g, k)
    <3>1. CASE k = n + 1
      <4>1. g[n] = f[n] /\ k - 1 = n /\ k # 0
        BY <3>1
      <4>2. g[k] = f[n] \o gaps[n + 1] \o words[n + 1]
        BY <3>1
      <4> QED BY <3>1, <4>1, <4>2
    <3>2. CASE k # n + 1
      <4>1. k \in 0..n /\ g[k] = f[k]
        BY <3>2
      <4>2. f[k] = Turn(f, k)
        BY <2>1, <4>1
      <4>3. CASE k = 0
        BY <4>1, <4>2, <4>3
      <4>4. CASE k # 0
        <5>1. k - 1 \in 0..(n + 1) /\ k - 1 # n + 1
          BY <4>1, <4>4
        <5>2. g[k - 1] = f[k - 1]
          BY <5>1
        <5> QED BY <4>1, <4>2, <4>4, <5>2
      <4> QED BY <4>3, <4>4
    <3> QED BY <3>1, <3>2
  <2>3. g = [k \in 0..(n + 1) |-> Turn(g, k)]
    <3> DEFINE same == [k \in 0..(n + 1) |-> Turn(g, k)]
    <3>1. \A k \in 0..(n + 1) : g[k] = same[k]
      BY <2>2
    <3> QED BY <3>1
  <2> HIDE DEF g
  <2>4. \E h : h = [k \in 0..(n + 1) |-> Turn(h, k)]
    BY <2>3, Zenon
  <2>5. n + 1 \in Nat
    OBVIOUS
  <2> QED BY <2>4, <2>5, Zenon DEF T
<1>3. Len(words) \in T
  BY <1>1, <1>2, Induction
<1>4. \E f : f = [k \in 0..Len(words) |-> Turn(f, k)]
  BY <1>3 DEF T
<1>5. Spacing(gaps, words) = [k \in 0..Len(words) |-> Turn(Spacing(gaps, words), k)]
  BY <1>4 DEF Spacing
<1> HIDE DEF Turn
<1>6. \A k \in 0..Len(words) : Spacing(gaps, words)[k] = Turn(Spacing(gaps, words), k)
  BY <1>5
<1> USE DEF Turn
<1>7. Spacing(gaps, words)[0] = << >>
  BY <1>6
<1>8. ASSUME NEW k \in 1..Len(words)
      PROVE  Spacing(gaps, words)[k] = Spacing(gaps, words)[k - 1] \o gaps[k] \o words[k]
  <2>1. k \in 0..Len(words) /\ k # 0
    OBVIOUS
  <2>2. Spacing(gaps, words)[k] = Turn(Spacing(gaps, words), k)
    BY <1>6, <2>1
  <2> QED BY <2>1, <2>2, Zenon
<1> QED BY <1>7, <1>8

\* The loop goes through a text as through its parts.
LEMMA ScanJoined ==
    ASSUME NEW s \in Seq(Chars), NEW t \in Seq(Chars)
    PROVE  \E n, m \in Nat :
             /\ n = Len(s) /\ m = Len(t)
             /\ s \o t \in Seq(Chars) /\ Len(s \o t) = n + m
             /\ Scanning(s \o t)[n] = Scanned(s)
             /\ Scanned(s \o t) = Scanning(s \o t)[n + m]
             /\ \A k \in Nat : k + 1 <= m =>
                  Scanning(s \o t)[n + (k + 1)] =
                    Scan(Scanning(s \o t)[n + k], t[k + 1])
<1> DEFINE u == s \o t
<1> HIDE DEF u
<1>1. PICK n \in Nat, m \in Nat : n = Len(s) /\ m = Len(t)
  OBVIOUS
<1>2. /\ u \in Seq(Chars) /\ Len(u) = n + m
      /\ \A k \in 1..n : u[k] = s[k]
      /\ \A k \in 1..m : u[n + k] = t[k]
  BY <1>1, Joined DEF u
<1>3. Scanning(u)[n] = Scanned(s)
  <2>1. n <= Len(u) /\ n <= Len(s) /\ n \in 0..n /\ Len(u) \in Nat /\ Len(s) \in Nat
    BY <1>1, <1>2
  <2>2. \A k \in 0..n : Scanning(u)[k] = Scanning(s)[k]
    <3>1. \A k \in 1..n : u[k] = s[k]
      BY <1>2
    <3> QED BY <2>1, <3>1, ScanningPrefix
  <2> QED BY <1>1, <2>1, <2>2 DEF Scanned
<1>4. ASSUME NEW k \in Nat, k + 1 <= m
      PROVE  Scanning(u)[n + (k + 1)] = Scan(Scanning(u)[n + k], t[k + 1])
  <2>1. /\ k + 1 \in 1..m /\ n + (k + 1) \in 1..Len(u)
        /\ n + (k + 1) - 1 = n + k /\ Len(u) \in Nat
    BY <1>2, <1>4
  <2>2. \A i \in 1..Len(u) : Scanning(u)[i] = Scan(Scanning(u)[i - 1], u[i])
    BY <2>1, ScanningStep
  <2>3. u[n + (k + 1)] = t[k + 1]
    BY <1>2, <2>1
  <2> QED BY <2>1, <2>2, <2>3
<1>5. Scanned(u) = Scanning(u)[n + m]
  BY <1>2 DEF Scanned
<1> WITNESS n \in Nat, m \in Nat
<1> QED BY <1>1, <1>2, <1>3, <1>4, <1>5 DEF u

\* Blanks end the argument before them.
LEMMA ScanGap ==
    ASSUME NEW t \in Seq(Chars), NEW gap \in Seq({"blank"}), gap # << >>, NEW args,
           Scanned(t).quote = None,
           Flush(Scanned(t)) = Within(args, << >>, None)
    PROVE  t \o gap \in Seq(Chars) /\ Scanned(t \o gap) = Within(args, << >>, None)
<1>1. gap \in Seq(Chars) /\ \A k \in 1..Len(gap) : gap[k] = "blank"
  <2>1. {"blank"} \subseteq Chars
    BY DEF Chars, White
  <2> QED BY <2>1
<1> DEFINE u == t \o gap
<1> HIDE DEF u
<1>2. PICK n \in Nat, m \in Nat :
         /\ m = Len(gap) /\ u \in Seq(Chars)
         /\ Scanning(u)[n] = Scanned(t)
         /\ Scanned(u) = Scanning(u)[n + m]
         /\ \A k \in Nat : k + 1 <= m =>
              Scanning(u)[n + (k + 1)] = Scan(Scanning(u)[n + k], gap[k + 1])
  BY <1>1, ScanJoined DEF u
<1> DEFINE Ended(k) == Scanning(u)[n + k] = Within(args, << >>, None)
           T == {k \in Nat : k + 1 <= m => Ended(k + 1)}
<1> HIDE DEF Ended
<1>3. 0 \in T
  <2> SUFFICES ASSUME 0 + 1 <= m PROVE Ended(0 + 1)
    OBVIOUS
  <2>1. 0 + 1 \in 1..Len(gap) /\ n + 0 = n /\ 0 \in Nat
    BY <1>2
  <2>2. Scanning(u)[n + (0 + 1)] = Scan(Scanned(t), "blank")
    BY <1>1, <1>2, <2>1
  <2>3. Scan(Scanned(t), "blank") = Flush(Scanned(t))
    BY DEF Scan
  <2> QED BY <2>2, <2>3 DEF Ended
<1>4. ASSUME NEW k \in Nat, k \in T PROVE k + 1 \in T
  <2> SUFFICES ASSUME (k + 1) + 1 <= m PROVE Ended((k + 1) + 1)
    OBVIOUS
  <2>1. (k + 1) + 1 \in 1..Len(gap) /\ k + 1 <= m /\ k + 1 \in Nat
    BY <1>2
  <2>2. Scanning(u)[n + (k + 1)] = Within(args, << >>, None)
    BY <1>4, <2>1 DEF Ended
  <2>3. Scanning(u)[n + ((k + 1) + 1)] = Scan(Within(args, << >>, None), "blank")
    BY <1>1, <1>2, <2>1, <2>2
  <2>4. Scan(Within(args, << >>, None), "blank") = Within(args, << >>, None)
    BY ScanEnds, FlushEnds
  <2> QED BY <2>3, <2>4 DEF Ended
<1> HIDE DEF T
<1>5. m \in Nat /\ m # 0
  BY <1>1, <1>2
<1>6. m - 1 \in T /\ (m - 1) + 1 = m
  <2>1. m - 1 \in Nat /\ (m - 1) + 1 = m
    BY <1>5
  <2> QED BY <1>3, <1>4, <2>1, Induction
<1>7. Ended(m)
  BY <1>5, <1>6 DEF T
<1> QED BY <1>2, <1>7 DEF Ended, u

\* Behind them a whole argument is scanned as from the start.
LEMMA ScanAnother ==
    ASSUME NEW t \in Seq(Chars), NEW args, Scanned(t) = Within(args, << >>, None),
           NEW a, NEW quote, Whole(a, quote)
    PROVE  t \o a \in Seq(Chars) /\ Scanned(t \o a) = Within(args, a, quote)
<1> DEFINE u == t \o a
<1> HIDE DEF u
<1>1. a \in Seq(Chars)
  BY DEF Whole
<1>2. PICK n \in Nat, m \in Nat :
         /\ m = Len(a) /\ u \in Seq(Chars)
         /\ Scanning(u)[n] = Scanned(t)
         /\ Scanned(u) = Scanning(u)[n + m]
         /\ \A k \in Nat : k + 1 <= m =>
              Scanning(u)[n + (k + 1)] = Scan(Scanning(u)[n + k], a[k + 1])
  <2>1. \E n, m \in Nat :
           /\ n = Len(t) /\ m = Len(a)
           /\ u \in Seq(Chars) /\ Len(u) = n + m
           /\ Scanning(u)[n] = Scanned(t)
           /\ Scanned(u) = Scanning(u)[n + m]
           /\ \A k \in Nat : k + 1 <= m =>
                Scanning(u)[n + (k + 1)] = Scan(Scanning(u)[n + k], a[k + 1])
    BY <1>1, ScanJoined, Zenon DEF u
  <2> QED BY <2>1
<1> DEFINE Same(k) ==
             Scanning(u)[n + k] =
               Within(args, SubSeq(a, 1, k), Scanning(a)[k].quote)
           T == {k \in Nat : k <= m => Same(k)}
<1>3. 0 \in T
  <2>1. Scanning(a)[0].quote = None /\ SubSeq(a, 1, 0) = << >>
    BY <1>1, ScanningStep DEF Split0
  <2>2. n + 0 = n /\ 0 \in Nat
    OBVIOUS
  <2>3. Same(0)
    BY <1>2, <2>1, <2>2
  <2> HIDE DEF Same
  <2> QED BY <2>2, <2>3
<1>4. ASSUME NEW k \in Nat, k \in T PROVE k + 1 \in T
  <2> SUFFICES ASSUME k + 1 <= m PROVE Same(k + 1)
    OBVIOUS
  <2>1. /\ k <= m /\ k + 1 \in 0..Len(a) /\ k \in 0..Len(a)
        /\ k + 1 \in 1..Len(a) /\ (k + 1) - 1 = k /\ Len(a) \in Nat
    BY <1>2
  <2>2. PICK q \in Marks : Scanning(a)[k] = Within(<< >>, SubSeq(a, 1, k), q)
    BY <2>1 DEF Whole
  <2>3. PICK r \in Marks :
           Scanning(a)[k + 1] = Within(<< >>, SubSeq(a, 1, k + 1), r)
    BY <2>1 DEF Whole
  <2>4. Scanning(u)[n + k] = Within(args, SubSeq(a, 1, k), q)
    BY <1>4, <2>1, <2>2 DEF Within
  <2>5. /\ Scanning(a)[k + 1] = Scan(Scanning(a)[k], a[k + 1])
        /\ Scanning(u)[n + (k + 1)] = Scan(Scanning(u)[n + k], a[k + 1])
    <3>1. \A i \in 1..Len(a) : Scanning(a)[i] = Scan(Scanning(a)[i - 1], a[i])
      BY <2>1, ScanningStep
    <3> QED BY <1>2, <2>1, <3>1
  <2>6. SubSeq(a, 1, k + 1) # << >> /\ SubSeq(a, 1, k + 1) # SubSeq(a, 1, k)
    <3>1. Len(SubSeq(a, 1, k + 1)) = k + 1 /\ Len(SubSeq(a, 1, k)) = k
      BY <1>1, <2>1
    <3>2. Len(<< >>) = 0 /\ k + 1 # 0 /\ k + 1 # k
      OBVIOUS
    <3> QED BY <3>1, <3>2
  <2>7. ~(a[k + 1] = "blank" /\ q = None)
    <3> SUFFICES ASSUME a[k + 1] = "blank", q = None PROVE FALSE
      OBVIOUS
    <3>1. Scanning(a)[k + 1] = Flush(Within(<< >>, SubSeq(a, 1, k), None))
      BY <2>2, <2>5, ScanEnds
    <3>2. Scanning(a)[k + 1].current \in {<< >>, SubSeq(a, 1, k)}
      BY <3>1, FlushEnds
    <3>3. Scanning(a)[k + 1].current = SubSeq(a, 1, k + 1)
      BY <2>3 DEF Within
    <3> QED BY <2>6, <3>2, <3>3
  <2>8. /\ Scanning(a)[k + 1] =
             Within(<< >>, Append(SubSeq(a, 1, k), a[k + 1]), Turned(q, a[k + 1]))
        /\ Scanning(u)[n + (k + 1)] =
             Within(args, Append(SubSeq(a, 1, k), a[k + 1]), Turned(q, a[k + 1]))
    BY <2>2, <2>4, <2>5, <2>7, ScanKeeps
  <2>9. /\ Append(SubSeq(a, 1, k), a[k + 1]) = SubSeq(a, 1, k + 1)
        /\ Scanning(a)[k + 1].quote = Turned(q, a[k + 1])
    BY <2>3, <2>8 DEF Within
  <2> QED BY <2>8, <2>9
<1> HIDE DEF T
<1>5. m \in T
  BY <1>3, <1>4, Induction
<1>6. Same(m)
  BY <1>5 DEF T
<1>7. Scanning(a)[m].quote = quote /\ SubSeq(a, 1, m) = a
  BY <1>1, <1>2 DEF Scanned, Whole
<1> QED BY <1>2, <1>6, <1>7 DEF u

\* Two texts put together, and three.
LEMMA Texts2 ==
    ASSUME NEW s \in Seq(Chars), NEW t \in Seq(Chars)
    PROVE  /\ s \o t \in Seq(Chars) /\ Len(s \o t) = Len(s) + Len(t)
           /\ \A k \in 1..Len(s) : (s \o t)[k] = s[k]
           /\ \A k \in 1..Len(t) : (s \o t)[Len(s) + k] = t[k]
<1> PICK n \in Nat, m \in Nat : n = Len(s) /\ m = Len(t)
  OBVIOUS
<1> QED BY Joined

LEMMA Texts3 ==
    ASSUME NEW x \in Seq(Chars), NEW y \in Seq(Chars), NEW z \in Seq(Chars)
    PROVE  (x \o y) \o z = x \o (y \o z)
OBVIOUS

\* The parts of two sequences put together.
LEMMA Halves ==
    ASSUME NEW S, NEW s \in Seq(S), NEW t \in Seq(S)
    PROVE  /\ SubSeq(s \o t, 1, Len(s)) = s
           /\ SubSeq(s \o t, Len(s) + 1, Len(s \o t)) = t
<1>1. PICK n \in Nat, m \in Nat : n = Len(s) /\ m = Len(t)
  OBVIOUS
<1> DEFINE u == s \o t
<1> HIDE DEF u
<1>2. /\ u \in Seq(S) /\ Len(u) = n + m
      /\ \A k \in 1..n : u[k] = s[k]
      /\ \A k \in 1..m : u[n + k] = t[k]
  BY <1>1, Joined DEF u
<1>3. SubSeq(u, 1, n) = s
  <2>1. SubSeq(u, 1, n) \in Seq(S) /\ Len(SubSeq(u, 1, n)) = n
    BY <1>2
  <2>2. \A k \in 1..n : SubSeq(u, 1, n)[k] = s[k]
    BY <1>2
  <2> QED BY <1>1, <2>1, <2>2
<1>4. SubSeq(u, n + 1, n + m) = t
  <2> DEFINE v == SubSeq(u, n + 1, n + m)
  <2>1. v \in Seq(S) /\ Len(v) = m
    BY <1>2
  <2>2. ASSUME NEW k \in 1..m PROVE v[k] = t[k]
    <3>1. (n + 1) + k - 1 = n + k /\ n + k \in 1..Len(u)
      BY <1>2
    <3>2. v[k] = u[(n + 1) + k - 1]
      BY <1>2
    <3> QED BY <1>2, <3>1, <3>2
  <2> HIDE DEF v
  <2>3. v = t
    BY <1>1, <2>1, <2>2
  <2> QED BY <2>3 DEF v
<1> QED BY <1>1, <1>2, <1>3, <1>4 DEF u

LEMMA StripNothing == Strip(<< >>) = << >>
<1>1. {k \in DOMAIN << >> : << >>[k] \notin White} = {}
  OBVIOUS
<1> QED BY <1>1 DEF Strip

LEMMA SplitNothing == SplitArgs(<< >>) = << >>
<1>1. Scanned(<< >>) = Within(<< >>, << >>, None)
  BY WholeNothing, WholeEnd
<1> QED BY <1>1, FlushNothing DEF SplitArgs

\* A mnemonic that stands alone.
LEMMA NormalizeAlone ==
    ASSUME NEW m \in Seq(Chars), \A k \in 1..Len(m) : m[k] \notin White
    PROVE  Normalize(m) = [mnemonic |-> m, args |-> << >>]
<1>1. Len(m) \in Nat
  OBVIOUS
<1>2. Strip(m) = m
  <2>1. CASE m = << >>
    BY <2>1, StripNothing
  <2>2. CASE m # << >>
    <3>1. 0 < Len(m) /\ 0 \in Nat /\ m[0 + 1] \notin White /\ m[Len(m)] \notin White
      BY <1>1, <2>2
    <3>2. \A k \in 1..0 : m[k] \in White
      OBVIOUS
    <3>3. Strip(m) = SubSeq(m, 0 + 1, Len(m))
      BY <3>1, <3>2, StripFrom
    <3> QED BY <3>3
  <2> QED BY <2>1, <2>2
<1>3. PICK end \in 0..Len(m) :
         /\ end # Len(m) => m[end + 1] \in White
         /\ Normalize(m) = [mnemonic |-> SubSeq(m, 1, end),
                            args |-> SplitArgs(Strip(SubSeq(m, end + 1, Len(m))))]
  BY <1>2, NormalizeParts
<1>4. end = Len(m)
  BY <1>1, <1>3
<1>5. SubSeq(m, 1, end) = m /\ SubSeq(m, end + 1, Len(m)) = << >>
  BY <1>4
<1> QED BY <1>3, <1>5, StripNothing, SplitNothing

\* A mnemonic, a gap and a text that has no white space around it.
LEMMA NormalizeSent ==
    ASSUME NEW m \in Seq(Chars), m # << >>, \A k \in 1..Len(m) : m[k] \notin White,
           NEW g \in Seq(Chars), g # << >>, \A k \in 1..Len(g) : g[k] \in White,
           NEW r \in Seq(Chars), r # << >>, Bare(r)
    PROVE  Normalize(m \o (g \o r)) = [mnemonic |-> m, args |-> SplitArgs(r)]
<1>1. PICK n \in Nat, h \in Nat, l \in Nat :
         n = Len(m) /\ h = Len(g) /\ l = Len(r) /\ n > 0 /\ h > 0 /\ l > 0
  OBVIOUS
<1> DEFINE v == g \o r
           u == m \o v
<1> HIDE DEF u, v
<1>2. /\ v \in Seq(Chars) /\ Len(v) = h + l
      /\ \A k \in 1..h : v[k] = g[k]
      /\ \A k \in 1..l : v[h + k] = r[k]
      /\ SubSeq(v, h + 1, h + l) = r
  <2>1. /\ g \o r \in Seq(Chars) /\ Len(g \o r) = h + l
        /\ \A k \in 1..h : (g \o r)[k] = g[k]
        /\ \A k \in 1..l : (g \o r)[h + k] = r[k]
    BY <1>1, Joined
  <2>2. SubSeq(g \o r, Len(g) + 1, Len(g \o r)) = r
    BY Halves
  <2> QED BY <1>1, <2>1, <2>2 DEF v
<1>3. /\ u \in Seq(Chars) /\ Len(u) = n + (h + l)
      /\ \A k \in 1..n : u[k] = m[k]
      /\ \A k \in 1..(h + l) : u[n + k] = v[k]
      /\ SubSeq(u, 1, n) = m /\ SubSeq(u, n + 1, n + (h + l)) = v
  <2>1. h + l \in Nat
    BY <1>1
  <2>2. /\ m \o v \in Seq(Chars) /\ Len(m \o v) = n + (h + l)
        /\ \A k \in 1..n : (m \o v)[k] = m[k]
        /\ \A k \in 1..(h + l) : (m \o v)[n + k] = v[k]
    <3>1. PICK p \in Nat : p = h + l
      BY <2>1
    <3>2. /\ m \o v \in Seq(Chars) /\ Len(m \o v) = n + p
          /\ \A k \in 1..n : (m \o v)[k] = m[k]
          /\ \A k \in 1..p : (m \o v)[n + k] = v[k]
      <4>1. v \in Seq(Chars) /\ Len(v) = p /\ Len(m) = n
        BY <1>1, <1>2, <3>1
      <4>2. /\ m \o v \in Seq(Chars) /\ Len(m \o v) = Len(m) + Len(v)
            /\ \A k \in 1..Len(m) : (m \o v)[k] = m[k]
            /\ \A k \in 1..Len(v) : (m \o v)[Len(m) + k] = v[k]
        BY <4>1, Texts2
      <4> QED BY <4>1, <4>2
    <3> QED BY <3>1, <3>2
  <2>3. /\ SubSeq(m \o v, 1, Len(m)) = m
        /\ SubSeq(m \o v, Len(m) + 1, Len(m \o v)) = v
    BY <1>2, Halves
  <2> QED BY <1>1, <2>2, <2>3 DEF u
<1>4. Strip(v) = r
  <2>1. h < Len(v)
    BY <1>1, <1>2
  <2>2. \A k \in 1..h : v[k] \in White
    BY <1>1, <1>2
  <2>3. v[h + 1] \notin White /\ v[Len(v)] \notin White
    <3>1. 1 \in 1..l /\ l \in 1..l /\ v[h + 1] = r[1] /\ v[h + l] = r[l]
      BY <1>1, <1>2
    <3> QED BY <1>1, <1>2, <3>1 DEF Bare
  <2>4. Strip(v) = SubSeq(v, h + 1, Len(v))
    BY <1>2, <2>1, <2>2, <2>3, StripFrom
  <2> QED BY <1>2, <2>4
<1>5. Strip(u) = u
  <2>1. 0 < Len(u) /\ 0 \in Nat /\ SubSeq(u, 0 + 1, Len(u)) = u
    BY <1>1, <1>3
  <2>2. \A k \in 1..0 : u[k] \in White
    OBVIOUS
  <2>3. u[0 + 1] \notin White
    <3>1. 1 \in 1..n /\ 0 + 1 = 1 /\ m[1] \notin White
      BY <1>1
    <3> QED BY <1>3, <3>1
  <2>4. u[Len(u)] \notin White
    <3>1. h + l \in 1..(h + l) /\ l \in 1..l /\ u[Len(u)] = r[l]
      BY <1>1, <1>2, <1>3
    <3> QED BY <1>1, <3>1 DEF Bare
  <2> QED BY <1>3, <2>1, <2>2, <2>3, <2>4, StripFrom
<1>6. PICK end \in 0..Len(u) :
         /\ \A k \in 1..end : u[k] \notin White
         /\ end # Len(u) => u[end + 1] \in White
         /\ Normalize(u) = [mnemonic |-> SubSeq(u, 1, end),
                            args |-> SplitArgs(Strip(SubSeq(u, end + 1, Len(u))))]
  <2>1. PICK end \in 0..Len(Strip(u)) :
           /\ \A k \in 1..end : Strip(u)[k] \notin White
           /\ end # Len(Strip(u)) => Strip(u)[end + 1] \in White
           /\ Normalize(u) =
                [mnemonic |-> SubSeq(Strip(u), 1, end),
                 args     |-> SplitArgs(Strip(SubSeq(Strip(u), end + 1,
                                                     Len(Strip(u)))))]
    BY <1>3, NormalizeParts
  <2> QED BY <1>5, <2>1
<1>7. end = n
  <2>1. u[n + 1] \in White /\ end \in Nat
    <3>1. 1 \in 1..(h + l) /\ 1 \in 1..h
      BY <1>1
    <3>2. u[n + 1] = g[1] /\ g[1] \in White
      BY <1>1, <1>2, <1>3, <3>1
    <3>3. end \in Nat
      BY <1>3, <1>6
    <3> QED BY <3>2, <3>3
  <2>2. ASSUME end > n PROVE FALSE
    BY <1>6, <2>1, <2>2
  <2>3. ASSUME end < n PROVE FALSE
    <3>1. end + 1 \in 1..n /\ end # Len(u)
      BY <1>1, <1>3, <2>1, <2>3
    <3> QED BY <1>1, <1>3, <1>6, <3>1
  <2> QED BY <2>1, <2>2, <2>3
<1>8. Normalize(u) = [mnemonic |-> m, args |-> SplitArgs(r)]
  BY <1>3, <1>4, <1>6, <1>7
<1> QED BY <1>8 DEF u, v

\* A beginning of a sequence, and the next element.
LEMMA NextElement ==
    ASSUME NEW S, NEW s \in Seq(S), NEW i \in Nat, i + 1 <= Len(s)
    PROVE  Append(SubSeq(s, 1, i), s[i + 1]) = SubSeq(s, 1, i + 1)
OBVIOUS

\* Whole arguments, each behind its gap: from the first of them on, the loop
\* makes the same arguments of the text.
LEMMA SpacedText ==
    ASSUME NEW words, Arguments(words), Len(words) # 0, NEW gaps,
           \A i \in 1..Len(words) : gaps[i] \in Seq(Chars) /\ gaps[i] # << >>,
           \A i \in 2..Len(words) : gaps[i] \in Seq({"blank"})
    PROVE  \E r \in Seq(Chars) :
             /\ Spaced(gaps, words) = gaps[1] \o r
             /\ r # << >> /\ SplitArgs(r) = words
             /\ r[1] = words[1][1]
             /\ r[Len(r)] = words[Len(words)][Len(words[Len(words)])]
<1>1. words \in Seq(Seq(Chars) \ {<< >>})
  BY DEF Arguments
<1>2. PICK n \in Nat : n = Len(words) /\ n # 0
  BY <1>1
<1> DEFINE Sent == Spacing(gaps, words)
           Good(i) ==
             \E r \in Seq(Chars), q \in Marks :
               /\ Sent[i] = gaps[1] \o r
               /\ r # << >> /\ r[1] = words[1][1]
               /\ r[Len(r)] = words[i][Len(words[i])]
               /\ Scanned(r).quote = q
               /\ Flush(Scanned(r)) = Within(SubSeq(words, 1, i), << >>, q)
               /\ i < n => q = None
           T == {i \in Nat : i + 1 <= n => Good(i + 1)}
<1> HIDE DEF Sent
<1>3. /\ Sent[0] = << >>
      /\ \A i \in 1..n : Sent[i] = Sent[i - 1] \o gaps[i] \o words[i]
  BY <1>2, SpacingStep DEF Sent
<1>4. \A i \in 1..n : words[i] \in Seq(Chars) /\ words[i] # << >>
  BY <1>1, <1>2
<1>5. gaps[1] \in Seq(Chars)
  BY <1>2
<1>6. 0 \in T
  <2>1. 1 \in 1..n /\ 0 + 1 = 1
    BY <1>2
  <2> DEFINE a == words[1]
  <2> HIDE DEF a
  <2>2. a \in Seq(Chars) /\ a # << >>
    BY <1>4, <2>1 DEF a
  <2>3. PICK q \in Marks : Whole(a, q) /\ (1 < n => q = None)
    BY <1>2, <2>1 DEF Arguments, a
  <2>4. Scanned(a) = Within(<< >>, a, q)
    BY <2>3, WholeEnd
  <2>5. Flush(Scanned(a)) = Within(Append(<< >>, a), << >>, q)
    BY <2>2, <2>4, FlushSome
  <2>6. Append(<< >>, a) = SubSeq(words, 1, 1)
    <3>1. 0 \in Nat /\ 0 + 1 <= Len(words) /\ SubSeq(words, 1, 0) = << >>
      BY <1>1, <1>2, <2>1
    <3>2. Append(SubSeq(words, 1, 0), words[0 + 1]) = SubSeq(words, 1, 0 + 1)
      BY <1>1, <3>1, NextElement
    <3> QED BY <3>1, <3>2 DEF a
  <2>7. Sent[1] = gaps[1] \o a
    <3>1. Sent[1] = Sent[0] \o gaps[1] \o words[1]
      <4>1. 1 - 1 = 0
        OBVIOUS
      <4> QED BY <1>3, <2>1, <4>1
    <3>2. << >> \o gaps[1] = gaps[1]
      BY <1>5
    <3> QED BY <1>3, <3>1, <3>2 DEF a
  <2>8. Scanned(a).quote = q
    BY <2>4 DEF Within
  <2>9. Good(1)
    BY <2>2, <2>3, <2>5, <2>6, <2>7, <2>8 DEF a
  <2> HIDE DEF Good
  <2> QED BY <2>1, <2>9
<1>7. ASSUME NEW j \in Nat, j \in T PROVE j + 1 \in T
  <2> HIDE DEF Good
  <2> SUFFICES ASSUME (j + 1) + 1 <= n PROVE Good((j + 1) + 1)
    OBVIOUS
  <2>1. PICK i \in Nat : i = j + 1
    OBVIOUS
  <2>2. /\ i \in 1..n /\ i < n /\ i + 1 \in 1..n /\ i + 1 \in 2..Len(words)
        /\ (i + 1) - 1 = i /\ i + 1 \in 1..Len(words)
    BY <1>2, <2>1
  <2>3. Good(i)
    BY <1>7, <2>1, <2>2
  <2> USE DEF Good
  <2>4. PICK r \in Seq(Chars) :
           /\ Sent[i] = gaps[1] \o r
           /\ r # << >> /\ r[1] = words[1][1]
           /\ Scanned(r).quote = None
           /\ Flush(Scanned(r)) = Within(SubSeq(words, 1, i), << >>, None)
    BY <2>2, <2>3
  <2> DEFINE a   == words[i + 1]
             gap == gaps[i + 1]
             v   == r \o gap
             t   == v \o a
  <2> HIDE DEF a, gap, v
  <2>5. a \in Seq(Chars) /\ a # << >>
    BY <1>4, <2>2 DEF a
  <2>6. gap \in Seq({"blank"}) /\ gap \in Seq(Chars) /\ gap # << >>
    BY <2>2 DEF gap
  <2>7. PICK q \in Marks : Whole(a, q) /\ (i + 1 < n => q = None)
    BY <1>2, <2>2 DEF Arguments, a
  <2>8. v \in Seq(Chars) /\ Scanned(v) = Within(SubSeq(words, 1, i), << >>, None)
    BY <2>4, <2>6, ScanGap DEF v
  <2>9. t \in Seq(Chars) /\ Scanned(t) = Within(SubSeq(words, 1, i), a, q)
    BY <2>7, <2>8, ScanAnother
  <2>10. Flush(Scanned(t)) = Within(SubSeq(words, 1, i + 1), << >>, q)
    <3>1. Flush(Scanned(t)) = Within(Append(SubSeq(words, 1, i), a), << >>, q)
      BY <2>5, <2>9, FlushSome
    <3>2. Append(SubSeq(words, 1, i), a) = SubSeq(words, 1, i + 1)
      BY <1>1, <1>2, <2>2, NextElement DEF a
    <3> QED BY <3>1, <3>2
  <2>11. Scanned(t).quote = q
    BY <2>9 DEF Within
  <2>12. Sent[i + 1] = gaps[1] \o t
    <3>1. Sent[i + 1] = ((gaps[1] \o r) \o gap) \o a
      BY <1>3, <2>2, <2>4 DEF a, gap
    <3>2. (gaps[1] \o r) \o gap = gaps[1] \o v
      <4>1. (gaps[1] \o r) \o gap = gaps[1] \o (r \o gap)
        BY <1>5, <2>4, <2>6, Texts3
      <4> QED BY <4>1 DEF v
    <3>3. (gaps[1] \o v) \o a = gaps[1] \o t
      BY <1>5, <2>5, <2>8, Texts3
    <3> QED BY <3>1, <3>2, <3>3
  <2>13. t # << >> /\ t[1] = words[1][1] /\ t[Len(t)] = a[Len(a)]
    <3>1. PICK x \in Nat, y \in Nat, z \in Nat :
             x = Len(r) /\ y = Len(gap) /\ z = Len(a) /\ x > 0 /\ y > 0 /\ z > 0
      BY <2>4, <2>5, <2>6
    <3>2. Len(v) = x + y /\ \A k \in 1..x : v[k] = r[k]
      BY <2>4, <2>6, <3>1, Joined DEF v
    <3>3. PICK p \in Nat : p = x + y
      BY <3>1
    <3>4. /\ Len(t) = p + z /\ \A k \in 1..p : t[k] = v[k]
          /\ \A k \in 1..z : t[p + k] = a[k]
      <4>1. /\ Len(t) = Len(v) + Len(a) /\ \A k \in 1..Len(v) : t[k] = v[k]
            /\ \A k \in 1..Len(a) : t[Len(v) + k] = a[k]
        BY <2>5, <2>8, Texts2
      <4> QED BY <3>1, <3>2, <3>3, <4>1
    <3>5. 1 \in 1..x /\ 1 \in 1..p /\ z \in 1..z /\ p + z # 0
      BY <3>1, <3>3
    <3>6. Len(<< >>) = 0
      OBVIOUS
    <3> QED BY <2>4, <3>1, <3>2, <3>4, <3>5, <3>6
  <2> HIDE DEF t
  <2>14. Good(i + 1)
    BY <2>7, <2>9, <2>10, <2>11, <2>12, <2>13 DEF a
  <2> QED BY <2>1, <2>14
<1> HIDE DEF T
<1>8. n - 1 \in T /\ (n - 1) + 1 = n
  <2>1. n - 1 \in Nat /\ (n - 1) + 1 = n
    BY <1>2
  <2> QED BY <1>6, <1>7, <2>1, Induction
<1>9. Good(n)
  BY <1>2, <1>8 DEF T
<1>10. PICK r \in Seq(Chars), q \in Marks :
         /\ Sent[n] = gaps[1] \o r
         /\ r # << >> /\ r[1] = words[1][1]
         /\ r[Len(r)] = words[n][Len(words[n])]
         /\ Flush(Scanned(r)) = Within(SubSeq(words, 1, n), << >>, q)
  BY <1>9
<1>11. SplitArgs(r) = words
  <2>1. SubSeq(words, 1, n) = words
    BY <1>1, <1>2
  <2> QED BY <1>10, <2>1 DEF SplitArgs, Within
<1>12. Spaced(gaps, words) = gaps[1] \o r
  BY <1>2, <1>10 DEF Spaced, Sent
<1> QED BY <1>2, <1>10, <1>11, <1>12

\* A text with one more character.
LEMMA Longer ==
    ASSUME NEW a \in Seq(Chars), NEW ch \in Chars
    PROVE  /\ Append(a, ch) \in Seq(Chars) /\ Append(a, ch) # << >>
           /\ Append(a, ch)[Len(Append(a, ch))] = ch
           /\ a # << >> => Append(a, ch)[1] = a[1]
<1>1. PICK n \in Nat : n = Len(a)
  OBVIOUS
<1>2. /\ Append(a, ch) \in Seq(Chars) /\ Len(Append(a, ch)) = n + 1
      /\ Append(a, ch)[n + 1] = ch
      /\ \A k \in 1..n : Append(a, ch)[k] = a[k]
  BY <1>1, Beginnings
<1>3. Append(a, ch) # << >>
  <2>1. Len(<< >>) = 0 /\ n + 1 # 0
    OBVIOUS
  <2> QED BY <1>2, <2>1
<1>4. a # << >> => 1 \in 1..n
  BY <1>1
<1> QED BY <1>1, <1>2, <1>3, <1>4

\* The scan keeps the ends of a text that has no white space around it.
LEMMA SplitArgsEnds ==
    ASSUME NEW s \in Seq(Chars), s # << >>, Bare(s)
    PROVE  \E n \in Nat :
             /\ n = Len(SplitArgs(s)) /\ n # 0
             /\ SplitArgs(s)[1][1] = s[1]
             /\ SplitArgs(s)[n][Len(SplitArgs(s)[n])] = s[Len(s)]
<1>1. PICK l \in Nat : l = Len(s) /\ l # 0
  OBVIOUS
<1>2. \A k \in 1..l : Scanning(s)[k] = Scan(Scanning(s)[k - 1], s[k])
  BY <1>1, ScanningStep
<1>3. s[1] \in Chars \ White /\ s[l] \in Chars \ White /\ "blank" \in White
  BY <1>1 DEF Bare, White
<1> DEFINE Begun(st) ==
             \E args \in Seq(Seq(Chars) \ {<< >>}), current \in Seq(Chars), q \in Marks :
               /\ st = Within(args, current, q)
               /\ args = << >> => current # << >> /\ current[1] = s[1]
               /\ args # << >> => args[1][1] = s[1]
           T == {k \in Nat : k + 1 <= l => Begun(Scanning(s)[k + 1])}
<1>4. 0 \in T
  <2> HIDE DEF Begun
  <2> SUFFICES Begun(Scanning(s)[1])
    OBVIOUS
  <2> USE DEF Begun
  <2>1. 1 \in 1..l /\ 1 - 1 = 0
    BY <1>1
  <2>2. Scanning(s)[0] = Within(<< >>, << >>, None)
    BY ScanningStep DEF Split0, Within
  <2>3. Scanning(s)[1] = Within(<< >>, Append(<< >>, s[1]), Turned(None, s[1]))
    <3>1. Scanning(s)[1] = Scan(Within(<< >>, << >>, None), s[1])
      BY <1>2, <2>1, <2>2
    <3>2. PICK nothing, q, ch : nothing = << >> /\ q = None /\ ch = s[1]
      OBVIOUS
    <3>3. ~(ch = "blank" /\ q = None)
      BY <1>3, <3>2
    <3>4. Scan(Within(nothing, nothing, q), ch) =
            Within(nothing, Append(nothing, ch), Turned(q, ch))
      BY <3>3, ScanKeeps
    <3> QED BY <3>1, <3>2, <3>4
  <2>4. /\ Append(<< >>, s[1]) \in Seq(Chars) /\ Append(<< >>, s[1]) # << >>
        /\ Append(<< >>, s[1])[1] = s[1]
    BY <1>3
  <2>5. << >> \in Seq(Seq(Chars) \ {<< >>}) /\ Turned(None, s[1]) \in Marks
    <3>1. None \in Marks
      BY DEF Marks
    <3>2. << >> \in Seq(Seq(Chars) \ {<< >>})
      OBVIOUS
    <3> QED BY <3>1, <3>2, TurnedMark
  <2> QED BY <2>3, <2>4, <2>5
<1>5. ASSUME NEW k \in Nat, k \in T PROVE k + 1 \in T
  <2> HIDE DEF Begun
  <2> SUFFICES ASSUME (k + 1) + 1 <= l PROVE Begun(Scanning(s)[(k + 1) + 1])
    OBVIOUS
  <2>1. PICK i \in Nat : i = (k + 1) + 1
    OBVIOUS
  <2>2. i \in 1..l /\ i - 1 = k + 1 /\ k + 1 <= l /\ s[i] \in Chars
    BY <1>1, <2>1
  <2>3. Begun(Scanning(s)[i - 1])
    BY <1>5, <2>2
  <2> USE DEF Begun
  <2>4. PICK args \in Seq(Seq(Chars) \ {<< >>}), current \in Seq(Chars), q \in Marks :
           /\ Scanning(s)[i - 1] = Within(args, current, q)
           /\ args = << >> => current # << >> /\ current[1] = s[1]
           /\ args # << >> => args[1][1] = s[1]
    BY <2>3
  <2> DEFINE ch == s[i]
  <2>5. Scanning(s)[i] = Scan(Within(args, current, q), ch)
    BY <1>2, <2>2, <2>4
  <2> HIDE DEF ch
  <2>6. CASE ~(ch = "blank" /\ q = None)
    <3>1. Scanning(s)[i] = Within(args, Append(current, ch), Turned(q, ch))
      BY <2>5, <2>6, ScanKeeps
    <3>2. /\ Append(current, ch) \in Seq(Chars) /\ Append(current, ch) # << >>
          /\ current # << >> => Append(current, ch)[1] = current[1]
          /\ Turned(q, ch) \in Marks
      <4>1. ch \in Chars
        BY <2>2 DEF ch
      <4>2. /\ Append(current, ch) \in Seq(Chars) /\ Append(current, ch) # << >>
            /\ current # << >> => Append(current, ch)[1] = current[1]
        BY <4>1, Longer
      <4> QED BY <4>2, TurnedMark
    <3>3. Begun(Scanning(s)[i])
      BY <2>4, <3>1, <3>2
    <3> QED BY <2>1, <3>3
  <2>7. CASE ch = "blank" /\ q = None /\ current = << >>
    <3>1. Scanning(s)[i] = Within(args, current, q)
      BY <2>5, <2>7, ScanEnds, FlushEnds
    <3>2. Begun(Scanning(s)[i])
      BY <2>4, <3>1
    <3> QED BY <2>1, <3>2
  <2>8. CASE ch = "blank" /\ q = None /\ current # << >>
    <3>1. Scanning(s)[i] = Within(Append(args, current), << >>, q)
      <4>1. Scan(Within(args, current, None), ch) = Flush(Within(args, current, None))
        BY <2>8, ScanEnds
      <4>2. Flush(Within(args, current, None)) =
              Within(Append(args, current), << >>, None)
        BY <2>8, FlushSome
      <4> QED BY <2>5, <2>8, <4>1, <4>2
    <3>2. /\ Append(args, current) \in Seq(Seq(Chars) \ {<< >>})
          /\ Append(args, current) # << >>
          /\ args = << >> => Append(args, current)[1] = current
          /\ args # << >> => Append(args, current)[1] = args[1]
      <4>1. current \in Seq(Chars) \ {<< >>}
        BY <2>8
      <4>2. PICK n \in Nat : n = Len(args)
        OBVIOUS
      <4>3. /\ Append(args, current) \in Seq(Seq(Chars) \ {<< >>})
            /\ Len(Append(args, current)) = n + 1
            /\ Append(args, current)[n + 1] = current
            /\ \A j \in 1..n : Append(args, current)[j] = args[j]
        BY <4>1, <4>2, Beginnings
      <4>4. Append(args, current) # << >>
        <5>1. Len(<< >>) = 0 /\ n + 1 # 0
          OBVIOUS
        <5> QED BY <4>3, <5>1
      <4>5. args = << >> => n + 1 = 1
        BY <4>2
      <4>6. args # << >> => 1 \in 1..n
        BY <4>2
      <4> QED BY <4>3, <4>4, <4>5, <4>6
    <3>3. << >> \in Seq(Chars)
      OBVIOUS
    <3>4. Begun(Scanning(s)[i])
      BY <2>4, <3>1, <3>2, <3>3
    <3> QED BY <2>1, <3>4
  <2> QED BY <2>6, <2>7, <2>8
<1> HIDE DEF T, Begun
<1>6. l - 1 \in T /\ (l - 1) + 1 = l
  <2>1. l - 1 \in Nat /\ (l - 1) + 1 = l
    BY <1>1
  <2> QED BY <1>4, <1>5, <2>1, Induction
<1>7. Begun(Scanned(s))
  BY <1>1, <1>6 DEF T, Scanned
<1>8. PICK args \in Seq(Seq(Chars) \ {<< >>}), current \in Seq(Chars), q \in Marks :
         /\ Scanned(s) = Within(args, current, q)
         /\ args = << >> => current # << >> /\ current[1] = s[1]
         /\ args # << >> => args[1][1] = s[1]
  BY <1>7 DEF Begun
<1>9. current # << >> /\ current[Len(current)] = s[l]
  <2>1. l \in 1..l /\ l - 1 \in 0..Len(s)
    BY <1>1
  <2>2. PICK more \in Seq(Seq(Chars) \ {<< >>}), now \in Seq(Chars), r \in Marks :
           Scanning(s)[l - 1] = Within(more, now, r)
    <3>1. Sound(Scanning(s)[l - 1])
      BY <2>1, ScanningSound
    <3> QED BY <3>1 DEF Sound
  <2>3. Scanned(s) = Within(more, Append(now, s[l]), Turned(r, s[l]))
    BY <1>1, <1>2, <1>3, <2>1, <2>2, ScanKeeps DEF Scanned
  <2>4. current = Append(now, s[l])
    BY <1>8, <2>3 DEF Within
  <2>5. Append(now, s[l]) # << >> /\ Append(now, s[l])[Len(Append(now, s[l]))] = s[l]
    <3>1. PICK ch \in Chars : ch = s[l]
      BY <1>3
    <3> QED BY <3>1, Longer
  <2> QED BY <2>4, <2>5
<1>10. SplitArgs(s) = Append(args, current)
  <2>1. Flush(Within(args, current, q)).args = Append(args, current)
    BY <1>9, FlushArgs
  <2> QED BY <1>8, <2>1 DEF SplitArgs
<1>11. PICK n \in Nat : n = Len(args) + 1 /\ n = Len(Append(args, current))
  OBVIOUS
<1>12. /\ Append(args, current)[n] = current
       /\ args = << >> => Append(args, current)[1] = current
       /\ args # << >> => Append(args, current)[1] = args[1]
  BY <1>11
<1>13. n # 0
  BY <1>11
<1> WITNESS n \in Nat
<1> QED BY <1>1, <1>8, <1>9, <1>10, <1>11, <1>12, <1>13

\* What parsing makes of a text.
Parsed(cmd) ==
    \E m \in Seq(Chars), rest \in Seq(Chars) :
        /\ cmd = [mnemonic |-> m, args |-> SplitArgs(rest)]
        /\ \A k \in 1..Len(m) : m[k] \notin White
        /\ Bare(rest)
        /\ m = << >> => rest = << >>

LEMMA NormalizeParsed ==
    ASSUME NEW raw \in Seq(Chars)
    PROVE  Parsed(Normalize(raw))
BY NormalizeType DEF Parsed

\* Without words there is nothing behind the mnemonic.
LEMMA SpacedNothing ==
    ASSUME NEW gaps
    PROVE  Spaced(gaps, << >>) = << >>
<1>1. Len(<< >>) = 0 /\ 0 \in Nat
  OBVIOUS
<1>2. Spacing(gaps, << >>)[0] = << >>
  BY <1>1, SpacingStep
<1> QED BY <1>1, <1>2 DEF Spaced

\* A command that is sent again is the same command.
LEMMA ParsedAgain ==
    ASSUME NEW cmd, Parsed(cmd)
    PROVE  Normalize(Resent(cmd)) = cmd
<1>1. PICK m \in Seq(Chars), rest \in Seq(Chars) :
         /\ cmd = [mnemonic |-> m, args |-> SplitArgs(rest)]
         /\ \A k \in 1..Len(m) : m[k] \notin White
         /\ Bare(rest)
         /\ m = << >> => rest = << >>
  BY DEF Parsed
<1> DEFINE args == SplitArgs(rest)
           gaps == [i \in DOMAIN args |-> <<"blank">>]
<1> HIDE DEF args, gaps
<1>2. Resent(cmd) = m \o Spaced(gaps, args) /\ cmd = [mnemonic |-> m, args |-> args]
  BY <1>1 DEF Resent, args, gaps
<1>3. CASE rest = << >>
  <2>1. args = << >>
    BY <1>3, SplitNothing DEF args
  <2>2. Resent(cmd) = m
    <3>1. Spaced(gaps, args) = << >>
      BY <2>1, SpacedNothing
    <3>2. m \o << >> = m
      OBVIOUS
    <3> QED BY <1>2, <3>1, <3>2
  <2>3. Normalize(m) = [mnemonic |-> m, args |-> << >>]
    BY <1>1, NormalizeAlone
  <2> QED BY <1>2, <2>1, <2>2, <2>3
<1>4. CASE rest # << >>
  <2>1. Arguments(args)
    BY <1>1, SplitArgsWhole DEF args
  <2>2. PICK n \in Nat :
           /\ n = Len(args) /\ n # 0
           /\ args[1][1] = rest[1]
           /\ args[n][Len(args[n])] = rest[Len(rest)]
    BY <1>1, <1>4, SplitArgsEnds DEF args
  <2>3. DOMAIN args = 1..n
    BY <2>1, <2>2 DEF Arguments
  <2> DEFINE gap == <<"blank">>
  <2>4. /\ gap \in Seq(Chars) /\ gap \in Seq({"blank"}) /\ gap # << >>
        /\ \A k \in 1..Len(gap) : gap[k] \in White
    BY DEF Chars, White
  <2>5. \A i \in 1..n : gaps[i] = gap
    BY <2>3 DEF gaps
  <2> HIDE DEF gap
  <2>6. /\ \A i \in 1..Len(args) : gaps[i] \in Seq(Chars) /\ gaps[i] # << >>
        /\ \A i \in 2..Len(args) : gaps[i] \in Seq({"blank"})
    <3>1. \A i \in 2..n : i \in 1..n
      OBVIOUS
    <3> QED BY <2>2, <2>4, <2>5, <3>1
  <2>7. PICK r \in Seq(Chars) :
           /\ Spaced(gaps, args) = gaps[1] \o r
           /\ r # << >> /\ SplitArgs(r) = args
           /\ r[1] = args[1][1]
           /\ r[Len(r)] = args[Len(args)][Len(args[Len(args)])]
    <3>1. Len(args) # 0
      BY <2>2
    <3> QED BY <2>1, <2>6, <3>1, SpacedText, Zenon
  <2>8. Bare(r)
    BY <1>1, <1>4, <2>2, <2>7 DEF Bare
  <2>9. gaps[1] = gap
    BY <2>2, <2>5
  <2>10. m # << >>
    BY <1>1, <1>4
  <2>11. Normalize(m \o (gap \o r)) = [mnemonic |-> m, args |-> SplitArgs(r)]
    BY <1>1, <2>4, <2>7, <2>8, <2>10, NormalizeSent
  <2> QED BY <1>2, <2>7, <2>9, <2>11
<1> QED BY <1>3, <1>4

-----------------------------------------------------------------------------
(* The words of an order are whole, and unquoted they are its values.      *)

LEMMA AppendText ==
    ASSUME NEW x \in Seq(Chars), NEW y \in Seq(Chars), NEW ch \in Chars
    PROVE  /\ Append(x, ch) = x \o <<ch>> /\ <<ch>> \in Seq(Chars)
           /\ Append(x \o y, ch) = x \o Append(y, ch)
           /\ SubSeq(x, 1, 0) = << >> /\ SubSeq(x, 1, Len(x)) = x
<1>1. /\ Append(x, ch) = x \o <<ch>> /\ <<ch>> \in Seq(Chars)
      /\ SubSeq(x, 1, 0) = << >> /\ SubSeq(x, 1, Len(x)) = x
  OBVIOUS
<1>2. x \o y \in Seq(Chars)
  BY Texts2
<1>3. Append(x \o y, ch) = (x \o y) \o <<ch>> /\ Append(y, ch) = y \o <<ch>>
  BY <1>2
<1>4. (x \o y) \o <<ch>> = x \o (y \o <<ch>>)
  BY <1>1, Texts3
<1> QED BY <1>1, <1>3, <1>4

\* What contains neither quotes nor white space is whole,
LEMMA BareWhole ==
    ASSUME NEW v \in Seq(Chars), \A k \in DOMAIN v : v[k] \notin Quotes \cup White
    PROVE  Whole(v, None)
<1> DEFINE T == {k \in Nat : k <= Len(v) => Whole(SubSeq(v, 1, k), None)}
<1>1. 0 \in T
  <2>1. SubSeq(v, 1, 0) = << >>
    OBVIOUS
  <2>2. Whole(SubSeq(v, 1, 0), None)
    BY <2>1, WholeNothing
  <2> QED BY <2>2
<1>2. ASSUME NEW k \in Nat, k \in T PROVE k + 1 \in T
  <2> SUFFICES ASSUME k + 1 <= Len(v) PROVE Whole(SubSeq(v, 1, k + 1), None)
    OBVIOUS
  <2>1. k <= Len(v) /\ k + 1 \in DOMAIN v
    OBVIOUS
  <2>2. PICK ch \in Chars : ch = v[k + 1] /\ ch \notin Quotes /\ ch # "blank"
    BY <2>1 DEF White
  <2>3. Whole(SubSeq(v, 1, k), None)
    BY <1>2, <2>1
  <2>4. Whole(Append(SubSeq(v, 1, k), ch), Turned(None, ch))
    BY <2>2, <2>3, WholeLonger
  <2>5. Turned(None, ch) = None
    BY <2>2 DEF Turned
  <2>6. Append(SubSeq(v, 1, k), ch) = SubSeq(v, 1, k + 1)
    BY <2>2, NextElement
  <2> QED BY <2>4, <2>5, <2>6
<1> HIDE DEF T
<1>3. Len(v) \in T /\ Len(v) \in Nat
  BY <1>1, <1>2, Induction
<1>4. SubSeq(v, 1, Len(v)) = v
  OBVIOUS
<1>5. PICK n \in Nat : n = Len(v)
  BY <1>3
<1>6. Whole(SubSeq(v, 1, n), None)
  BY <1>3, <1>5 DEF T
<1> QED BY <1>4, <1>5, <1>6

\* and so is what stands in quotes that it does not contain.
LEMMA QuotedWhole ==
    ASSUME NEW v \in Seq(Chars), NEW q \in Quotes, \A k \in DOMAIN v : v[k] # q
    PROVE  Whole(<<q>> \o v \o <<q>>, None)
<1>1. q \in Chars /\ q # None /\ q # "blank" /\ <<q>> \in Seq(Chars)
  <2>1. q \in Chars /\ q # None /\ q # "blank"
    BY TextAssumption DEF Chars, Quotes
  <2> QED BY <2>1
<1> DEFINE open == <<q>>
           T == {k \in Nat : k <= Len(v) => Whole(open \o SubSeq(v, 1, k), q)}
<1> HIDE DEF open
<1>2. open \in Seq(Chars) /\ open \o << >> = open /\ open = Append(<< >>, q)
  BY <1>1 DEF open
<1>3. 0 \in T
  <2>1. SubSeq(v, 1, 0) = << >>
    OBVIOUS
  <2>2. Whole(Append(<< >>, q), Turned(None, q))
    <3>1. ~(q = "blank" /\ None = None)
      BY <1>1
    <3> QED BY <1>1, <3>1, WholeNothing, WholeLonger
  <2>3. Turned(None, q) = q
    BY <1>1 DEF Turned
  <2>4. Whole(open \o SubSeq(v, 1, 0), q)
    BY <1>2, <2>1, <2>2, <2>3
  <2> QED BY <2>4
<1>4. ASSUME NEW k \in Nat, k \in T PROVE k + 1 \in T
  <2> SUFFICES ASSUME k + 1 <= Len(v) PROVE Whole(open \o SubSeq(v, 1, k + 1), q)
    OBVIOUS
  <2>1. k <= Len(v) /\ k + 1 \in DOMAIN v
    OBVIOUS
  <2>2. PICK ch \in Chars : ch = v[k + 1] /\ ch # q
    BY <2>1
  <2>3. Whole(open \o SubSeq(v, 1, k), q)
    BY <1>4, <2>1
  <2>4. Whole(Append(open \o SubSeq(v, 1, k), ch), Turned(q, ch))
    BY <1>1, <2>2, <2>3, WholeLonger
  <2>5. Turned(q, ch) = q
    BY <1>1, <2>2 DEF Turned
  <2>6. Append(SubSeq(v, 1, k), ch) = SubSeq(v, 1, k + 1)
    BY <2>2, NextElement
  <2>7. Append(open \o SubSeq(v, 1, k), ch) = open \o SubSeq(v, 1, k + 1)
    <3>1. SubSeq(v, 1, k) \in Seq(Chars)
      BY <2>1
    <3> QED BY <1>2, <2>2, <2>6, <3>1, AppendText
  <2> QED BY <2>4, <2>5, <2>7
<1> HIDE DEF T
<1>5. Len(v) \in T /\ Len(v) \in Nat
  BY <1>3, <1>4, Induction
<1>6. SubSeq(v, 1, Len(v)) = v
  OBVIOUS
<1>7. Whole(open \o v, q)
  <2>1. PICK n \in Nat : n = Len(v)
    BY <1>5
  <2>2. Whole(open \o SubSeq(v, 1, n), q)
    BY <1>5, <2>1 DEF T
  <2> QED BY <1>6, <2>1, <2>2
<1>8. Whole(Append(open \o v, q), Turned(q, q))
  BY <1>1, <1>7, WholeLonger
<1>9. Turned(q, q) = None
  BY DEF Turned
<1>10. Append(open \o v, q) = open \o v \o <<q>>
  <2>1. open \o v \in Seq(Chars)
    BY <1>2, Texts2
  <2> QED BY <1>1, <2>1, AppendText
<1> QED BY <1>8, <1>9, <1>10 DEF open

\* What a word looks like, how it is scanned, and what it is unquoted.
LEMMA QuotedWord ==
    ASSUME NEW w \in Words
    PROVE  /\ Quoted(w) \in Seq(Chars) \ {<< >>}
           /\ Whole(Quoted(w), None)
           /\ Quoted(w)[1] \notin White
           /\ Quoted(w)[Len(Quoted(w))] \notin White
           /\ StripQuotes(Quoted(w)) = w.value
<1>1. w.value \in Seq(Chars) /\ w.quote \in Quotes \cup {None}
  BY DEF Words
<1>2. CASE w.quote = None
  <2>1. /\ w.value # << >>
        /\ \A k \in DOMAIN w.value : w.value[k] \notin Quotes \cup White
    BY <1>2 DEF Words
  <2>2. Quoted(w) = w.value
    BY <1>2 DEF Quoted
  <2>3. Whole(w.value, None)
    BY <1>1, <2>1, BareWhole
  <2>4. 1 \in DOMAIN w.value /\ Len(w.value) \in DOMAIN w.value
    BY <1>1, <2>1
  <2>5. StripQuotes(w.value) = w.value
    BY <2>1, <2>4 DEF StripQuotes
  <2> QED BY <1>1, <2>1, <2>2, <2>3, <2>4, <2>5
<1>3. CASE w.quote # None
  <2>1. PICK q \in Quotes, v \in Seq(Chars) :
           q = w.quote /\ v = w.value /\ \A k \in DOMAIN v : v[k] # q
    BY <1>1, <1>3 DEF Words
  <2> DEFINE u == <<q>> \o v \o <<q>>
  <2>2. Quoted(w) = u
    BY <1>3, <2>1 DEF Quoted
  <2>3. Whole(u, None)
    BY <2>1, QuotedWhole
  <2>4. q \in Chars /\ q \notin White
    BY DEF Chars, Quotes, White
  <2>5. PICK n \in Nat : n = Len(v)
    OBVIOUS
  <2>6. /\ u \in Seq(Chars) /\ Len(u) = n + 2 /\ u[1] = q /\ u[n + 2] = q
        /\ \A k \in 1..n : u[k + 1] = v[k]
    BY <2>4, <2>5
  <2> HIDE DEF u
  <2>7. u # << >>
    <3>1. Len(<< >>) = 0 /\ n + 2 # 0
      OBVIOUS
    <3> QED BY <2>6, <3>1
  <2>8. StripQuotes(u) = v
    <3>1. Len(u) >= 2 /\ u[1] \in Quotes /\ u[Len(u)] = u[1] /\ Len(u) - 1 = n + 1
      BY <2>6
    <3>2. StripQuotes(u) = SubSeq(u, 2, n + 1)
      BY <3>1 DEF StripQuotes
    <3>3. SubSeq(u, 2, n + 1) \in Seq(Chars) /\ Len(SubSeq(u, 2, n + 1)) = n
      BY <2>6
    <3>4. ASSUME NEW k \in 1..n PROVE SubSeq(u, 2, n + 1)[k] = v[k]
      <4>1. 2 + k - 1 = k + 1 /\ k + 1 \in 1..Len(u)
        BY <2>6
      <4>2. SubSeq(u, 2, n + 1)[k] = u[2 + k - 1]
        BY <2>6
      <4> QED BY <2>6, <4>1, <4>2
    <3>5. SubSeq(u, 2, n + 1) = v
      BY <2>5, <3>3, <3>4
    <3> QED BY <3>2, <3>5
  <2> QED BY <2>1, <2>2, <2>3, <2>4, <2>6, <2>7, <2>8
<1> QED BY <1>1, <1>2, <1>3

\* The words of an order as they are sent.
Sent(o) == [i \in DOMAIN o.words |-> Quoted(o.words[i])]

\* An order is split into the words it was composed of.
LEMMA OrderArrives ==
    ASSUME NEW o \in Orders
    PROVE  /\ TextOf(o) \in Seq(Chars)
           /\ Normalize(TextOf(o)) = [mnemonic |-> o.mnemonic, args |-> Sent(o)]
<1> DEFINE m    == o.mnemonic
           args == Sent(o)
           gaps == [i \in DOMAIN o.words |-> o.words[i].gap]
<1> HIDE DEF m, args, gaps
<1>1. /\ m \in Seq(Chars) /\ m # << >> /\ \A k \in 1..Len(m) : m[k] \notin White
      /\ o.words \in Seq(Words)
      /\ \A i \in 2..Len(o.words) : o.words[i].gap \in Seq({"blank"})
  <2>1. m \in Seq(Chars \ White) /\ m # << >>
    BY TextAssumption DEF m
  <2>2. m \in Seq(Chars) /\ \A k \in 1..Len(m) : m[k] \notin White
    BY <2>1
  <2> QED BY <2>1, <2>2, TextAssumption
<1>2. PICK n \in Nat : n = Len(o.words) /\ DOMAIN o.words = 1..n
  BY <1>1
<1>3. \A i \in 1..n : o.words[i] \in Words
  BY <1>1, <1>2
<1>4. /\ args \in [1..n -> Seq(Chars) \ {<< >>}]
      /\ \A i \in 1..n : args[i] = Quoted(o.words[i]) /\ Whole(args[i], None)
  BY <1>2, <1>3, QuotedWord DEF args, Sent
<1>5. args \in Seq(Seq(Chars) \ {<< >>}) /\ Len(args) = n
  BY <1>4, Listed
<1>6. Arguments(args)
  <2>1. None \in Marks
    BY DEF Marks
  <2> QED BY <1>4, <1>5, <2>1 DEF Arguments
<1>7. TextOf(o) = m \o Spaced(gaps, args)
  BY DEF TextOf, Sent, m, args, gaps
<1>8. CASE n = 0
  <2>1. args = << >>
    BY <1>5, <1>8
  <2>2. Spaced(gaps, args) = << >>
    BY <2>1, SpacedNothing
  <2>3. m \o << >> = m
    BY <1>1
  <2>4. TextOf(o) = m
    BY <1>7, <2>2, <2>3
  <2>5. Normalize(m) = [mnemonic |-> m, args |-> << >>]
    BY <1>1, NormalizeAlone
  <2> QED BY <1>1, <2>1, <2>4, <2>5 DEF m, args
<1>9. CASE n # 0
  <2>1. \A i \in 1..n : /\ gaps[i] \in Seq(White) /\ gaps[i] # << >>
                        /\ i # 1 => gaps[i] \in Seq({"blank"})
    BY <1>1, <1>2, <1>3 DEF gaps, Words
  <2>2. \A g \in Seq(White) : g \in Seq(Chars) /\ \A k \in 1..Len(g) : g[k] \in White
    BY DEF Chars
  <2>3. /\ \A i \in 1..Len(args) : gaps[i] \in Seq(Chars) /\ gaps[i] # << >>
        /\ \A i \in 2..Len(args) : gaps[i] \in Seq({"blank"})
    <3>1. \A i \in 2..n : i \in 1..n /\ i # 1
      OBVIOUS
    <3> QED BY <1>5, <2>1, <2>2, <3>1
  <2>4. PICK r \in Seq(Chars) :
           /\ Spaced(gaps, args) = gaps[1] \o r
           /\ r # << >> /\ SplitArgs(r) = args
           /\ r[1] = args[1][1]
           /\ r[Len(r)] = args[Len(args)][Len(args[Len(args)])]
    <3>1. Len(args) # 0
      BY <1>5, <1>9
    <3> QED BY <1>6, <2>3, <3>1, SpacedText, Zenon
  <2>5. 1 \in 1..n /\ n \in 1..n
    BY <1>9
  <2>6. Bare(r)
    <3>1. args[1][1] \notin White /\ args[n][Len(args[n])] \notin White
      BY <1>3, <1>4, <2>5, QuotedWord
    <3> QED BY <1>5, <2>4, <3>1 DEF Bare
  <2> DEFINE g == gaps[1]
  <2>7. g \in Seq(Chars) /\ g # << >> /\ \A k \in 1..Len(g) : g[k] \in White
    BY <2>1, <2>2, <2>5
  <2> HIDE DEF g
  <2>8. Normalize(m \o (g \o r)) = [mnemonic |-> m, args |-> SplitArgs(r)]
    BY <1>1, <2>4, <2>6, <2>7, NormalizeSent
  <2>9. g \o r \in Seq(Chars)
    BY <2>4, <2>7, Texts2
  <2>10. m \o (g \o r) \in Seq(Chars)
    BY <1>1, <2>9, Texts2
  <2>11. TextOf(o) = m \o (g \o r)
    BY <1>7, <2>4 DEF g
  <2> QED BY <2>4, <2>8, <2>10, <2>11 DEF m, args
<1> QED BY <1>8, <1>9

-----------------------------------------------------------------------------
\* The command that is held is what parsing makes of a text, and of the text
\* of an order makes the words it was composed of.
TextInv ==
    /\ text \in Seq(Chars)
    /\ command = None \/ Parsed(command)
    /\ command # None /\ meant # None =>
         \E o \in Orders : meant = ValuesOf(o) /\ command.args = Sent(o)
    /\ call = None \/ call.sig \in Signatures

LEMMA TextInvAlways == Spec => []TextInv
<1>1. Init => TextInv
  BY DEF Init, TextInv
<1>2. TextInv /\ [Next]_vars => TextInv'
  <2> SUFFICES ASSUME TextInv, [Next]_vars PROVE TextInv'
    OBVIOUS
  <2>1. CASE UNCHANGED vars
    BY <2>1 DEF vars, TextInv, Parsed
  <2>2. CASE Receive
    <3>1. command' = Normalize(text') /\ call' = call
      BY <2>2 DEF Receive
    <3>2. CASE text' \in Texts /\ meant' = None
      <4>1. PICK raw \in Seq(Chars) : raw = text'
        BY <3>2, TextAssumption
      <4>2. Parsed(Normalize(raw))
        BY NormalizeParsed
      <4>3. Parsed(command')
        BY <3>1, <4>1, <4>2
      <4> QED BY <3>1, <3>2, <4>1, <4>3 DEF TextInv, Parsed
    <3>3. CASE \E o \in Orders : text' = TextOf(o) /\ meant' = ValuesOf(o)
      <4>1. PICK o \in Orders : text' = TextOf(o) /\ meant' = ValuesOf(o)
        BY <3>3
      <4>2. /\ TextOf(o) \in Seq(Chars)
            /\ Normalize(TextOf(o)) = [mnemonic |-> o.mnemonic, args |-> Sent(o)]
        BY OrderArrives
      <4>3. Parsed(Normalize(TextOf(o)))
        BY <4>2, NormalizeParsed
      <4>4. command' = Normalize(TextOf(o)) /\ command'.args = Sent(o)
        BY <3>1, <4>1, <4>2
      <4>5. Parsed(command')
        BY <4>3, <4>4
      <4> QED BY <3>1, <4>1, <4>2, <4>4, <4>5 DEF TextInv, Parsed
    <3> QED BY <2>2, <3>2, <3>3 DEF Receive
  <2>3. CASE Empty
    BY <2>3 DEF Empty, TextInv
  <2>4. CASE Call
    BY <2>4 DEF Call, TextInv, Parsed
  <2>5. CASE Answer
    BY <2>5 DEF Answer, TextInv
  <2> QED BY <2>1, <2>2, <2>3, <2>4, <2>5 DEF Next
<1> QED BY <1>1, <1>2, PTL DEF Spec

LEMMA ParsedArguments ==
    ASSUME NEW cmd, Parsed(cmd)
    PROVE  cmd.mnemonic \in Seq(Chars) /\ Arguments(cmd.args)
BY SplitArgsWhole DEF Parsed

\* Whatever a client sends, what comes of it is a mnemonic and arguments, none
\* of them empty.
THEOREM TypeCorrect == Spec => []TypeOK
<1>1. TextInv => TypeOK
  BY ParsedArguments DEF TextInv, TypeOK, Arguments
<1> QED BY <1>1, TextInvAlways, PTL

\* Whatever a client sends, no argument ends inside its quotes, and to send the
\* command again, mnemonic and arguments, is to send the same command.
THEOREM QuotesWholeAlways == Spec => []QuotesWhole
<1>1. ASSUME TextInv, command # None
      PROVE  /\ \A k \in 1..(Len(command.args) - 1) :
                  Scanned(command.args[k]).quote = None
             /\ Normalize(Resent(command)) = command
  <2>1. Parsed(command)
    BY <1>1 DEF TextInv
  <2>2. Arguments(command.args)
    BY <2>1, ParsedArguments
  <2>3. PICK n \in Nat : n = Len(command.args)
    BY <2>2 DEF Arguments
  <2>4. ASSUME NEW k \in 1..(n - 1)
        PROVE  Scanned(command.args[k]).quote = None
    <3>1. k \in 1..n /\ k < n
      OBVIOUS
    <3>2. Whole(command.args[k], None)
      BY <2>2, <2>3, <3>1 DEF Arguments
    <3> QED BY <3>2 DEF Whole
  <2>5. Normalize(Resent(command)) = command
    BY <2>1, ParsedAgain
  <2> QED BY <2>3, <2>4, <2>5
<1>2. TextInv => QuotesWhole
  BY <1>1 DEF QuotesWhole
<1> QED BY <1>2, TextInvAlways, PTL

\* However many values a client means, whatever is in them and whichever quotes
\* it puts around each, they are the values that a handler of texts is given.
THEOREM ValuesArriveAlways == Spec => []ValuesArrive
<1>1. ASSUME TextInv, command # None, meant # None
      PROVE  /\ Len(command.args) = Len(meant)
             /\ \A k \in DOMAIN meant : StripQuotes(command.args[k]) = meant[k]
  <2>1. PICK o \in Orders : meant = ValuesOf(o) /\ command.args = Sent(o)
    BY <1>1 DEF TextInv
  <2>2. o.words \in Seq(Words)
    BY TextAssumption
  <2>3. PICK n \in Nat : n = Len(o.words) /\ DOMAIN o.words = 1..n
    BY <2>2
  <2>4. \A k \in 1..n : o.words[k] \in Words
    BY <2>2, <2>3
  <2>5. Sent(o) = [k \in 1..n |-> Quoted(o.words[k])]
    BY <2>3 DEF Sent
  <2>6. ValuesOf(o) = [k \in 1..n |-> o.words[k].value]
    BY <2>3 DEF ValuesOf
  <2>7. ASSUME NEW k \in 1..n
        PROVE  StripQuotes(command.args[k]) = meant[k]
    BY <2>1, <2>4, <2>5, <2>6, QuotedWord
  <2>8. Len(command.args) = n /\ Len(meant) = n /\ DOMAIN meant = 1..n
    BY <2>1, <2>5, <2>6
  <2> QED BY <2>7, <2>8
<1>2. TextInv => ValuesArrive
  BY <1>1 DEF ValuesArrive
<1> QED BY <1>2, TextInvAlways, PTL

===============================================================================
