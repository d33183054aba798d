---------------------------- MODULE NumberReading ----------------------------
(***************************************************************************)
(* How audio_udp reads a number aloud, in Chinese: audio_tts_num_play makes *)
(* the list of recordings, the digits 0..9 and the words below, by adding   *)
(* to its front.  A number is its decimal digits, the units first, without  *)
(* leading zeros: division by a power of ten drops digits.                  *)
(***************************************************************************)
EXTENDS Integers, Sequences

CONSTANTS
  Numbers,   \* num_int, as digits
  Decimals   \* num_decimal, an uint8_t

VARIABLES
  num, dec,  \* the number played last
  words      \* its recordings
vars == <<num, dec, words>>

TEN == 10
HUNDRED == 11
THOUSAND == 12
TEN_THOUSAND == 13
BILLION == 14     \* 10^8
POINT == 15

\* Division and remainder by 10^k.
Strip(ds) == LET top == {i \in DOMAIN ds : ds[i] # 0}
             IN  IF top = {} THEN <<>> ELSE SubSeq(ds, 1, CHOOSE i \in top : \A j \in top : j <= i)
DivPow(ds, k) == SubSeq(ds, k + 1, Len(ds))
ModPow(ds, k) == Strip(SubSeq(ds, 1, IF Len(ds) < k THEN Len(ds) ELSE k))

\* Mutant: a run of zeros is not merged into one.
AddDigitZeros(st, d) ==
  LET i == TEN - 1 + st.place
      unit == IF d # 0 /\ i \in TEN..THOUSAND THEN <<i>> ELSE <<>>
      spoken == IF st.first \/ d # 0 THEN <<d>> ELSE <<>>
  IN  [place |-> st.place + 1, first |-> st.first \/ d # 0,
       zero |-> (st.first \/ d # 0) /\ d = 0, words |-> spoken \o unit \o st.words]

\* One round of the loop of __add_num_thousand; place counts the digits before it.
AddDigit(st, d) ==
  LET i == TEN - 1 + st.place
      unit == IF d # 0 /\ i \in TEN..THOUSAND THEN <<i>> ELSE <<>>
      first == st.first \/ d # 0
      spoken == IF first /\ (~st.zero \/ d # 0) THEN <<d>> ELSE <<>>
  IN  [place |-> st.place + 1, first |-> first,
       zero |-> IF first THEN d = 0 ELSE st.zero,
       words |-> spoken \o unit \o st.words]

\* The words of a number below 10000, put in front of behind.
AddThousand(behind, ds) ==
  LET round[k \in 0..Len(ds)] ==
        IF k = 0 THEN [place |-> 0, first |-> FALSE, zero |-> FALSE, words |-> behind]
        ELSE AddDigit(round[k - 1], ds[k])
  IN  IF ds = <<>> THEN <<0>> \o behind ELSE round[Len(ds)].words

\* The words of a number below 10^8.
AddTenThousand(behind, ds) ==
  LET n1 == DivPow(ds, 4)
      n2 == ModPow(ds, 4)
      low == IF n2 = <<>> THEN behind
             ELSE (IF Len(n2) < 4 THEN <<0>> ELSE <<>>) \o AddThousand(behind, n2)
  IN  IF n1 = <<>> THEN low ELSE AddThousand(<<TEN_THOUSAND>> \o low, n1)

AddBillion(behind, ds) ==
  LET n2 == ModPow(ds, 8)
      low == IF n2 = <<>> THEN behind ELSE AddTenThousand(behind, n2)
  IN  AddThousand(<<BILLION>> \o low, DivPow(ds, 8))

\* Two decimals
DecimalWords(d) ==
  LET two == IF d > 99 THEN d \div 10 ELSE d
  IN  IF d = 0 THEN <<>> ELSE <<POINT, two \div 10, two % 10>>

Reading(ds, d) ==
  LET behind == DecimalWords(d)
  IN  IF Len(ds) <= 4 THEN AddThousand(behind, ds)
      ELSE IF Len(ds) <= 8 THEN AddTenThousand(behind, ds)
      ELSE AddBillion(behind, ds)

Init == num = <<>> /\ dec = 0 /\ words = <<0>>

Play(ds, d) == num' = ds /\ dec' = d /\ words' = Reading(ds, d)

\* A number is read afresh, whatever was read before: one is enough.
Next == /\ num = <<>> /\ dec = 0
        /\ \E ds \in Numbers, d \in Decimals : Play(ds, d)
Spec == Init /\ [][Next]_vars

(***************************************************************************)
(* Properties: the grammar of the spoken number, read on its own.           *)
(***************************************************************************)

IndexOf(w, x) == IF \E i \in DOMAIN w : w[i] = x THEN CHOOSE i \in DOMAIN w : w[i] = x ELSE 0
Whole == IF IndexOf(words, POINT) = 0 THEN words ELSE SubSeq(words, 1, IndexOf(words, POINT) - 1)
Fraction == IF IndexOf(words, POINT) = 0 THEN <<>> ELSE SubSeq(words, IndexOf(words, POINT) + 1, Len(words))

\* The three sections: above 10^8, above 10^4, the rest.
Upto(w, x) == IF IndexOf(w, x) = 0 THEN <<>> ELSE SubSeq(w, 1, IndexOf(w, x) - 1)
Beyond(w, x) == SubSeq(w, IndexOf(w, x) + 1, Len(w))
Sections == <<Upto(Whole, BILLION), Upto(Beyond(Whole, BILLION), TEN_THOUSAND),
              Beyond(Beyond(Whole, BILLION), TEN_THOUSAND)>>

\* The power of ten the digit at i of section w stands for.
Place(w, i) == IF i < Len(w) /\ w[i + 1] >= TEN THEN w[i + 1] - TEN + 1 ELSE 0
Power == <<1, 10, 100, 1000>>
Total(f, n) == LET sum[k \in 0..n] == IF k = 0 THEN 0 ELSE sum[k - 1] + f[k] IN sum[n]
SectionValue(w) ==
  Total([i \in 1..Len(w) |-> IF w[i] < TEN THEN w[i] * Power[Place(w, i) + 1] ELSE 0], Len(w))
DigitsValue(ds) == Total([i \in 1..Len(ds) |-> ds[i] * Power[i]], Len(ds))

\* Whoever understands Chinese numbers understands the number that was sent: each
\* section has its value, and the fraction is the first two decimals.
Understood ==
  /\ SectionValue(Sections[1]) = DigitsValue(DivPow(num, 8))
  /\ SectionValue(Sections[2]) = DigitsValue(DivPow(ModPow(num, 8), 4))
  /\ SectionValue(Sections[3]) = DigitsValue(ModPow(num, 4))
  /\ Fraction = IF dec = 0 THEN <<>>
                ELSE LET d == IF dec >= 100 THEN dec \div 10 ELSE dec IN <<d \div 10, d % 10>>

\* The digits of a section, other than its zeros.
Spoken(w) == {i \in DOMAIN w : w[i] \in 1..9}
Follows(w, i, j) == i < j /\ i \in Spoken(w) /\ j \in Spoken(w)
                    /\ \A k \in Spoken(w) : k <= i \/ k >= j

\* One zero between digits that skip a place or several, and no other.
ZerosBetween(w, i, j) ==
  LET zeros == {k \in i..j : w[k] = 0}
  IN  IF Place(w, j) = Place(w, i) - 1 THEN zeros = {} ELSE \E k \in i..j : zeros = {k}
ZerosIn(w) ==
  /\ \A i, j \in DOMAIN w : Follows(w, i, j) => Place(w, j) < Place(w, i) /\ ZerosBetween(w, i, j)
  /\ w # <<>> => w[Len(w)] # 0

\* Within a section a zero is heard exactly where places are skipped, and none ends it.
\* In front of a section it is heard only before the last one, exactly when that is below
\* 1000.  Before the section of the ten thousands the code never adds one, though its
\* thousands place, or all of it, may be skipped (the lines that would are commented out):
\* 100030000 and 100003333 are read without a zero, which a listener misses.
ZerosSpoken ==
  Whole # <<0>> =>
  /\ \A s \in 1..3 : ZerosIn(Sections[s])
  /\ Sections[2] # <<>> => Sections[2][1] # 0
  /\ LET w == Sections[3] IN
       w # <<>> /\ Len(w) < Len(Whole) => (w[1] = 0 <=> Len(ModPow(num, 4)) < 4)
=============================================================================
