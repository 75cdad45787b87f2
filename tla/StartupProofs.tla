----------------------------- MODULE StartupProofs -----------------------------
(***************************************************************************)
(* What holds of the paths of log files for names of any length, buffers   *)
(* of any size, and any configuration.                                     *)
(***************************************************************************)
EXTENDS Startup, RealPathProofs, TLAPS

-----------------------------------------------------------------------------
(* Cutting and trimming a text. *)

LEMMA MinIs ==
    ASSUME NEW T, T \subseteq Nat, T # {}
    PROVE  Min(T) \in T /\ \A y \in T : Min(T) <= y
  <1>1. \E x \in T : \A y \in T : x <= y
    BY LeastOf
  <1>2. QED BY <1>1 DEF Min

LEMMA CutAt ==
    ASSUME NEW L, NEW text \in Seq(L), NEW c, NEW k \in 0 .. Len(text),
           k = Len(text) \/ text[k + 1] = c, \A i \in 1 .. k : text[i] # c
    PROVE  /\ Before(text, c) = SubSeq(text, 1, k)
           /\ After(text, c) = IF k = Len(text) THEN <<>> ELSE SubSeq(text, k + 2, Len(text))
  <1>1. CASE k = Len(text)
    <2>1. Places(text, c) = {}
      BY <1>1 DEF Places
    <2>2. SubSeq(text, 1, k) = text
      BY <1>1
    <2>3. Before(text, c) = text
      BY <2>1 DEF Before
    <2>4. After(text, c) = <<>>
      BY <2>1 DEF After
    <2>5. QED BY <1>1, <2>2, <2>3, <2>4, Zenon
  <1>2. CASE k # Len(text)
    <2>1. k + 1 \in Places(text, c) /\ Places(text, c) \subseteq Nat
          /\ \A i \in Places(text, c) : k + 1 <= i
      BY <1>2 DEF Places
    <2>2. Min(Places(text, c)) = k + 1
      <3>1. Min(Places(text, c)) \in Places(text, c) /\ Min(Places(text, c)) <= k + 1
        BY <2>1, MinIs
      <3>2. QED BY <2>1, <3>1
    <2>3. Places(text, c) # {}
      BY <2>1
    <2>4. (k + 1) - 1 = k /\ (k + 1) + 1 = k + 2
      OBVIOUS
    <2>5. Before(text, c) = SubSeq(text, 1, k)
      BY <2>2, <2>3, <2>4, Zenon DEF Before
    <2>6. After(text, c) = SubSeq(text, k + 2, Len(text))
      BY <2>2, <2>3, <2>4, Zenon DEF After
    <2>7. QED BY <1>2, <2>5, <2>6, Zenon
  <1>3. QED BY <1>1, <1>2

LEMMA TrimIs ==
    ASSUME NEW L, NEW text \in Seq(L), NEW s \in Seq(L), Padded(text, s)
    PROVE  trim(text) = s
  <1> DEFINE kept == DOMAIN text \ Places(text, Blank)
  <1>1. PICK before \in 0 .. Len(text) - Len(s) :
          /\ \A i \in 1 .. Len(s) : text[before + i] = s[i]
          /\ \A i \in 1 .. Len(text) : i \notin before + 1 .. before + Len(s) => text[i] = Blank
    BY DEF Padded
  <1>2. kept \subseteq before + 1 .. before + Len(s) /\ kept \subseteq 1 .. Len(text)
    BY <1>1 DEF Places
  <1>3. CASE s = <<>>
    <2>1. kept = {}
      BY <1>2, <1>3
    <2>2. QED BY <1>3, <2>1 DEF trim
  <1>4. CASE s # <<>>
    <2>1. Len(s) \in Nat /\ Len(s) > 0 /\ before \in Nat /\ before + Len(s) <= Len(text)
      BY <1>4
    <2>2. text[before + 1] = s[1] /\ text[before + Len(s)] = s[Len(s)] /\ s[1] # Blank /\ s[Len(s)] # Blank
      BY <1>1, <1>4, <2>1 DEF Padded
    <2>3. before + 1 \in kept /\ before + Len(s) \in kept
      BY <2>1, <2>2 DEF Places
    <2> HIDE DEF kept
    <2>4. Min(kept) = before + 1
      <3>1. kept \subseteq Nat
        BY <1>2
      <3>2. Min(kept) \in kept /\ \A y \in kept : Min(kept) <= y
        BY <2>3, <3>1, MinIs
      <3>3. \A y \in kept : y \in Nat /\ before + 1 <= y
        BY <1>2
      <3>4. Min(kept) \in Nat /\ Min(kept) <= before + 1 /\ Min(kept) >= before + 1
        BY <2>3, <3>2, <3>3
      <3>5. QED BY <2>1, <3>4
    <2>5. Max(kept) = before + Len(s)
      <3>1. kept \subseteq 0 .. Len(text)
        BY <1>2
      <3>2. Max(kept) \in kept /\ \A y \in kept : Max(kept) >= y
        <4>1. kept # {} /\ Len(text) \in Nat
          BY <2>3
        <4>2. QED BY <3>1, <4>1, GreatestOf
      <3>3. \A y \in kept : y \in Nat /\ y <= before + Len(s)
        BY <1>2, <2>1
      <3>4. Max(kept) \in Nat /\ Max(kept) >= before + Len(s) /\ Max(kept) <= before + Len(s)
        BY <2>3, <3>2, <3>3
      <3>5. QED BY <2>1, <3>4
    <2>6. trim(text) = SubSeq(text, before + 1, before + Len(s))
      BY <2>3, <2>4, <2>5 DEF trim, kept
    <2>7. SubSeq(text, before + 1, before + Len(s)) = s
      BY <1>1, <2>1
    <2>8. QED BY <2>6, <2>7
  <1>5. QED BY <1>3, <1>4

LEMMA TrimNothing == trim(<<>>) = <<>>
  <1>1. DOMAIN <<>> \ Places(<<>>, Blank) = {}
    OBVIOUS
  <1>2. QED BY <1>1 DEF trim

(* Reading a line yields the setting it expresses. *)
LEMMA LineIsRead ==
    ASSUME NEW L, NEW line \in Seq(L), NEW setting \in [key : Seq(L), value : Seq(L)],
           Expresses(line, setting)
    PROVE  LET text == Before(line, Hash)
           IN  /\ trim(Before(text, Colon)) = setting.key
               /\ setting.key # <<>> => trim(After(text, Colon)) = setting.value
  <1> DEFINE Reads(end, key) ==
          /\ end = Len(line) \/ line[end + 1] = Hash
          /\ \A i \in 1 .. end : line[i] # Hash
          /\ \A i \in 1 .. key : line[i] # Colon
          /\ Padded(SubSeq(line, 1, key), setting.key)
          /\ \/ key = end /\ (setting.key # <<>> => setting.value = <<>>)
             \/ /\ key < end /\ line[key + 1] = Colon
                /\ setting.key # <<>> => Padded(SubSeq(line, key + 2, end), setting.value)
  <1>0. PICK end \in 0 .. Len(line) : \E key \in 0 .. end : Reads(end, key)
    BY DEF Expresses
  <1>1. PICK key \in 0 .. end : Reads(end, key)
    BY <1>0
  <1>2. PICK text \in Seq(L) : /\ text = SubSeq(line, 1, end) /\ Len(text) = end
                               /\ \A i \in 1 .. end : text[i] = line[i]
    <2>1. /\ SubSeq(line, 1, end) \in Seq(L) /\ Len(SubSeq(line, 1, end)) = end
          /\ \A i \in 1 .. end : SubSeq(line, 1, end)[i] = line[i]
      OBVIOUS
    <2>2. QED BY <2>1, Zenon
  <1>3. Before(line, Hash) = text
    BY <1>1, <1>2, CutAt
  <1>4. key \in 0 .. Len(text) /\ (key = Len(text) \/ text[key + 1] = Colon) /\ \A i \in 1 .. key : text[i] # Colon
    BY <1>1, <1>2, SMTT(30)
  <1>5. /\ Before(text, Colon) = SubSeq(text, 1, key)
        /\ After(text, Colon) = IF key = Len(text) THEN <<>> ELSE SubSeq(text, key + 2, Len(text))
    BY <1>4, CutAt
  <1>6. PICK k \in Seq(L) : k = setting.key
    OBVIOUS
  <1>7. PICK v \in Seq(L) : v = setting.value
    OBVIOUS
  <1>8. SubSeq(text, 1, key) = SubSeq(line, 1, key) /\ SubSeq(text, 1, key) \in Seq(L)
    BY <1>2, <1>4
  <1>9. trim(Before(text, Colon)) = k
    BY <1>1, <1>5, <1>6, <1>8, TrimIs
  <1>10. ASSUME k # <<>> PROVE trim(After(text, Colon)) = v
    <2>1. CASE key = end
      BY <1>1, <1>2, <1>5, <1>6, <1>7, <1>10, <2>1, TrimNothing
    <2>2. CASE key # end
      <3>1. Padded(SubSeq(line, key + 2, end), v)
        BY <1>1, <1>6, <1>7, <1>10, <2>2
      <3>2. SubSeq(text, key + 2, end) = SubSeq(line, key + 2, end) /\ SubSeq(text, key + 2, end) \in Seq(L)
        BY <1>1, <1>2, <2>2
      <3>3. After(text, Colon) = SubSeq(line, key + 2, end)
        BY <1>2, <1>5, <2>2, <3>2
      <3>4. QED BY <3>1, <3>2, <3>3, TrimIs
    <2>3. QED BY <2>1, <2>2
  <1>11. QED BY <1>3, <1>6, <1>7, <1>9, <1>10

-----------------------------------------------------------------------------
(* The values of a key in the first settings of a file. *)
UpTo(settings, key) ==
    CHOOSE upTo : upTo = [n \in 0 .. Len(settings) |->
                            IF n = 0 THEN <<>> ELSE AndValue(upTo[n - 1], settings[n], key)]

LEMMA ValuesOfIsLast ==
    ASSUME NEW settings, NEW key
    PROVE  ValuesOf(settings, key) = UpTo(settings, key)[Len(settings)]
  BY Zenon DEF ValuesOf, UpTo

LEMMA Member ==
    ASSUME NEW R, NEW s \in Seq(R), NEW n \in 1 .. Len(s)
    PROVE  s[n] \in R
  OBVIOUS

LEMMA Parts ==
    ASSUME NEW R, NEW s \in Seq(R), s # <<>>
    PROVE  Head(s) \in R /\ Tail(s) \in Seq(R)
  OBVIOUS

LEMMA NothingLeft ==
    ASSUME NEW R, NEW s \in Seq(R), NEW n \in 0 .. Len(s), SubSeq(s, n + 1, Len(s)) = <<>>
    PROVE  n = Len(s)
  OBVIOUS

LEMMA UpToIs ==
    ASSUME NEW L, NEW settings \in Seq([key : Seq(L), value : Seq(L)]), NEW key
    PROVE  /\ UpTo(settings, key)[0] = <<>>
           /\ \A n \in 1 .. Len(settings) :
                UpTo(settings, key)[n] = AndValue(UpTo(settings, key)[n - 1], settings[n], key)
  <1> DEFINE turn == [n \in 1 .. Len(settings) |->
                        [values \in Seq(Seq(L)) |-> AndValue(values, settings[n], key)]]
  <1>1. PICK S : S = Seq(Seq(L))
    OBVIOUS
  <1>2. PICK m \in Nat : m = Len(settings)
    OBVIOUS
  <1>3. \A n \in 1 .. m : \A values \in S :
          turn[n][values] \in S /\ turn[n][values] = AndValue(values, settings[n], key)
    <2> SUFFICES ASSUME NEW n \in 1 .. m, NEW values \in S
                 PROVE  turn[n][values] \in S
                        /\ turn[n][values] = AndValue(values, settings[n], key)
      OBVIOUS
    <2>1. settings[n].value \in Seq(L) /\ values \in Seq(Seq(L))
      <3>1. n \in 1 .. Len(settings)
        BY <1>2
      <3>2. settings[n] \in [key : Seq(L), value : Seq(L)]
        BY <3>1, Member, Zenon
      <3>3. QED BY <1>1, <3>2
    <2>2. AndValue(values, settings[n], key) \in Seq(Seq(L))
      BY <2>1 DEF AndValue
    <2>3. QED BY <1>1, <1>2, <2>1, <2>2
  <1>4. PICK g : IsRun(g, S, <<>>, m, turn)
    <2> HIDE DEF turn
    <2>1. <<>> \in S
      BY <1>1
    <2>2. QED BY <1>3, <2>1, RecursionExists, Zenon
  <1> HIDE DEF turn
  <1>5. /\ g \in [0 .. m -> S] /\ g[0] = <<>>
        /\ \A n \in 1 .. m : g[n] = AndValue(g[n - 1], settings[n], key)
    <2>1. g \in [0 .. m -> S] /\ g[0] = <<>> /\ \A n \in 1 .. m : g[n] = turn[n][g[n - 1]]
      BY <1>4 DEF IsRun
    <2>2. \A n \in 1 .. m : g[n - 1] \in S
      BY <2>1
    <2>3. QED BY <1>3, <2>1, <2>2
  <1>6. g = [n \in 0 .. Len(settings) |->
               IF n = 0 THEN <<>> ELSE AndValue(g[n - 1], settings[n], key)]
    BY <1>2, <1>5
  <1>7. PICK u : u = UpTo(settings, key)
    OBVIOUS
  <1>8. u = [n \in 0 .. Len(settings) |->
               IF n = 0 THEN <<>> ELSE AndValue(u[n - 1], settings[n], key)]
    BY <1>6, <1>7 DEF UpTo
  <1>9. QED BY <1>7, <1>8, SMTT(30)

-----------------------------------------------------------------------------
(* What has been read are the settings of the lines that are not left to be read. *)

HasRead(n) ==
    /\ n \in 0 .. Len(file.lines) /\ lines = SubSeq(file.lines, n + 1, Len(file.lines))
    /\ \A key \in Seq(Lexemes) \ {<<>>} : getStrings(key) = UpTo(file.settings, key)[n]

ConfInv ==
    /\ file \in Files /\ \E n \in Nat : HasRead(n)
    /\ DOMAIN confMap \subseteq Seq(Lexemes) \ {<<>>}
    /\ \A key \in DOMAIN confMap : confMap[key] \in Seq(Seq(Lexemes))

LEMMA FileIs ==
    ASSUME file \in Files
    PROVE  /\ file.lines \in Seq(Seq(Lexemes))
           /\ file.settings \in Seq([key : Seq(Lexemes), value : Seq(Lexemes)])
           /\ Len(file.settings) = Len(file.lines)
           /\ \A i \in 1 .. Len(file.lines) : Expresses(file.lines[i], file.settings[i])
  BY FilesAssumption

LEMMA ConfInitInv == ConfInit => ConfInv
  <1> SUFFICES ASSUME ConfInit PROVE ConfInv
    OBVIOUS
  <1>1. file \in Files /\ lines = file.lines /\ confMap = <<>>
    BY DEF ConfInit
  <1>2. lines = SubSeq(file.lines, 0 + 1, Len(file.lines)) /\ 0 \in 0 .. Len(file.lines)
    BY <1>1, FileIs
  <1>3. DOMAIN confMap = {}
    BY <1>1
  <1>4. \A key : getStrings(key) = <<>>
    BY <1>3 DEF getStrings
  <1>5. \A key : UpTo(file.settings, key)[0] = <<>>
    BY <1>1, FileIs, UpToIs
  <1>6. HasRead(0)
    BY <1>2, <1>4, <1>5 DEF HasRead
  <1>7. QED BY <1>1, <1>3, <1>6 DEF ConfInv

LEMMA ReadLineInv ==
    ASSUME ConfInv, ReadLine
    PROVE  ConfInv'
  <1>1. PICK n \in Nat : HasRead(n)
    BY DEF ConfInv
  <1>2. /\ file \in Files /\ file' = file /\ lines # <<>> /\ lines' = Tail(lines)
        /\ DOMAIN confMap \subseteq Seq(Lexemes) \ {<<>>}
        /\ \A key \in DOMAIN confMap : confMap[key] \in Seq(Seq(Lexemes))
    BY DEF ConfInv, ReadLine
  <1>3. PICK all \in Seq(Seq(Lexemes)) : all = file.lines
    BY <1>2, FileIs
  <1>4. PICK settings \in Seq([key : Seq(Lexemes), value : Seq(Lexemes)]) : settings = file.settings
    BY <1>2, FileIs
  <1>5. Len(settings) = Len(all) /\ \A i \in 1 .. Len(all) : Expresses(all[i], settings[i])
    BY <1>2, <1>3, <1>4, FileIs
  <1>6. /\ n \in 0 .. Len(all) /\ lines = SubSeq(all, n + 1, Len(all))
        /\ \A key \in Seq(Lexemes) \ {<<>>} : getStrings(key) = UpTo(settings, key)[n]
    BY <1>1, <1>3, <1>4 DEF HasRead
  <1>7. /\ n + 1 \in 1 .. Len(all) /\ Head(lines) = all[n + 1]
        /\ Tail(lines) = SubSeq(all, (n + 1) + 1, Len(all))
    BY <1>2, <1>6
  <1>8. PICK setting \in [key : Seq(Lexemes), value : Seq(Lexemes)] : setting = settings[n + 1]
    <2>1. n + 1 \in 1 .. Len(settings)
      BY <1>5, <1>7
    <2>2. settings[n + 1] \in [key : Seq(Lexemes), value : Seq(Lexemes)]
      BY <2>1, Member, Zenon
    <2>3. QED BY <2>2
  <1>9. PICK k \in Seq(Lexemes) : k = setting.key
    BY <1>8
  <1>10. PICK v \in Seq(Lexemes) : v = setting.value
    BY <1>8
  <1>11. LET text == Before(Head(lines), Hash)
         IN  trim(Before(text, Colon)) = k /\ (k # <<>> => trim(After(text, Colon)) = v)
    <2>1. Head(lines) \in Seq(Lexemes) /\ Expresses(Head(lines), setting)
      BY <1>5, <1>7, <1>8, SMTT(30)
    <2>2. QED BY <1>9, <1>10, <2>1, LineIsRead
  <1>12. \A key : UpTo(settings, key)[n + 1] = AndValue(UpTo(settings, key)[n], setting, key)
    <2>1. (n + 1) - 1 = n
      OBVIOUS
    <2>2. QED BY <1>5, <1>7, <1>8, <2>1, UpToIs, ZenonT(30)
  <1>13. /\ DOMAIN confMap' \subseteq Seq(Lexemes) \ {<<>>}
         /\ \A key \in DOMAIN confMap' : confMap'[key] \in Seq(Seq(Lexemes))
         /\ \A key \in Seq(Lexemes) \ {<<>>} :
              getStrings(key)' = IF k = key THEN Append(getStrings(key), v) ELSE getStrings(key)
    <2>1. CASE k = <<>>
      <3>1. confMap' = confMap
        BY <1>11, <2>1 DEF ReadLine
      <3>2. QED BY <1>2, <2>1, <3>1 DEF getStrings
    <2>2. CASE k # <<>>
      <3>1. Put(k, v)
        BY <1>11, <2>2 DEF ReadLine
      <3>2. /\ DOMAIN confMap' = DOMAIN confMap \cup {k}
            /\ confMap'[k] = Append(getStrings(k), v)
            /\ \A key \in DOMAIN confMap \ {k} : confMap'[key] = confMap[key]
        BY <3>1 DEF Put
      <3>3. getStrings(k) \in Seq(Seq(Lexemes))
        BY <1>2 DEF getStrings
      <3>4. Append(getStrings(k), v) \in Seq(Seq(Lexemes))
        BY <3>3
      <3>5. QED BY <1>2, <2>2, <3>2, <3>4 DEF getStrings
    <2>3. QED BY <2>1, <2>2
  <1>14. HasRead(n + 1)'
    <2>1. \A key \in Seq(Lexemes) \ {<<>>} : getStrings(key)' = UpTo(settings, key)[n + 1]
      BY <1>6, <1>9, <1>10, <1>12, <1>13 DEF AndValue
    <2>2. lines' = SubSeq(all, (n + 1) + 1, Len(all))
      BY <1>2, <1>7
    <2>3. n + 1 \in 0 .. Len(file'.lines) /\ file'.lines = all /\ file'.settings = settings
      BY <1>2, <1>3, <1>4, <1>7
    <2>4. QED BY <2>1, <2>2, <2>3 DEF HasRead
  <1>15. n + 1 \in Nat
    OBVIOUS
  <1>16. QED BY <1>2, <1>13, <1>14, <1>15 DEF ConfInv

-----------------------------------------------------------------------------
(* The fields of an entry. *)

LEMMA Part ==
    ASSUME NEW L, NEW s \in Seq(L), NEW a \in 1 .. Len(s) + 1, NEW b \in 0 .. Len(s)
    PROVE  SubSeq(s, a, b) \in Seq(L)
  OBVIOUS

LEMMA TrimType ==
    ASSUME NEW L, NEW text \in Seq(L)
    PROVE  trim(text) \in Seq(L)
  <1> DEFINE kept == DOMAIN text \ Places(text, Blank)
  <1>1. CASE kept = {}
    <2>1. trim(text) = <<>>
      BY <1>1 DEF trim
    <2>2. <<>> \in Seq(L)
      OBVIOUS
    <2>3. QED BY <2>1, <2>2, Zenon
  <1>2. CASE kept # {}
    <2>1. kept \subseteq 1 .. Len(text) /\ kept \subseteq 0 .. Len(text) /\ Len(text) \in Nat
      OBVIOUS
    <2>2. trim(text) = SubSeq(text, Min(kept), Max(kept))
      BY <1>2 DEF trim
    <2> HIDE DEF kept
    <2>3. Max(kept) \in kept
      BY <1>2, <2>1, GreatestOf
    <2>4. Min(kept) \in kept
      <3>1. kept \subseteq Nat
        BY <2>1
      <3>2. QED BY <1>2, <3>1, MinIs
    <2>5. SubSeq(text, Min(kept), Max(kept)) \in Seq(L)
      <3>1. PICK i \in 1 .. Len(text) : i = Min(kept)
        BY <2>1, <2>4
      <3>2. PICK j \in 1 .. Len(text) : j = Max(kept)
        BY <2>1, <2>3
      <3>3. SubSeq(text, i, j) \in Seq(L)
        BY Part
      <3>4. QED BY <3>1, <3>2, <3>3
    <2>6. QED BY <2>2, <2>5
  <1>3. QED BY <1>1, <1>2

Cuts(s, count) ==
    CHOOSE cut : cut = [k \in 0 .. count |-> IF k = 0 THEN 0 ELSE NextCut(s, cut[k - 1])]

LEMMA SplitCuts ==
    ASSUME NEW s, NEW count
    PROVE  split(s, count) = [k \in {f \in 1 .. count : Cuts(s, count)[f - 1] <= Len(s)} |->
                                SubSeq(s, Cuts(s, count)[k - 1] + 1, Cuts(s, count)[k] - 1)]
  BY Zenon DEF split, Cuts

LEMMA NextCutIs ==
    ASSUME NEW L, NEW s \in Seq(L), NEW p \in 0 .. Len(s) + 1
    PROVE  /\ NextCut(s, p) \in 0 .. Len(s) + 1 /\ NextCut(s, p) >= p
           /\ p <= Len(s) => NextCut(s, p) > p
           /\ NextCut(s, p) <= Len(s) => s[NextCut(s, p)] = Comma
           /\ \A i \in p + 1 .. NextCut(s, p) - 1 : s[i] # Comma
  <1> DEFINE cuts == {c \in Places(s, Comma) : c > p} \cup {Len(s) + 1}
  <1>1. cuts \subseteq Nat /\ cuts # {}
    BY DEF Places
  <1>2. \A c \in cuts : /\ c \in 1 .. Len(s) + 1 /\ (c > p \/ c = Len(s) + 1)
                        /\ c <= Len(s) => s[c] = Comma
    BY DEF Places
  <1>3. \A i \in p + 1 .. Len(s) : s[i] = Comma => i \in cuts
    BY DEF Places
  <1> HIDE DEF cuts
  <1>4. Min(cuts) \in cuts /\ \A y \in cuts : Min(cuts) <= y
    BY <1>1, MinIs
  <1>5. PICK c \in cuts : c = NextCut(s, p) /\ \A y \in cuts : c <= y
    BY <1>4 DEF NextCut, cuts
  <1>6. /\ c \in 1 .. Len(s) + 1 /\ (c > p \/ c = Len(s) + 1)
        /\ c <= Len(s) => s[c] = Comma
    BY <1>2, <1>5
  <1>7. Len(s) \in Nat /\ c \in Nat /\ p \in Nat
    BY <1>6
  <1>8. ASSUME NEW i \in p + 1 .. c - 1 PROVE s[i] # Comma
    <2>1. i \in p + 1 .. Len(s) /\ ~(c <= i)
      BY <1>6, <1>7
    <2>2. i \notin cuts
      BY <1>5, <2>1
    <2>3. QED BY <1>3, <2>1, <2>2
  <1>9. c \in 0 .. Len(s) + 1 /\ c >= p /\ (p <= Len(s) => c > p)
    BY <1>6, <1>7
  <1>10. QED BY <1>5, <1>6, <1>8, <1>9

LEMMA CutsAre ==
    ASSUME NEW L, NEW s \in Seq(L), NEW count \in Nat
    PROVE  /\ Cuts(s, count)[0] = 0
           /\ \A k \in 1 .. count : Cuts(s, count)[k] = NextCut(s, Cuts(s, count)[k - 1])
           /\ \A k \in 0 .. count : Cuts(s, count)[k] \in 0 .. Len(s) + 1
           /\ \A k \in 0 .. count : \A j \in 0 .. k : Cuts(s, count)[j] <= Cuts(s, count)[k]
  <1> DEFINE S == 0 .. Len(s) + 1
             turn == [k \in 1 .. count |-> [p \in S |-> NextCut(s, p)]]
  <1>1. \A k \in 1 .. count : \A p \in S : turn[k][p] \in S /\ turn[k][p] = NextCut(s, p)
    BY NextCutIs
  <1>2. PICK g : IsRun(g, S, 0, count, turn)
    <2> HIDE DEF turn, S
    <2>1. 0 \in S
      BY DEF S
    <2>2. QED BY <1>1, <2>1, RecursionExists, Zenon
  <1> HIDE DEF turn
  <1>3. g \in [0 .. count -> S] /\ g[0] = 0 /\ \A k \in 1 .. count : g[k] = NextCut(s, g[k - 1])
    <2>1. g \in [0 .. count -> S] /\ g[0] = 0 /\ \A k \in 1 .. count : g[k] = turn[k][g[k - 1]]
      BY <1>2 DEF IsRun
    <2>2. \A k \in 1 .. count : g[k - 1] \in S
      BY <2>1
    <2>3. QED BY <1>1, <2>1, <2>2
  <1>4. g = [k \in 0 .. count |-> IF k = 0 THEN 0 ELSE NextCut(s, g[k - 1])]
    BY <1>3
  <1>5. PICK c : c = Cuts(s, count)
    OBVIOUS
  <1>6. c = [k \in 0 .. count |-> IF k = 0 THEN 0 ELSE NextCut(s, c[k - 1])]
    BY <1>4, <1>5 DEF Cuts
  <1>7. c[0] = 0 /\ \A k \in 1 .. count : c[k] = NextCut(s, c[k - 1])
    BY <1>6
  <1> DEFINE Good == {k \in Nat : k <= count => /\ c[k] \in 0 .. Len(s) + 1
                                              /\ \A j \in 0 .. k : c[j] \in Int /\ c[j] <= c[k]}
  <1>8. 0 \in Good
    BY <1>7
  <1>9. ASSUME NEW k \in Nat, k \in Good PROVE k + 1 \in Good
    <2> SUFFICES ASSUME k + 1 <= count
                 PROVE  /\ c[k + 1] \in 0 .. Len(s) + 1
                        /\ \A j \in 0 .. k + 1 : c[j] \in Int /\ c[j] <= c[k + 1]
      OBVIOUS
    <2>1. c[k + 1] = NextCut(s, c[k])
      BY <1>7
    <2>2. c[k] \in 0 .. Len(s) + 1 /\ \A j \in 0 .. k : c[j] \in Int /\ c[j] <= c[k]
      BY <1>9
    <2>3. c[k + 1] \in 0 .. Len(s) + 1 /\ c[k] <= c[k + 1]
      BY <2>1, <2>2, NextCutIs
    <2>4. ASSUME NEW j \in 0 .. k PROVE c[j] \in Int /\ c[j] <= c[k + 1]
      <3>1. c[j] <= c[k] /\ c[j] \in Int
        BY <2>2
      <3>2. QED BY <2>2, <2>3, <3>1
    <2>5. QED BY <2>3, <2>4
  <1>10. Nat \subseteq Good
    <2> HIDE DEF Good
    <2>1. QED BY <1>8, <1>9, Induction
  <1>11. QED BY <1>5, <1>7, <1>10

(* The fields are those parts of the text that begin in it or right behind it. *)
LEMMA SplitIs ==
    ASSUME NEW L, NEW s \in Seq(L), NEW count \in Nat \ {0}
    PROVE  \E m \in 1 .. count :
             /\ split(s, count) \in Seq(Seq(L)) /\ Len(split(s, count)) = m
             /\ \A k \in 1 .. m : /\ Cuts(s, count)[k - 1] <= Len(s)
                                  /\ split(s, count)[k] = SubSeq(s, Cuts(s, count)[k - 1] + 1,
                                                                 Cuts(s, count)[k] - 1)
             /\ m = count \/ Cuts(s, count)[m] = Len(s) + 1
  <1> DEFINE Begins(c) == {f \in 1 .. count : c[f - 1] <= Len(s)}
  <1>1. PICK c : c = Cuts(s, count)
    OBVIOUS
  <1>2. c[0] = 0 /\ \A k \in 1 .. count : c[k] = NextCut(s, c[k - 1])
    BY <1>1, CutsAre
  <1>3. \A k \in 0 .. count : c[k] \in 0 .. Len(s) + 1
    BY <1>1, CutsAre
  <1>4. \A k \in 0 .. count : \A j \in 0 .. k : c[j] <= c[k]
    BY <1>1, CutsAre
  <1>5. 1 \in Begins(c) /\ Begins(c) \subseteq 0 .. count
    BY <1>2
  <1>6. PICK m \in Begins(c) : \A y \in Begins(c) : m >= y
    <2> HIDE DEF Begins
    <2>1. QED BY <1>5, GreatestOf
  <1>7. m \in 1 .. count /\ c[m - 1] <= Len(s)
    BY <1>6
  <1>8. Begins(c) = 1 .. m
    <2>1. ASSUME NEW f \in 1 .. m PROVE f \in Begins(c)
      <3>1. f - 1 \in 0 .. count /\ m - 1 \in 0 .. count /\ f - 1 \in 0 .. m - 1
        BY <1>7
      <3>2. c[f - 1] <= c[m - 1] /\ c[f - 1] \in Int /\ c[m - 1] \in Int
        BY <1>3, <1>4, <3>1
      <3>3. QED BY <1>7, <3>2
    <2>2. QED BY <1>6, <1>7, <2>1
  <1>9. m = count \/ c[m] = Len(s) + 1
    <2>1. SUFFICES ASSUME m # count PROVE c[m] = Len(s) + 1
      OBVIOUS
    <2>2. m + 1 \in 1 .. count /\ m + 1 \notin Begins(c) /\ (m + 1) - 1 = m
      <3>1. m + 1 \in 1 .. count /\ m + 1 \notin 1 .. m /\ (m + 1) - 1 = m
        BY <1>7, <2>1
      <3>2. QED BY <1>8, <3>1, Zenon
    <2>3. c[m] \in 0 .. Len(s) + 1 /\ ~(c[m] <= Len(s))
      BY <1>3, <1>7, <2>2
    <2>4. QED BY <2>3
  <1>10. split(s, count) = [k \in 1 .. m |-> SubSeq(s, c[k - 1] + 1, c[k] - 1)]
    <2> HIDE DEF Begins
    <2>1. split(s, count) = [k \in Begins(c) |-> SubSeq(s, c[k - 1] + 1, c[k] - 1)]
      BY <1>1, SplitCuts DEF Begins
    <2>2. QED BY <1>8, <2>1
  <1>11. ASSUME NEW k \in 1 .. m
         PROVE  SubSeq(s, c[k - 1] + 1, c[k] - 1) \in Seq(L) /\ c[k - 1] <= Len(s)
    <2>1. k \in 1 .. count /\ k - 1 \in 0 .. count /\ k \in 0 .. count /\ c[k - 1] <= Len(s)
      <3>1. k \in Begins(c)
        BY <1>8
      <3>2. QED BY <3>1
    <2>2. c[k - 1] \in 0 .. Len(s) /\ c[k] \in 0 .. Len(s) + 1 /\ c[k] > c[k - 1]
      <3>1. c[k - 1] \in 0 .. Len(s) + 1 /\ c[k] \in 0 .. Len(s) + 1
        BY <1>3, <2>1
      <3>2. c[k] > c[k - 1]
        BY <1>2, <2>1, <3>1, NextCutIs
      <3>3. QED BY <2>1, <3>1, <3>2
    <2>3. PICK a \in 1 .. Len(s) + 1 : a = c[k - 1] + 1
      BY <2>2
    <2>4. PICK b \in 0 .. Len(s) : b = c[k] - 1
      BY <2>2
    <2>5. SubSeq(s, a, b) \in Seq(L)
      BY Part
    <2>6. QED BY <2>1, <2>3, <2>4, <2>5
  <1>12. PICK parts : parts = split(s, count)
    OBVIOUS
  <1>13. parts \in Seq(Seq(L)) /\ Len(parts) = m
         /\ \A k \in 1 .. m : parts[k] = SubSeq(s, c[k - 1] + 1, c[k] - 1)
    <2>1. PICK S : S = Seq(L)
      OBVIOUS
    <2>2. \A k \in 1 .. m : parts[k] = SubSeq(s, c[k - 1] + 1, c[k] - 1) /\ parts[k] \in S
      BY <1>10, <1>11, <1>12, <2>1
    <2>3. DOMAIN parts = 1 .. m /\ parts = [k \in 1 .. m |-> parts[k]]
      BY <1>10, <1>12
    <2>4. parts \in Seq(S) /\ Len(parts) = m
      BY <1>7, <2>2, <2>3
    <2>5. QED BY <2>1, <2>2, <2>4
  <1>14. QED BY <1>1, <1>7, <1>9, <1>11, <1>12, <1>13

LEMMA FieldsType ==
    ASSUME NEW L, NEW s \in Seq(L), splitCheck(s) # <<>>
    PROVE  /\ \A i \in 1 .. 5 : splitCheck(s)[i] \in Seq(L)
           /\ \A i \in 1 .. 3 : splitCheck(s)[i] # <<>>
  <1>1. PICK f \in Seq(Seq(L)) : f = split(s, 5)
    BY SplitIs
  <1> DEFINE field == [i \in DOMAIN f |-> trim(f[i])]
  <1>2. splitCheck(s) = IF Len(f) # 5 \/ <<>> \in {field[1], field[2], field[3]} THEN <<>> ELSE field
    BY <1>1 DEF splitCheck
  <1>3. Len(f) = 5 /\ <<>> \notin {field[1], field[2], field[3]} /\ splitCheck(s) = field
    BY <1>2
  <1>4. \A i \in 1 .. 5 : f[i] \in Seq(L) /\ field[i] = trim(f[i])
    <2>1. PICK S : S = Seq(L)
      OBVIOUS
    <2>2. f \in Seq(S) /\ Len(f) = 5
      BY <1>3, <2>1
    <2>3. DOMAIN f = 1 .. 5 /\ \A i \in 1 .. 5 : f[i] \in S
      <3>1. \A i \in 1 .. Len(f) : f[i] \in S
        BY <2>2, Member, Zenon
      <3>2. DOMAIN f = 1 .. Len(f)
        OBVIOUS
      <3>3. QED BY <2>2, <3>1, <3>2
    <2>4. \A i \in DOMAIN f : field[i] = trim(f[i])
      OBVIOUS
    <2>5. QED BY <2>1, <2>3, <2>4, Zenon
  <1>5. \A i \in 1 .. 5 : field[i] \in Seq(L)
    BY <1>4, TrimType
  <1>6. \A i \in 1 .. 3 : field[i] # <<>>
    <2> HIDE DEF field
    <2>1. \A i \in 1 .. 3 : i = 1 \/ i = 2 \/ i = 3
      OBVIOUS
    <2>2. QED BY <1>3, <2>1
  <1>7. QED BY <1>3, <1>5, <1>6

-----------------------------------------------------------------------------
(* The fields that the text of an entry was made of are those it is split into. *)

LEMMA NextCutExact ==
    ASSUME NEW L, NEW s \in Seq(L), NEW p \in 0 .. Len(s), NEW q \in p + 1 .. Len(s) + 1,
           q <= Len(s) => s[q] = Comma, \A i \in p + 1 .. q - 1 : s[i] # Comma
    PROVE  NextCut(s, p) = q
  <1>1. Len(s) \in Nat /\ p \in Nat /\ q \in Nat /\ p \in 0 .. Len(s) + 1 /\ p <= Len(s)
    OBVIOUS
  <1>2. PICK c : c = NextCut(s, p)
    OBVIOUS
  <1>3. /\ c \in 0 .. Len(s) + 1 /\ c > p /\ (c <= Len(s) => s[c] = Comma)
        /\ \A i \in p + 1 .. c - 1 : s[i] # Comma
    BY <1>1, <1>2, NextCutIs
  <1>4. ~(c < q)
    <2>1. SUFFICES ASSUME c < q PROVE FALSE
      OBVIOUS
    <2>2. c \in p + 1 .. q - 1 /\ c <= Len(s)
      BY <1>1, <1>3, <2>1
    <2>3. QED BY <1>3, <2>2
  <1>5. ~(q < c)
    <2>1. SUFFICES ASSUME q < c PROVE FALSE
      OBVIOUS
    <2>2. q \in p + 1 .. c - 1 /\ q <= Len(s)
      BY <1>1, <1>3, <2>1
    <2>3. QED BY <1>3, <2>2
  <1>6. QED BY <1>1, <1>2, <1>3, <1>4, <1>5

Ends(fields) ==
    CHOOSE end : end = [k \in 0 .. Len(fields) |->
                          IF k = 0 THEN 0 ELSE end[k - 1] + Len(fields[k]) + 1]

Divides(end, text, fields) ==
    /\ end[Len(fields)] = Len(text) + 1
    /\ \A k \in 1 .. Len(fields) :
         /\ fields[k] = SubSeq(text, end[k - 1] + 1, end[k] - 1)
         /\ Places(fields[k], Comma) = {}
         /\ k < Len(fields) => text[end[k]] = Comma

LEMMA FieldEnds ==
    ASSUME NEW text, NEW fields, ConsistsOf(text, fields)
    PROVE  Divides(Ends(fields), text, fields)
  BY Zenon DEF ConsistsOf, Ends, Divides

LEMMA EndsAre ==
    ASSUME NEW L, NEW fields \in Seq(Seq(L))
    PROVE  /\ Ends(fields)[0] = 0
           /\ \A k \in 0 .. Len(fields) : Ends(fields)[k] \in Nat
           /\ \A k \in 1 .. Len(fields) :
                Ends(fields)[k] = Ends(fields)[k - 1] + Len(fields[k]) + 1
  <1>1. PICK n \in Nat : n = Len(fields)
    OBVIOUS
  <1>2. \A k \in 1 .. n : Len(fields[k]) \in Nat
    <2>1. \A k \in 1 .. Len(fields) : fields[k] \in Seq(L)
      BY Member
    <2>2. QED BY <1>1, <2>1
  <1> DEFINE turn == [k \in 1 .. n |-> [p \in Nat |-> p + Len(fields[k]) + 1]]
  <1>3. \A k \in 1 .. n : \A p \in Nat : turn[k][p] \in Nat /\ turn[k][p] = p + Len(fields[k]) + 1
    BY <1>2
  <1>4. PICK g : IsRun(g, Nat, 0, n, turn)
    <2> HIDE DEF turn
    <2>1. 0 \in Nat
      OBVIOUS
    <2>2. QED BY <1>3, <2>1, RecursionExists, Zenon
  <1> HIDE DEF turn
  <1>5. /\ g \in [0 .. n -> Nat] /\ g[0] = 0
        /\ \A k \in 1 .. n : g[k] = g[k - 1] + Len(fields[k]) + 1
    <2>1. g \in [0 .. n -> Nat] /\ g[0] = 0 /\ \A k \in 1 .. n : g[k] = turn[k][g[k - 1]]
      BY <1>4 DEF IsRun
    <2>2. \A k \in 1 .. n : g[k - 1] \in Nat
      BY <2>1
    <2>3. QED BY <1>3, <2>1, <2>2
  <1>6. g = [k \in 0 .. Len(fields) |-> IF k = 0 THEN 0 ELSE g[k - 1] + Len(fields[k]) + 1]
    BY <1>1, <1>5
  <1>7. PICK e : e = Ends(fields)
    OBVIOUS
  <1>8. e = [k \in 0 .. Len(fields) |-> IF k = 0 THEN 0 ELSE e[k - 1] + Len(fields[k]) + 1]
    BY <1>6, <1>7 DEF Ends
  <1>9. e[0] = 0 /\ \A k \in 1 .. n : e[k] = e[k - 1] + Len(fields[k]) + 1
    <2>1. ASSUME NEW k \in 0 .. n
          PROVE  e[k] = IF k = 0 THEN 0 ELSE e[k - 1] + Len(fields[k]) + 1
      BY <1>1, <1>8, Zenon
    <2>2. \A k \in 1 .. n : k \in 0 .. n /\ k # 0
      OBVIOUS
    <2>3. 0 \in 0 .. n
      OBVIOUS
    <2>4. QED BY <2>1, <2>2, <2>3, Zenon
  <1> DEFINE Good == {k \in Nat : k <= n => e[k] \in Nat}
  <1>10. 0 \in Good
    BY <1>9
  <1>11. ASSUME NEW k \in Nat, k \in Good PROVE k + 1 \in Good
    <2> SUFFICES ASSUME k + 1 <= n PROVE e[k + 1] \in Nat
      OBVIOUS
    <2>1. k + 1 \in 1 .. n /\ (k + 1) - 1 = k /\ e[k] \in Nat
      BY <1>11
    <2>2. PICK len \in Nat : len = Len(fields[k + 1])
      BY <1>2, <2>1
    <2>3. e[k + 1] = e[k] + len + 1
      BY <1>9, <2>1, <2>2
    <2>4. QED BY <2>1, <2>3
  <1>12. Nat \subseteq Good
    <2> HIDE DEF Good
    <2>1. QED BY <1>10, <1>11, Induction
  <1>13. QED BY <1>1, <1>7, <1>9, <1>12

LEMMA EndsGrow ==
    ASSUME NEW L, NEW fields \in Seq(Seq(L))
    PROVE  \A k \in 0 .. Len(fields) : \A j \in 0 .. k - 1 : Ends(fields)[j] < Ends(fields)[k]
  <1>1. PICK n \in Nat : n = Len(fields)
    OBVIOUS
  <1>2. PICK e : e = Ends(fields)
    OBVIOUS
  <1>3. \A k \in 0 .. n : e[k] \in Nat
    BY <1>1, <1>2, EndsAre
  <1>4. \A k \in 1 .. n : e[k - 1] < e[k]
    <2> SUFFICES ASSUME NEW k \in 1 .. n PROVE e[k - 1] < e[k]
      OBVIOUS
    <2>1. fields[k] \in Seq(L)
      BY <1>1, Member
    <2>2. Len(fields[k]) \in Nat /\ e[k] = e[k - 1] + Len(fields[k]) + 1
      BY <1>1, <1>2, <2>1, EndsAre
    <2>3. QED BY <1>3, <2>2
  <1> DEFINE Good == {k \in Nat : k <= n => \A j \in 0 .. k - 1 : e[j] < e[k]}
  <1>5. 0 \in Good
    OBVIOUS
  <1>6. ASSUME NEW k \in Nat, k \in Good PROVE k + 1 \in Good
    <2> SUFFICES ASSUME k + 1 <= n, NEW j \in 0 .. k PROVE e[j] < e[k + 1]
      OBVIOUS
    <2>1. e[k] < e[k + 1] /\ e[k] \in Nat /\ e[k + 1] \in Nat /\ e[j] \in Nat
      <3>1. k + 1 \in 1 .. n /\ (k + 1) - 1 = k /\ k \in 0 .. n /\ k + 1 \in 0 .. n /\ j \in 0 .. n
        BY <1>1
      <3>2. QED BY <1>3, <1>4, <3>1
    <2>2. j = k \/ e[j] < e[k]
      BY <1>6
    <2>3. QED BY <2>1, <2>2
  <1>7. Nat \subseteq Good
    <2> HIDE DEF Good
    <2>1. QED BY <1>5, <1>6, Induction
  <1>8. QED BY <1>1, <1>2, <1>7

LEMMA CutsAreEnds ==
    ASSUME NEW L, NEW text \in Seq(L), NEW fields \in Seq(Seq(L)), fields # <<>>,
           ConsistsOf(text, fields), NEW count \in Nat
    PROVE  \A k \in 0 .. count : k <= Len(fields) => Cuts(text, count)[k] = Ends(fields)[k]
  <1>1. PICK n \in Nat : n = Len(fields)
    OBVIOUS
  <1>2. PICK e : e = Ends(fields)
    OBVIOUS
  <1>3. PICK c : c = Cuts(text, count)
    OBVIOUS
  <1>4. /\ e[0] = 0 /\ e[n] = Len(text) + 1 /\ \A k \in 0 .. n : e[k] \in Nat
        /\ \A k \in 0 .. n : \A j \in 0 .. k - 1 : e[j] < e[k]
    BY <1>1, <1>2, EndsAre, EndsGrow, FieldEnds DEF Divides
  <1>5. c[0] = 0 /\ \A k \in 1 .. count : c[k] = NextCut(text, c[k - 1])
    BY <1>3, CutsAre
  <1> DEFINE Good == {k \in Nat : k <= count /\ k <= n => c[k] = e[k]}
  <1>6. 0 \in Good
    BY <1>4, <1>5
  <1>7. ASSUME NEW k \in Nat, k \in Good PROVE k + 1 \in Good
    <2> SUFFICES ASSUME k + 1 <= count, k + 1 <= n PROVE c[k + 1] = e[k + 1]
      OBVIOUS
    <2>1. /\ k + 1 \in 1 .. count /\ k + 1 \in 1 .. n /\ (k + 1) - 1 = k /\ k \in 0 .. n
          /\ k \in 0 .. (k + 1) - 1 /\ k + 1 \in 0 .. n /\ c[k] = e[k]
      BY <1>7
    <2>2. c[k + 1] = NextCut(text, e[k])
      BY <1>5, <2>1
    <2>3. PICK p \in Nat : p = e[k]
      BY <1>4, <2>1
    <2>4. PICK q \in Nat : q = e[k + 1]
      BY <1>4, <2>1
    <2>5. p < q
      BY <1>4, <2>1, <2>3, <2>4
    <2>6. /\ k + 1 = n => q = Len(text) + 1
          /\ k + 1 < n => q < Len(text) + 1
      <3>1. k + 1 < n => n \in 0 .. n /\ k + 1 \in 0 .. n - 1
        BY <2>1
      <3>2. QED BY <1>4, <2>4, <3>1
    <2>7. /\ fields[k + 1] = SubSeq(text, p + 1, q - 1) /\ Places(fields[k + 1], Comma) = {}
          /\ k + 1 < n => text[q] = Comma
      <3>1. Divides(e, text, fields)
        BY <1>2, FieldEnds
      <3>2. PICK j \in 1 .. Len(fields) : j = k + 1 /\ e[j - 1] = p /\ e[j] = q
        BY <1>1, <2>1, <2>3, <2>4
      <3>3. /\ fields[j] = SubSeq(text, p + 1, q - 1) /\ Places(fields[j], Comma) = {}
            /\ j < Len(fields) => text[q] = Comma
        BY <3>1, <3>2 DEF Divides
      <3>4. QED BY <1>1, <3>2, <3>3
    <2>8. Len(text) \in Nat /\ p \in 0 .. Len(text) /\ q \in p + 1 .. Len(text) + 1
          /\ (q <= Len(text) => text[q] = Comma)
      BY <2>1, <2>5, <2>6, <2>7
    <2>9. ASSUME NEW i \in p + 1 .. q - 1 PROVE text[i] # Comma
      <3>1. i - p \in 1 .. (q - 1) - p /\ p + (i - p) = i
        BY <2>8
      <3>2. PICK part \in Seq(L) : /\ part = SubSeq(text, p + 1, q - 1)
                                   /\ DOMAIN part = 1 .. (q - 1) - p
                                   /\ \A j \in 1 .. (q - 1) - p : part[j] = text[p + j]
        <4>1. /\ SubSeq(text, p + 1, q - 1) \in Seq(L)
              /\ DOMAIN SubSeq(text, p + 1, q - 1) = 1 .. (q - 1) - p
              /\ \A j \in 1 .. (q - 1) - p : SubSeq(text, p + 1, q - 1)[j] = text[p + j]
          BY <2>8
        <4>2. QED BY <4>1, Zenon
      <3>3. Places(part, Comma) = {}
        BY <2>7, <3>2
      <3>4. part[i - p] # Comma
        BY <3>1, <3>2, <3>3 DEF Places
      <3>5. QED BY <3>1, <3>2, <3>4
    <2>10. NextCut(text, p) = q
      BY <2>8, <2>9, NextCutExact
    <2>11. QED BY <2>2, <2>3, <2>4, <2>10
  <1>8. Nat \subseteq Good
    <2> HIDE DEF Good
    <2>1. QED BY <1>6, <1>7, Induction
  <1>9. QED BY <1>1, <1>2, <1>3, <1>8

FirstOf(parts, fields, count) ==
    /\ Len(parts) = IF Len(fields) < count THEN Len(fields) ELSE count
    /\ \A k \in 1 .. Len(parts) : parts[k] = fields[k]

LEMMA SplitFields ==
    ASSUME NEW L, NEW text \in Seq(L), NEW fields \in Seq(Seq(L)), fields # <<>>,
           ConsistsOf(text, fields), NEW count \in Nat \ {0}
    PROVE  FirstOf(split(text, count), fields, count)
  <1> DEFINE e == Ends(fields)  c == Cuts(text, count)  parts == split(text, count)
  <1>1. PICK n \in Nat : n = Len(fields) /\ n > 0
    OBVIOUS
  <1>2. parts \in Seq(Seq(L))
    BY SplitIs
  <1>3. PICK m \in 1 .. count :
          /\ Len(parts) = m
          /\ \A k \in 1 .. m : c[k - 1] <= Len(text) /\ parts[k] = SubSeq(text, c[k - 1] + 1, c[k] - 1)
          /\ m = count \/ c[m] = Len(text) + 1
    BY SplitIs, Zenon
  <1>4. /\ e[Len(fields)] = Len(text) + 1
        /\ \A k \in 1 .. Len(fields) : fields[k] = SubSeq(text, e[k - 1] + 1, e[k] - 1)
    BY FieldEnds DEF Divides
  <1>5. \A k \in 0 .. count : k <= n => c[k] = e[k]
    BY <1>1, CutsAreEnds
  <1>6. /\ e[n] = Len(text) + 1 /\ \A k \in 0 .. n : e[k] \in Nat
        /\ \A k \in 0 .. n : \A j \in 0 .. k - 1 : e[j] < e[k]
    BY <1>1, <1>4, EndsAre, EndsGrow
  <1> HIDE DEF e, c, parts
  <1>8. m <= n
    <2>1. SUFFICES ASSUME n < m PROVE FALSE
      BY <1>1
    <2>2. n + 1 \in 1 .. m /\ (n + 1) - 1 = n /\ n \in 0 .. count
      BY <1>1, <2>1
    <2>3. c[n] <= Len(text) /\ c[n] = Len(text) + 1
      <3>1. c[(n + 1) - 1] <= Len(text)
        BY <1>3, <2>2, Zenon
      <3>2. n \in 0 .. n /\ n <= n /\ n \in Nat
        OBVIOUS
      <3>3. c[n] = e[n] /\ e[n] = Len(text) + 1
        BY <1>5, <1>6, <2>2, <3>2, Zenon
      <3>4. QED BY <2>2, <3>1, <3>3, Zenon
    <2>4. QED BY <1>6, <2>2, <2>3
  <1>9. m = n \/ m = count
    <2>1. SUFFICES ASSUME m < n, m # count PROVE FALSE
      BY <1>8
    <2>2. m \in 0 .. count /\ m \in 0 .. n - 1 /\ n \in 0 .. n /\ m \in 0 .. n
      BY <1>1, <2>1
    <2>3. e[m] < e[n] /\ e[m] = Len(text) + 1
      BY <1>3, <1>5, <1>6, <2>1, <2>2
    <2>4. QED BY <1>6, <2>2, <2>3
  <1>10. m = IF n < count THEN n ELSE count
    BY <1>8, <1>9
  <1>11. ASSUME NEW k \in 1 .. m PROVE parts[k] = fields[k]
    <2>1. k \in 0 .. count /\ k - 1 \in 0 .. count /\ k <= n /\ k - 1 <= n /\ k \in 1 .. n
      BY <1>8
    <2>2. c[k] = e[k] /\ c[k - 1] = e[k - 1]
      BY <1>5, <2>1
    <2>3. fields[k] = SubSeq(text, e[k - 1] + 1, e[k] - 1)
      BY <1>1, <1>4, <2>1
    <2>4. QED BY <1>3, <2>2, <2>3
  <1>12. QED BY <1>1, <1>3, <1>10, <1>11 DEF parts, FirstOf

(* What splitCheck() makes of an entry. *)
EntryOf(text, e) ==
    /\ text \in Seq(Lexemes) /\ e.fields \in Seq(Seq(Lexemes)) \ {<<>>}
    /\ ConsistsOf(text, e.fields)
    /\ {e.name, e.format, e.path} \subseteq Seq(Lexemes)
    /\ Len(e.fields) >= 5 => /\ Padded(e.fields[1], e.name)
                             /\ Padded(e.fields[2], e.format)
                             /\ Padded(e.fields[3], e.path)

LEMMA CheckIs ==
    ASSUME NEW text, NEW e, EntryOf(text, e)
    PROVE  /\ splitCheck(text) # <<>> <=> WellFormed(e)
           /\ WellFormed(e) =>
                /\ splitCheck(text)[1] = e.name /\ splitCheck(text)[2] = e.format
                /\ splitCheck(text)[3] = e.path
                /\ splitCheck(text)[4] = trim(e.fields[4])
                /\ splitCheck(text)[5] = trim(e.fields[5])
  <1>1. PICK S : S = Seq(Lexemes)
    OBVIOUS
  <1>2. PICK fields \in Seq(Seq(Lexemes)) : fields = e.fields /\ fields # <<>>
    BY DEF EntryOf
  <1>3. PICK f \in Seq(Seq(Lexemes)) : f = split(text, 5)
    BY SplitIs DEF EntryOf
  <1>4. /\ Len(f) = IF Len(fields) < 5 THEN Len(fields) ELSE 5
        /\ \A k \in 1 .. Len(f) : f[k] = fields[k]
    <2>1. text \in Seq(Lexemes) /\ ConsistsOf(text, fields) /\ 5 \in Nat \ {0}
      BY <1>2 DEF EntryOf
    <2>2. FirstOf(f, fields, 5)
      BY <1>2, <1>3, <2>1, SplitFields
    <2>3. QED BY <2>2 DEF FirstOf
  <1> DEFINE field == [i \in DOMAIN f |-> trim(f[i])]
  <1>5. splitCheck(text) = IF Len(f) # 5 \/ <<>> \in {field[1], field[2], field[3]} THEN <<>> ELSE field
    BY <1>3 DEF splitCheck
  <1>6. CASE Len(fields) < 5
    <2>1. Len(f) # 5 /\ ~(Len(fields) >= 5)
      BY <1>4, <1>6
    <2>2. splitCheck(text) = <<>>
      BY <1>5, <2>1
    <2>3. QED BY <1>2, <2>1, <2>2 DEF WellFormed
  <1>7. CASE ~(Len(fields) < 5)
    <2>1. Len(f) = 5 /\ DOMAIN f = 1 .. 5 /\ Len(fields) >= 5
      BY <1>4, <1>7
    <2>2. \A k \in 1 .. 5 : f[k] = fields[k] /\ field[k] = trim(fields[k])
      BY <1>4, <2>1
    <2>3. \A k \in 1 .. 3 : fields[k] \in Seq(Lexemes)
      BY <2>1, Member
    <2>4. field[1] = e.name /\ field[2] = e.format /\ field[3] = e.path
      <3>1. \A k \in 1 .. 3 : k \in 1 .. 5
        OBVIOUS
      <3>2. /\ Padded(fields[1], e.name) /\ Padded(fields[2], e.format) /\ Padded(fields[3], e.path)
            /\ e.name \in Seq(Lexemes) /\ e.format \in Seq(Lexemes) /\ e.path \in Seq(Lexemes)
        BY <1>2, <2>1 DEF EntryOf
      <3>3. trim(fields[1]) = e.name /\ trim(fields[2]) = e.format /\ trim(fields[3]) = e.path
        BY <2>3, <3>2, TrimIs, SMTT(30)
      <3>4. QED BY <2>2, <3>3
    <2>5. field # <<>>
      <3>1. 1 \in DOMAIN field
        BY <2>1
      <3>2. 1 \notin DOMAIN <<>>
        OBVIOUS
      <3>3. QED BY <3>1, <3>2, Zenon
    <2>6. field[4] = trim(fields[4]) /\ field[5] = trim(fields[5])
      BY <2>2
    <2> HIDE DEF field
    <2>7. QED BY <1>2, <1>5, <2>1, <2>4, <2>5, <2>6 DEF WellFormed
  <1>8. QED BY <1>6, <1>7

(* An entry is empty if its text is. *)
LEMMA EmptyIs ==
    ASSUME NEW text, NEW e, EntryOf(text, e)
    PROVE  text = <<>> <=> e.fields = << <<>> >>
  <1>1. PICK fields \in Seq(Seq(Lexemes)) : fields = e.fields /\ fields # <<>>
    BY DEF EntryOf
  <1>2. PICK n \in Nat : n = Len(fields) /\ n > 0
    BY <1>1
  <1>3. PICK end : end = Ends(fields)
    OBVIOUS
  <1>4. /\ end[0] = 0 /\ end[n] = Len(text) + 1 /\ \A k \in 0 .. n : end[k] \in Nat
        /\ \A k \in 0 .. n : \A j \in 0 .. k - 1 : end[j] < end[k]
        /\ \A k \in 1 .. n : end[k] = end[k - 1] + Len(fields[k]) + 1
    BY <1>1, <1>2, <1>3, EndsAre, EndsGrow, FieldEnds DEF EntryOf, Divides
  <1>5. text \in Seq(Lexemes) /\ Len(text) \in Nat /\ (text = <<>> <=> Len(text) = 0)
    BY DEF EntryOf
  <1>6. /\ fields[1] \in Seq(Lexemes) /\ Len(fields[1]) \in Nat
        /\ fields[1] = <<>> <=> Len(fields[1]) = 0
    <2>1. fields[1] \in Seq(Lexemes)
      BY <1>2, Member
    <2>2. QED BY <2>1
  <1>7. end[1] = Len(fields[1]) + 1
    <2>1. 1 \in 1 .. n /\ 1 - 1 = 0
      BY <1>2
    <2>2. end[1] = end[0] + Len(fields[1]) + 1
      BY <1>4, <2>1
    <2>3. QED BY <1>4, <1>6, <2>2
  <1>8. n = 1 \/ end[1] < end[n]
    <2>1. n # 1 => n \in 0 .. n /\ 1 \in 0 .. n - 1
      BY <1>2
    <2>2. QED BY <1>4, <2>1
  <1>9. text = <<>> <=> n = 1 /\ fields[1] = <<>>
    <2>1. 1 \in 0 .. n
      BY <1>2
    <2>2. end[1] \in Nat
      BY <1>4, <2>1
    <2>3. QED BY <1>4, <1>5, <1>6, <1>7, <1>8, <2>2
  <1>10. n = 1 /\ fields[1] = <<>> <=> fields = << <<>> >>
    BY <1>2
  <1>11. QED BY <1>1, <1>9, <1>10

-----------------------------------------------------------------------------
LEMMA PathStep ==
    ASSUME PathInv, [Next]_vars
    PROVE  PathInv'
  <1>1. CASE UNCHANGED vars
    BY <1>1, OnlyPath DEF vars
  <1>2. CASE ResolveStep
    BY <1>2, ResolveInv
  <1>3. CASE FindFile
    <2>1. UNCHANGED <<environment, buffer>> /\ step' = "begin"
      BY <1>3 DEF FindFile, toRealPath
    <2>2. QED BY <2>1, LeavesBuffer
  <1>4. CASE Next /\ UNCHANGED pathVars
    BY <1>4, OnlyPath
  <1>5. Next => ResolveStep \/ FindFile \/ UNCHANGED pathVars
    BY DEF Next, ConfRead, SkipEmpty, Reject, AddInstance, Configured
  <1>6. QED BY <1>1, <1>2, <1>3, <1>4, <1>5

(* Control is where it can be, and the path is described by the offsets of its
   components. *)
THEOREM TypeCorrect == Spec => []TypeOK
  <1> DEFINE Inv == /\ PathInv
                    /\ phase \in {"reading", "configuring", "resolving", "done", "exited"}
                    /\ step \in {"begin", "resolve", "failed"} => phase = "resolving"
  <1>1. Init => Inv
    BY PathInitInv DEF Init, PathInit
  <1>2. Inv /\ [Next]_vars => Inv'
    <2> SUFFICES ASSUME Inv, [Next]_vars PROVE Inv'
      OBVIOUS
    <2>1. PathInv'
      BY PathStep
    <2>2. CASE UNCHANGED vars
      BY <2>1, <2>2 DEF vars, pathVars, initVars
    <2>3. CASE ResolveStep /\ UNCHANGED <<confVars, initVars>>
      <3>1. step \in {"begin", "resolve"}
        BY <2>3 DEF ResolveStep, NoMemory, BeginAtRoot, BeginAtHome, BeginAtCwd, Skip, BackUp,
                    AddComponent, NoRoom, Finish, NextIs
      <3>2. QED BY <2>1, <2>3, <3>1 DEF initVars
    <2>4. CASE FindFile
      BY <2>1, <2>4 DEF FindFile
    <2>5. CASE ReadLine /\ UNCHANGED <<pathVars, initVars>>
      BY <2>1, <2>5 DEF pathVars, initVars
    <2>6. CASE ConfRead \/ SkipEmpty \/ Reject \/ AddInstance \/ Configured
      BY <2>1, <2>6 DEF ConfRead, SkipEmpty, Reject, AddInstance, Configured, pathVars
    <2>7. QED BY <2>2, <2>3, <2>4, <2>5, <2>6 DEF Next
  <1>3. Inv => TypeOK
    <2> SUFFICES ASSUME Inv PROVE TypeOK
      OBVIOUS
    <2>1. DOMAIN rpath \subseteq 0 .. dest - 1 /\ \A o \in DOMAIN rpath : rpath[o] \in Tokens
      BY DEF PathInv, Unused, Tidy
    <2>2. QED BY <2>1 DEF TypeOK, PathInv
  <1>4. QED BY <1>1, <1>2, <1>3, PTL DEF Spec

LEMMA PathAlways == Spec => []PathInv
  <1>1. Init => PathInv
    BY PathInitInv DEF Init
  <1>2. PathInv /\ [Next]_vars => PathInv'
    BY PathStep
  <1>3. QED BY <1>1, <1>2, PTL DEF Spec

(* However long the names, the path and its NUL stay in the buffer of _realpath(), and
   no search for a slash leaves it. *)
THEOREM StaysInBuffer == Spec => []InBuffer
  <1>1. PathInv => InBuffer
    BY DEF PathInv, Fits, InBuffer
  <1>2. QED BY <1>1, PathAlways, PTL

(* However the name of a file is spelled, its path has no ".", "..", double slashes
   or slash at its end. *)
THEOREM PathsAreCanonical == Spec => []Canonical
  <1>1. PathInv => Canonical
    BY DEF PathInv, Fits, Canonical
  <1>2. QED BY <1>1, PathAlways, PTL
-----------------------------------------------------------------------------
(* What init() has read, and what it resolves. *)

Words == Lexemes \cup Tokens

StartInv ==
    /\ PathInv /\ ConfInv
    /\ todo \in Seq(Seq(Lexemes))
    /\ phase = "resolving" => todo # <<>>
    /\ PathMeans(Words)

LEMMA ValuesType ==
    ASSUME ConfInv
    PROVE  /\ \A key : getStrings(key) \in Seq(Seq(Lexemes))
           /\ \A key : getString(key) \in Seq(Lexemes)
  <1>1. PICK S : S = Seq(Lexemes)
    OBVIOUS
  <1>2. ASSUME NEW key PROVE getStrings(key) \in Seq(S)
    BY <1>1 DEF ConfInv, getStrings
  <1>3. ASSUME NEW key PROVE getString(key) \in S
    <2>1. <<>> \in S
      BY <1>1
    <2>2. getStrings(key) # <<>> => Head(getStrings(key)) \in S
      BY <1>2
    <2>3. QED BY <2>1, <2>2 DEF getString
  <1>4. QED BY <1>1, <1>2, <1>3

LEMMA LogNameIs ==
    ASSUME NEW n \in Seq(Lexemes), n # <<>>
    PROVE  /\ LogName(n) \in Seq(Words) /\ LogName(n) # <<>>
           /\ Last(LogName(n)) \in Names
  <1>1. PICK l \in Lexemes : l = Last(n)
    BY DEF Last
  <1>2. PICK c \in Names : c = LogOf[l]
    BY LexemesAssumption
  <1>3. PICK T : T = Words
    OBVIOUS
  <1>4. c \in T /\ n \in Seq(T) /\ Front(n) \in Seq(T)
    BY <1>3 DEF Words, Tokens, Front
  <1>5. PICK p \in Seq(T) : p = IF Last(n) = Slash THEN n ELSE Front(n)
    BY <1>4
  <1>6. p \o <<c>> \in Seq(T) /\ Len(p \o <<c>>) = Len(p) + 1 /\ (p \o <<c>>)[Len(p) + 1] = c
    BY <1>4
  <1>7. LogName(n) = p \o <<c>>
    BY <1>1, <1>2, <1>5 DEF LogName
  <1>8. Len(p) \in Nat
    OBVIOUS
  <1>9. QED BY <1>3, <1>6, <1>7, <1>8 DEF Last

(* What toRealPath() is called with. *)
LEMMA FileArgs ==
    ASSUME StartInv, todo # <<>>, Entry # <<>>
    PROVE  Args([old |-> Entry[3], prefix |-> OrElse(getString(PrefixKey), <<".", Slash>>),
                 default |-> LogName(Entry[1])], Words)
  <1>1. PICK entry \in Seq(Lexemes) : entry = Head(todo)
    <2>1. PICK S : S = Seq(Lexemes)
      OBVIOUS
    <2>2. Head(todo) \in S
      BY <2>1 DEF StartInv
    <2>3. QED BY <2>1, <2>2
  <1>2. PICK n \in Seq(Lexemes) : n = Entry[1] /\ n # <<>>
    BY <1>1, FieldsType DEF Entry
  <1>3. PICK path \in Seq(Lexemes) : path = Entry[3] /\ path # <<>>
    BY <1>1, FieldsType DEF Entry
  <1>4. OrElse(getString(PrefixKey), <<".", Slash>>) \in Seq(Words)
    <2>1. PICK T : T = Words
      OBVIOUS
    <2>2. "." \in T /\ Slash \in T /\ Lexemes \subseteq T
      BY <2>1 DEF Words, Tokens
    <2>3. getString(PrefixKey) \in Seq(T) /\ <<".", Slash>> \in Seq(T)
      <3>1. PICK p \in Seq(Lexemes) : p = getString(PrefixKey)
        BY ValuesType DEF StartInv
      <3>2. p \in Seq(T)
        BY <2>2
      <3>3. QED BY <2>2, <3>1, <3>2
    <2>4. QED BY <2>1, <2>3 DEF OrElse
  <1>5. path \in Seq(Words)
    BY DEF Words
  <1>6. LogName(n) \in Seq(Words) /\ LogName(n) # <<>> /\ Last(LogName(n)) # Slash
    BY <1>2, LogNameIs, NamesAssumption
  <1>7. PICK default : default = LogName(n)
    OBVIOUS
  <1>8. PICK prefix : prefix = OrElse(getString(PrefixKey), <<".", Slash>>)
    OBVIOUS
  <1>9. Args([old |-> path, prefix |-> prefix, default |-> default], Words)
    BY <1>3, <1>4, <1>5, <1>6, <1>7, <1>8 DEF Args
  <1>10. QED BY <1>2, <1>3, <1>7, <1>8, <1>9

LEMMA StartInitInv == Init => StartInv
  <1> SUFFICES ASSUME Init PROVE StartInv
    OBVIOUS
  <1>1. PathInv /\ ConfInv
    BY PathInitInv, ConfInitInv DEF Init
  <1>2. step = "idle" /\ todo = <<>> /\ phase = "reading"
    BY DEF Init, PathInit
  <1>3. PathMeans(Words)
    BY <1>2 DEF PathMeans
  <1>4. QED BY <1>1, <1>2, <1>3 DEF StartInv

LEMMA SameConf ==
    ASSUME ConfInv, UNCHANGED confVars
    PROVE  ConfInv'
  BY DEF ConfInv, HasRead, getStrings, confVars

LEMMA StartStep ==
    ASSUME StartInv, [Next]_vars
    PROVE  StartInv'
  <1>1. PathInv'
    BY PathStep DEF StartInv
  <1>2. /\ PathInv /\ ConfInv /\ PathMeans(Words) /\ todo \in Seq(Seq(Lexemes))
        /\ phase = "resolving" => todo # <<>>
    BY DEF StartInv
  <1>3. CASE UNCHANGED vars
    <2>1. UNCHANGED <<pathVars, confVars, todo, phase>>
      BY <1>3 DEF vars, initVars
    <2>2. QED BY <1>1, <1>2, <2>1, SameConf, LeavesMeaning DEF StartInv
  <1>4. CASE ReadLine /\ UNCHANGED <<pathVars, initVars>>
    <2>1. UNCHANGED <<pathVars, todo, phase>>
      BY <1>4 DEF initVars
    <2>2. QED BY <1>1, <1>2, <1>4, <2>1, ReadLineInv, LeavesMeaning DEF StartInv
  <1>5. CASE ResolveStep /\ UNCHANGED <<confVars, initVars>>
    <2>1. UNCHANGED <<confVars, todo, phase>>
      BY <1>5 DEF initVars
    <2>2. Tokens \subseteq Words
      BY DEF Words
    <2>3. PathMeans(Words)'
      BY <1>2, <1>5, <2>2, ResolveMeans
    <2>4. QED BY <1>1, <1>2, <2>1, <2>3, SameConf DEF StartInv
  <1>6. CASE FindFile
    <2>1. UNCHANGED confVars /\ todo' = todo /\ todo # <<>> /\ Entry # <<>>
      BY <1>6 DEF FindFile, Accepted
    <2>2. PICK a : /\ toRealPath(a) /\ a = [old |-> Entry[3],
                                             prefix |-> OrElse(getString(PrefixKey), <<".", Slash>>),
                                             default |-> LogName(Entry[1])]
      BY <1>6 DEF FindFile
    <2>3. PathMeans(Words)'
      BY <2>1, <2>2, FileArgs, CallMeans
    <2>4. QED BY <1>1, <1>2, <2>1, <2>3, SameConf DEF StartInv
  <1>7. CASE ConfRead
    <2>1. UNCHANGED confVars /\ UNCHANGED pathVars /\ todo' = getStrings(InstanceKey)
          /\ phase' = "configuring"
      BY <1>7 DEF ConfRead
    <2>2. QED BY <1>1, <1>2, <2>1, ValuesType, SameConf, LeavesMeaning DEF StartInv
  <1>8. CASE SkipEmpty \/ Reject \/ AddInstance \/ Configured
    <2>1. UNCHANGED confVars /\ UNCHANGED pathVars
      BY <1>8 DEF SkipEmpty, Reject, AddInstance, Configured
    <2>2. todo' = todo \/ (todo # <<>> /\ todo' = Tail(todo))
      BY <1>2, <1>8 DEF SkipEmpty, Reject, AddInstance, Configured
    <2>3. ConfInv' /\ PathMeans(Words)'
      BY <1>2, <2>1, SameConf, LeavesMeaning
    <2>4. todo' \in Seq(Seq(Lexemes))
      <3>1. ASSUME todo # <<>> PROVE Tail(todo) \in Seq(Seq(Lexemes))
        BY <1>2, <3>1, Parts, Zenon
      <3>2. QED BY <1>2, <2>2, <3>1
    <2>5. phase' # "resolving"
      BY <1>8 DEF SkipEmpty, Reject, AddInstance, Configured
    <2>6. QED BY <1>1, <2>3, <2>4, <2>5 DEF StartInv
  <1>9. QED BY <1>3, <1>4, <1>5, <1>6, <1>7, <1>8 DEF Next

LEMMA StartAlways == Spec => []StartInv
  <1>1. StartInv /\ [Next]_vars => StartInv'
    BY StartStep
  <1>2. QED BY <1>1, StartInitInv, PTL DEF Spec

(* When all lines have been read. *)
LEMMA AllRead ==
    ASSUME ConfInv, lines = <<>>, NEW key \in Seq(Lexemes), key # <<>>
    PROVE  getStrings(key) = ValuesOf(file.settings, key)
  <1>1. PICK n \in Nat : HasRead(n)
    BY DEF ConfInv
  <1>2. PICK settings \in Seq([key : Seq(Lexemes), value : Seq(Lexemes)]) : settings = file.settings
    BY FileIs DEF ConfInv
  <1>3. PICK all \in Seq(Seq(Lexemes)) : all = file.lines
    BY FileIs DEF ConfInv
  <1>4. n \in 0 .. Len(all) /\ SubSeq(all, n + 1, Len(all)) = <<>> /\ Len(settings) = Len(all)
    BY <1>1, <1>2, <1>3, FileIs DEF HasRead, ConfInv
  <1>5. n = Len(settings)
    BY <1>4, NothingLeft
  <1>6. QED BY <1>1, <1>2, <1>5, ValuesOfIsLast DEF HasRead

(* Whatever the lines of a configuration - with blanks and comments around the
   settings and with empty lines among them - what has been read when the last line
   has been is, for every key, the values of its settings in their order. *)
THEOREM SettingsAreRead == Spec => []ReadsSettings
  <1>1. ASSUME StartInv, lines = <<>> PROVE ReadsSettings
    <2>1. ConfInv
      BY <1>1 DEF StartInv
    <2>2. file \in Files /\ DOMAIN confMap \subseteq Seq(Lexemes) \ {<<>>}
      BY <2>1 DEF ConfInv
    <2>3. PICK settings \in Seq([key : Seq(Lexemes), value : Seq(Lexemes)]) : settings = file.settings
      BY <2>2, FileIs
    <2>4. \A key \in Seq(Lexemes) \ {<<>>} : getStrings(key) = ValuesOf(settings, key)
      BY <1>1, <2>1, <2>3, AllRead
    <2>5. \A s \in Range(settings) : s.key \in Seq(Lexemes)
      <3>1. PICK R : R = [key : Seq(Lexemes), value : Seq(Lexemes)]
        OBVIOUS
      <3>2. \A i \in DOMAIN settings : settings[i] \in R
        <4>1. DOMAIN settings = 1 .. Len(settings)
          OBVIOUS
        <4>2. QED BY <3>1, <4>1, Member
      <3>3. QED BY <3>1, <3>2 DEF Range
    <2>6. QED BY <1>1, <2>2, <2>3, <2>4, <2>5 DEF ReadsSettings
  <1>2. StartInv => ReadsSettings
    BY <1>1 DEF ReadsSettings
  <1>3. QED BY <1>2, StartAlways, PTL

(* However the name of a file, the prefix and the current directory are spelled, the
   path that is found for it leads, component by component, to where a walk along
   them leads (a hidden name apart, which the code does not put behind the prefix). *)
THEOREM PathsAreThoseMeant == Spec => []Resolved
  <1>1. ASSUME StartInv, step = "done", ~IsHidden(args.old) PROVE Components(rpath) = Meant(args)
    <2>1. Args(args, Words) /\ Components(rpath) = LeadsTo(args)
      BY <1>1 DEF StartInv, PathMeans
    <2>2. LeadsTo(args) = Meant(args)
      BY <1>1, <2>1, LeadsWhereMeant DEF Words, Tokens
    <2>3. QED BY <2>1, <2>2
  <1>2. StartInv => Resolved
    BY <1>1 DEF Resolved
  <1>3. QED BY <1>2, StartAlways, PTL
-----------------------------------------------------------------------------
(* What init() has made of the first entries. *)

EntryTexts == ValuesOf(file.settings, InstanceKey)
Handled(n) == {k \in Written : k <= n}
InstanceOf(k) == instances[file.entries[k].name]

ResolvedPath(f) ==
    /\ f = [o \in DOMAIN f |-> f[o]]
    /\ \E end \in Nat : Tidy(f, end) /\ (end > 1 => end - 1 \notin Slashes(f))

IsAsWritten(k, e) ==
    /\ WellFormed(e) /\ HasLevel(InstanceOf(k), e) /\ InstanceOf(k).format = e.format
    /\ ResolvedPath(InstanceOf(k).file)
    /\ ~IsHidden(e.path) => Components(InstanceOf(k).file) = MeantBy(e)
    /\ InstanceOf(k).file \in DOMAIN sizes

AreConfigured(n) ==
    /\ DOMAIN instances = {file.entries[k].name : k \in Handled(n)}
    /\ \A k \in Handled(n) :
         /\ IsAsWritten(k, file.entries[k])
         /\ \/ HasSize(InstanceOf(k).file, file.entries[k])
            \/ \E j \in Handled(n) : j < k /\ InstanceOf(j).file = InstanceOf(k).file
    /\ \A j, k \in Handled(n) : file.entries[j].name = file.entries[k].name => j = k
    /\ \A f \in DOMAIN sizes : /\ sizes[f] \in MinSplit .. MaxSplit
                               /\ \E k \in Handled(n) : InstanceOf(k).file = f

ResolvesEntry(k) ==
    /\ k \in Written /\ WellFormed(file.entries[k])
    /\ file.entries[k].name \notin DOMAIN instances
    /\ ~IsHidden(file.entries[k].path) => LeadsTo(args) = MeantBy(file.entries[k])

UnderWay(n) ==
    /\ n \in 0 .. Len(EntryTexts) /\ todo = SubSeq(EntryTexts, n + 1, Len(EntryTexts))
    /\ AreConfigured(n)
    /\ phase = "resolving" => ResolvesEntry(n + 1)

ConfiguredInv ==
    /\ phase = "reading" => instances = <<>> /\ sizes = <<>>
    /\ phase # "reading" => lines = <<>> /\ \E n \in Nat : UnderWay(n)
    /\ phase = "done" => todo = <<>>
    /\ step = "done" => rpath = [o \in DOMAIN rpath |-> rpath[o]]

LEMMA KeysAre ==
    /\ PrefixKey \in Seq(Lexemes) /\ PrefixKey # <<>>
    /\ InstanceKey \in Seq(Lexemes) /\ InstanceKey # <<>>
  BY LexemesAssumption DEF PrefixKey, InstanceKey

LEMMA EntriesAre ==
    ASSUME ConfInv, lines = <<>>
    PROVE  /\ EntryTexts \in Seq(Seq(Lexemes)) /\ EntryTexts = getStrings(InstanceKey)
           /\ DOMAIN file.entries = 1 .. Len(EntryTexts)
           /\ \A k \in 1 .. Len(EntryTexts) : EntryOf(EntryTexts[k], file.entries[k])
  <1>1. EntryTexts = getStrings(InstanceKey)
    BY KeysAre, AllRead DEF EntryTexts
  <1>2. EntryTexts \in Seq(Seq(Lexemes))
    BY <1>1, ValuesType
  <1>3. DOMAIN EntryTexts = 1 .. Len(EntryTexts)
    BY <1>2
  <1>4. file \in Files
    BY DEF ConfInv
  <1>5. DOMAIN file.entries = DOMAIN EntryTexts
    BY <1>4, EntriesAssumption DEF EntryTexts
  <1>6. ASSUME NEW k \in 1 .. Len(EntryTexts) PROVE EntryOf(EntryTexts[k], file.entries[k])
    <2>1. EntryTexts[k] \in Seq(Lexemes)
      BY <1>2, Member, Zenon
    <2>2. QED BY <1>3, <1>4, <2>1, EntriesAssumption DEF EntryTexts, EntryOf
  <1>7. QED BY <1>1, <1>2, <1>3, <1>5, <1>6

LEMMA PaddedWord ==
    ASSUME NEW text \in Seq(Lexemes), NEW n, Padded(text, <<n>>)
    PROVE  trim(text) = <<n>>
  <1>1. PICK L : L = Lexemes \cup {n}
    OBVIOUS
  <1>2. text \in Seq(L)
    BY <1>1
  <1>3. <<n>> \in Seq(L)
    BY <1>1
  <1>4. QED BY <1>2, <1>3, TrimIs, Zenon

LEMMA LevelIs ==
    ASSUME NEW e, e.fields[5] \in Seq(Lexemes), NEW inst, inst.level = Level(trim(e.fields[5]))
    PROVE  HasLevel(inst, e)
  <1>1. PICK field \in Seq(Lexemes) : field = e.fields[5]
    OBVIOUS
  <1>2. \A s : Level(s) \in 0 .. LevelAll
    BY NumbersAssumption DEF Level
  <1>3. Padded(field, <<>>) => Level(trim(field)) = LevelAll
    <2>1. <<>> \in Seq(Lexemes)
      OBVIOUS
    <2>2. Padded(field, <<>>) => trim(field) = <<>>
      BY <2>1, TrimIs, Zenon
    <2>3. QED BY <2>2 DEF Level
  <1>4. ASSUME NEW n \in DOMAIN Value, Padded(field, <<n>>)
        PROVE  Level(trim(field)) = IF Value[n] \in 0 .. LevelAll THEN Value[n] ELSE LevelAll
    <2>1. trim(field) = <<n>>
      BY <1>4, PaddedWord
    <2>2. Number(<<n>>) = Value[n] /\ <<n>> # <<>>
      BY DEF Number
    <2>3. QED BY <2>1, <2>2 DEF Level
  <1>5. QED BY <1>1, <1>2, <1>3, <1>4 DEF HasLevel

LEMMA SizeIs ==
    ASSUME NEW field \in Seq(Lexemes)
    PROVE  /\ SplitSize(Unsigned(trim(field))) \in MinSplit .. MaxSplit
           /\ \A n \in DOMAIN Value :
                Padded(field, <<n>>) /\ Value[n] \in MinSplit .. MaxSplit =>
                  SplitSize(Unsigned(trim(field))) = Value[n]
  <1>1. \A s : Number(s) \in Int
    BY NumbersAssumption DEF Number
  <1>2. \A s : Unsigned(s) \in Nat
    BY <1>1, NumbersAssumption DEF Unsigned
  <1>3. \A i \in Nat : SplitSize(i) \in MinSplit .. MaxSplit
    BY NumbersAssumption DEF SplitSize
  <1>4. ASSUME NEW n \in DOMAIN Value, Padded(field, <<n>>), Value[n] \in MinSplit .. MaxSplit
        PROVE  SplitSize(Unsigned(trim(field))) = Value[n]
    <2>1. trim(field) = <<n>>
      BY <1>4, PaddedWord
    <2>2. Number(<<n>>) = Value[n]
      BY DEF Number
    <2>3. Unsigned(<<n>>) = Value[n]
      BY <1>4, <2>2, NumbersAssumption DEF Unsigned
    <2>4. QED BY <1>4, <2>1, <2>3, NumbersAssumption DEF SplitSize
  <1>5. QED BY <1>2, <1>3, <1>4

(* The entry that is next. *)
LEMMA NextEntry ==
    ASSUME StartInv, lines = <<>>, NEW n \in Nat, UnderWay(n), todo # <<>>
    PROVE  LET e == file.entries[n + 1] IN
           /\ n + 1 \in 0 .. Len(EntryTexts) /\ n + 1 \in DOMAIN file.entries
           /\ EntryOf(Head(todo), e)
           /\ Tail(todo) = SubSeq(EntryTexts, (n + 1) + 1, Len(EntryTexts))
           /\ n + 1 \in Written <=> Head(todo) # <<>>
           /\ n + 1 \notin Handled(n)
           /\ Handled(n + 1) = Handled(n) \cup (Written \cap {n + 1})
  <1>1. PICK texts \in Seq(Seq(Lexemes)) : texts = EntryTexts
    BY EntriesAre DEF StartInv
  <1>2. n \in 0 .. Len(texts) /\ todo = SubSeq(texts, n + 1, Len(texts))
    BY <1>1 DEF UnderWay
  <1>3. n + 1 \in 1 .. Len(texts) /\ Head(todo) = texts[n + 1] /\ Tail(todo) = SubSeq(texts, (n + 1) + 1, Len(texts))
    BY <1>2
  <1>4. EntryOf(texts[n + 1], file.entries[n + 1]) /\ DOMAIN file.entries = 1 .. Len(texts)
    BY <1>1, <1>3, EntriesAre DEF StartInv
  <1>5. n + 1 \in Written <=> Head(todo) # <<>>
    BY <1>3, <1>4, EmptyIs DEF Written
  <1>6. \A k \in Written : k \in Nat
    BY <1>4 DEF Written
  <1>7. n + 1 \notin Handled(n) /\ Handled(n + 1) = Handled(n) \cup (Written \cap {n + 1})
    BY <1>6 DEF Handled
  <1>8. QED BY <1>1, <1>3, <1>4, <1>5, <1>7, SMTT(30)

LEMMA SameEntries ==
    ASSUME UNCHANGED <<file, environment>>
    PROVE  /\ EntryTexts' = EntryTexts /\ Written' = Written
           /\ \A n : Handled(n)' = Handled(n)
           /\ \A e : MeantBy(e)' = MeantBy(e)
  <1>1. EntryTexts' = EntryTexts /\ Written' = Written
    BY DEF EntryTexts, Written
  <1>2. \A n : Handled(n)' = Handled(n)
    BY <1>1 DEF Handled
  <1>3. \A e : MeantBy(e)' = MeantBy(e)
    BY DEF MeantBy, Meant, From, environment
  <1>4. QED BY <1>1, <1>2, <1>3

LEMMA SameConfigured ==
    ASSUME UNCHANGED <<file, environment, instances, sizes>>, NEW n, AreConfigured(n)
    PROVE  AreConfigured(n)'
  <1>1. Handled(n)' = Handled(n) /\ \A e : MeantBy(e)' = MeantBy(e)
    BY SameEntries
  <1>2. \A k : InstanceOf(k)' = InstanceOf(k)
    BY DEF InstanceOf
  <1>3. \A k, e : IsAsWritten(k, e)' <=> IsAsWritten(k, e)
    BY <1>1, <1>2 DEF IsAsWritten
  <1>4. \A f, e : HasSize(f, e)' <=> HasSize(f, e)
    BY DEF HasSize
  <1>5. QED BY <1>1, <1>2, <1>3, <1>4 DEF AreConfigured

LEMMA StillUnderWay ==
    ASSUME UNCHANGED <<file, environment, todo, instances, sizes>>, NEW n, UnderWay(n),
           phase' = "resolving" => UNCHANGED <<phase, args>>
    PROVE  UnderWay(n)'
  <1>1. AreConfigured(n)'
    BY SameConfigured DEF UnderWay
  <1>2. EntryTexts' = EntryTexts /\ Written' = Written /\ \A e : MeantBy(e)' = MeantBy(e)
    BY SameEntries
  <1>3. UNCHANGED args => LeadsTo(args)' = LeadsTo(args)
    BY SameMeaning
  <1>4. phase' = "resolving" => ResolvesEntry(n + 1)'
    BY <1>2, <1>3 DEF UnderWay, ResolvesEntry
  <1>5. QED BY <1>1, <1>2, <1>4 DEF UnderWay

LEMMA FindFileInv ==
    ASSUME StartInv, ConfiguredInv, FindFile
    PROVE  ConfiguredInv'
  <1>1. /\ phase = "configuring" /\ phase' = "resolving" /\ todo # <<>> /\ Head(todo) # <<>>
        /\ Accepted /\ UNCHANGED <<confVars, todo, instances, sizes>>
    BY DEF FindFile
  <1>2. PICK a : /\ a = [old |-> Entry[3], prefix |-> OrElse(getString(PrefixKey), <<".", Slash>>),
                         default |-> LogName(Entry[1])]
                 /\ toRealPath(a)
    BY DEF FindFile
  <1>3. args' = a /\ UNCHANGED <<environment, rpath>> /\ step' = "begin"
    BY <1>2 DEF toRealPath, buffer
  <1>4. lines = <<>> /\ \E n \in Nat : UnderWay(n)
    BY <1>1 DEF ConfiguredInv
  <1>5. PICK n \in Nat : UnderWay(n)
    BY <1>4
  <1>6. PICK e : e = file.entries[n + 1]
    OBVIOUS
  <1>7. EntryOf(Head(todo), e) /\ n + 1 \in Written
    BY <1>1, <1>4, <1>5, <1>6, NextEntry
  <1>8. /\ WellFormed(e) /\ Entry[1] = e.name /\ Entry[3] = e.path
        /\ e.name \notin DOMAIN instances
    BY <1>1, <1>7, CheckIs DEF Accepted, Entry
  <1>9. ~IsHidden(e.path) => LeadsTo(a) = MeantBy(e)
    <2>1. PICK prefixes \in Seq(Seq(Lexemes)) : /\ prefixes = ValuesOf(file.settings, PrefixKey)
                                                /\ prefixes = getStrings(PrefixKey)
      BY <1>4, AllRead, KeysAre, ValuesType DEF StartInv
    <2>2. PICK prefix \in Seq(Lexemes) : /\ prefix = getString(PrefixKey)
                                         /\ prefix = IF prefixes = <<>> THEN <<>> ELSE Head(prefixes)
      BY <2>1, ValuesType DEF StartInv, getString
    <2> DEFINE b == [old |-> e.path, prefix |-> prefix, default |-> LogName(e.name)]
    <2>3. MeantBy(e) = Meant(b)
      BY <2>1, <2>2 DEF MeantBy
    <2>4. Args(b, Words)
      <3>1. /\ e.path \in Seq(Lexemes) /\ e.path # <<>>
            /\ e.name \in Seq(Lexemes) /\ e.name # <<>>
        BY <1>7, <1>8 DEF EntryOf, WellFormed
      <3>2. LogName(e.name) \in Seq(Words) /\ LogName(e.name) # <<>> /\ Last(LogName(e.name)) # Slash
        BY <3>1, LogNameIs, NamesAssumption
      <3>3. PICK path \in Seq(Words) : path = e.path /\ path # <<>>
        BY <3>1 DEF Words
      <3>4. PICK p \in Seq(Words) : p = prefix
        BY DEF Words
      <3>5. PICK default : default = LogName(e.name)
        OBVIOUS
      <3>6. Args([old |-> path, prefix |-> p, default |-> default], Words)
        BY <3>2, <3>3, <3>5 DEF Args
      <3>7. QED BY <3>3, <3>4, <3>5, <3>6
    <2>5. /\ a.old = b.old /\ a.default = b.default
          /\ a.prefix = OrElse(b.prefix, <<".", Slash>>)
      BY <1>2, <1>8, <2>2
    <2>9. b.old = e.path
      OBVIOUS
    <2> HIDE DEF b
    <2>6. PathInv /\ Tokens \subseteq Words
      BY DEF StartInv, Words
    <2>7. LeadsTo(a) = LeadsTo(b)
      BY <2>4, <2>5, <2>6, SamePrefix
    <2>8. ~IsHidden(b.old) => LeadsTo(b) = Meant(b)
      BY <2>4, <2>6, LeadsWhereMeant DEF Tokens
    <2>10. QED BY <2>3, <2>7, <2>8, <2>9
  <1>10. ResolvesEntry(n + 1)'
    <2>1. file' = file /\ Written' = Written /\ \A d : MeantBy(d)' = MeantBy(d)
      BY <1>1, <1>3, SameEntries DEF confVars
    <2>2. LeadsTo(args)' = LeadsTo(a)
      BY <1>3 DEF LeadsTo, Along, environment
    <2>3. QED BY <1>1, <1>6, <1>7, <1>8, <1>9, <2>1, <2>2 DEF ResolvesEntry
  <1>11. UnderWay(n)'
    <2>1. AreConfigured(n)'
      BY <1>1, <1>3, <1>5, SameConfigured DEF UnderWay, confVars
    <2>2. EntryTexts' = EntryTexts
      BY <1>1, <1>3, SameEntries DEF confVars
    <2>3. QED BY <1>1, <1>5, <1>10, <2>1, <2>2 DEF UnderWay
  <1>12. lines' = <<>>
    BY <1>1, <1>4 DEF confVars
  <1>13. QED BY <1>1, <1>3, <1>11, <1>12 DEF ConfiguredInv

LEMMA AddInstanceInv ==
    ASSUME StartInv, ConfiguredInv, AddInstance
    PROVE  ConfiguredInv'
  <1>1. /\ phase = "resolving" /\ step = "done" /\ phase' = "configuring" /\ todo' = Tail(todo)
        /\ UNCHANGED <<confVars, pathVars>> /\ todo # <<>>
    BY DEF AddInstance, StartInv
  <1>2. /\ lines = <<>> /\ \E n \in Nat : UnderWay(n)
        /\ rpath = [o \in DOMAIN rpath |-> rpath[o]]
    BY <1>1 DEF ConfiguredInv
  <1>3. PICK n \in Nat : UnderWay(n)
    BY <1>2
  <1>4. PICK e : e = file.entries[n + 1]
    OBVIOUS
  <1>5. /\ n + 1 \in Written /\ WellFormed(e) /\ e.name \notin DOMAIN instances
        /\ ~IsHidden(e.path) => LeadsTo(args) = MeantBy(e)
        /\ AreConfigured(n)
    BY <1>1, <1>3, <1>4 DEF UnderWay, ResolvesEntry
  <1>6. /\ n + 1 \in 0 .. Len(EntryTexts) /\ EntryOf(Head(todo), e)
        /\ Tail(todo) = SubSeq(EntryTexts, (n + 1) + 1, Len(EntryTexts))
        /\ n + 1 \notin Handled(n) /\ Handled(n + 1) = Handled(n) \cup {n + 1}
    BY <1>1, <1>2, <1>3, <1>4, <1>5, NextEntry, SMTT(30)
  <1>7. /\ Entry[1] = e.name /\ Entry[2] = e.format
        /\ Entry[4] = trim(e.fields[4]) /\ Entry[5] = trim(e.fields[5])
    BY <1>5, <1>6, CheckIs DEF Entry
  <1>8. e.fields[4] \in Seq(Lexemes) /\ e.fields[5] \in Seq(Lexemes)
    <2>1. PICK fields \in Seq(Seq(Lexemes)) : fields = e.fields /\ Len(fields) >= 5
      BY <1>5, <1>6 DEF EntryOf, WellFormed
    <2>2. 4 \in 1 .. Len(fields) /\ 5 \in 1 .. Len(fields)
      BY <2>1
    <2>3. QED BY <2>1, <2>2, Member
  <1>9. PICK new : new = [file |-> rpath, format |-> e.format, level |-> Level(trim(e.fields[5]))]
    OBVIOUS
  <1>10. PICK size : size = SplitSize(Unsigned(trim(e.fields[4])))
    OBVIOUS
  <1>11. /\ DOMAIN instances' = DOMAIN instances \cup {e.name} /\ instances'[e.name] = new
         /\ \A name_ \in DOMAIN instances : instances'[name_] = instances[name_]
    BY <1>5, <1>7, <1>9 DEF AddInstance
  <1>12. /\ DOMAIN sizes' = DOMAIN sizes \cup {rpath}
         /\ \A f \in DOMAIN sizes : sizes'[f] = sizes[f]
         /\ rpath \notin DOMAIN sizes => sizes'[rpath] = size
    BY <1>7, <1>10 DEF AddInstance
  <1>13. /\ HasLevel(new, e) /\ new.format = e.format /\ new.file = rpath
         /\ size \in MinSplit .. MaxSplit
         /\ \A v \in DOMAIN Value :
              Padded(e.fields[4], <<v>>) /\ Value[v] \in MinSplit .. MaxSplit => size = Value[v]
    BY <1>8, <1>9, <1>10, LevelIs, SizeIs
  <1>14. ResolvedPath(rpath) /\ (~IsHidden(e.path) => Components(rpath) = MeantBy(e))
    <2>1. /\ dest \in Nat /\ Tidy(rpath, dest) /\ (dest > 1 => dest - 1 \notin Slashes(rpath))
          /\ Components(rpath) = LeadsTo(args)
      BY <1>1 DEF StartInv, PathInv, Fits, PathMeans
    <2>2. QED BY <1>2, <1>5, <2>1 DEF ResolvedPath
  <1>15. /\ file' = file /\ EntryTexts' = EntryTexts /\ Written' = Written
         /\ \A d : MeantBy(d)' = MeantBy(d)
         /\ Handled(n + 1)' = Handled(n) \cup {n + 1}
    BY <1>1, <1>6, SameEntries DEF confVars, pathVars
  <1>16. ASSUME NEW k \in Handled(n)
         PROVE  /\ InstanceOf(k)' = InstanceOf(k) /\ file.entries[k].name \in DOMAIN instances
                /\ InstanceOf(k).file \in DOMAIN sizes
    <2>1. file.entries[k].name \in DOMAIN instances /\ InstanceOf(k).file \in DOMAIN sizes
      BY <1>5 DEF AreConfigured, IsAsWritten
    <2>2. QED BY <1>11, <1>15, <2>1 DEF InstanceOf
  <1>17. InstanceOf(n + 1)' = new
    BY <1>4, <1>11, <1>15 DEF InstanceOf
  <1>18. IsAsWritten(n + 1, e)'
    <2>1. rpath \in DOMAIN sizes'
      BY <1>12
    <2>2. QED BY <1>5, <1>13, <1>14, <1>15, <1>17, <2>1 DEF IsAsWritten, ResolvedPath
  <1>19. ASSUME NEW k \in Handled(n) PROVE IsAsWritten(k, file.entries[k])'
    <2>1. IsAsWritten(k, file.entries[k])
      BY <1>5 DEF AreConfigured
    <2>2. QED BY <1>12, <1>15, <1>16, <2>1 DEF IsAsWritten, ResolvedPath
  <1>20. \A f \in DOMAIN sizes : \A d : HasSize(f, d) => HasSize(f, d)'
    BY <1>12 DEF HasSize
  <1>21. \/ HasSize(InstanceOf(n + 1).file, e)'
         \/ \E j \in Handled(n) : j < n + 1 /\ InstanceOf(j)'.file = InstanceOf(n + 1)'.file
    <2>1. CASE rpath \in DOMAIN sizes
      <3>1. PICK j \in Handled(n) : InstanceOf(j).file = rpath
        BY <1>5, <2>1 DEF AreConfigured
      <3>2. j < n + 1
        <4>1. j \in Nat /\ j <= n
          BY <1>2, EntriesAre DEF Handled, Written, StartInv
        <4>2. QED BY <4>1
      <3>3. QED BY <1>13, <1>16, <1>17, <3>1, <3>2
    <2>2. CASE rpath \notin DOMAIN sizes
      BY <1>12, <1>13, <1>17, <2>2 DEF HasSize
    <2>3. QED BY <2>1, <2>2
  <1>22. AreConfigured(n + 1)'
    <2>1. DOMAIN instances' = {file'.entries[k].name : k \in Handled(n + 1)'}
      <3>1. DOMAIN instances = {file.entries[k].name : k \in Handled(n)}
        BY <1>5 DEF AreConfigured
      <3>2. QED BY <1>4, <1>11, <1>15, <3>1
    <2>2. ASSUME NEW k \in Handled(n + 1)'
          PROVE  /\ IsAsWritten(k, file.entries[k])'
                 /\ \/ HasSize(InstanceOf(k).file, file.entries[k])'
                    \/ \E j \in Handled(n + 1)' : j < k /\ InstanceOf(j)'.file = InstanceOf(k)'.file
      <3>1. CASE k = n + 1
        BY <1>4, <1>15, <1>18, <1>21, <3>1
      <3>2. CASE k \in Handled(n)
        <4>1. \/ HasSize(InstanceOf(k).file, file.entries[k])
              \/ \E j \in Handled(n) : j < k /\ InstanceOf(j).file = InstanceOf(k).file
          BY <1>5, <3>2 DEF AreConfigured
        <4>2. CASE HasSize(InstanceOf(k).file, file.entries[k])
          <5>1. HasSize(InstanceOf(k).file, file.entries[k])'
            BY <1>15, <1>16, <1>20, <3>2, <4>2 DEF HasSize
          <5>2. QED BY <1>19, <3>2, <5>1
        <4>3. CASE \E j \in Handled(n) : j < k /\ InstanceOf(j).file = InstanceOf(k).file
          BY <1>15, <1>16, <1>19, <3>2, <4>3
        <4>4. QED BY <4>1, <4>2, <4>3
      <3>3. QED BY <1>15, <3>1, <3>2
    <2>3. ASSUME NEW j \in Handled(n + 1)', NEW k \in Handled(n + 1)',
                 file'.entries[j].name = file'.entries[k].name
          PROVE  j = k
      <3>1. \A i \in Handled(n) : file.entries[i].name # e.name
        BY <1>5, <1>16
      <3>2. \A a, b \in Handled(n) : file.entries[a].name = file.entries[b].name => a = b
        BY <1>5 DEF AreConfigured
      <3>3. QED BY <1>4, <1>15, <2>3, <3>1, <3>2
    <2>4. ASSUME NEW f \in DOMAIN sizes'
          PROVE  /\ sizes'[f] \in MinSplit .. MaxSplit
                 /\ \E k \in Handled(n + 1)' : InstanceOf(k)'.file = f
      <3>1. CASE f \in DOMAIN sizes
        <4>1. PICK k \in Handled(n) : InstanceOf(k).file = f
          BY <1>5, <3>1 DEF AreConfigured
        <4>2. sizes[f] \in MinSplit .. MaxSplit
          BY <1>5, <3>1 DEF AreConfigured
        <4>3. QED BY <1>12, <1>15, <1>16, <3>1, <4>1, <4>2
      <3>2. CASE f \notin DOMAIN sizes
        BY <1>12, <1>13, <1>15, <1>17, <3>2
      <3>3. QED BY <3>1, <3>2
    <2>5. QED BY <2>1, <2>2, <2>3, <2>4 DEF AreConfigured
  <1>23. UnderWay(n + 1)'
    BY <1>1, <1>6, <1>15, <1>22 DEF UnderWay
  <1>24. lines' = <<>> /\ rpath' = rpath /\ step' = step /\ n + 1 \in Nat
    BY <1>1, <1>2 DEF confVars, pathVars, buffer
  <1>25. QED BY <1>1, <1>2, <1>23, <1>24 DEF ConfiguredInv

(* What a step of the resolution leaves alone; where it ends, the path is a function
   of its offsets. *)
LEMMA ResolveLeaves ==
    ASSUME ResolveStep
    PROVE  /\ UNCHANGED <<environment, args>>
           /\ step' = "done" => rpath' = [o \in DOMAIN rpath' |-> rpath'[o]]
  <1>1. CASE Finish
    <2>1. rpath' = [o \in {o \in DOMAIN rpath : o < dest'} |-> rpath[o]]
      BY <1>1 DEF Finish, Restrict
    <2>2. rpath' = [o \in DOMAIN rpath' |-> rpath'[o]]
      BY <2>1
    <2>3. QED BY <1>1, <2>2 DEF Finish
  <1>2. CASE NoMemory \/ NoRoom
    BY <1>2 DEF NoMemory, NoRoom, Fail
  <1>3. CASE BeginAtRoot \/ BeginAtHome \/ BeginAtCwd
    BY <1>3 DEF BeginAtRoot, BeginAtHome, BeginAtCwd, BeginWith, Fail
  <1>4. CASE Skip \/ BackUp \/ AddComponent
    BY <1>4 DEF Skip, BackUp, AddComponent, NextIs
  <1>5. QED BY <1>1, <1>2, <1>3, <1>4 DEF ResolveStep

LEMMA ConfiguredInit == Init => ConfiguredInv
  BY DEF Init, PathInit, ConfiguredInv

LEMMA ConfReadInv ==
    ASSUME StartInv, ConfiguredInv, ConfRead
    PROVE  ConfiguredInv'
  <1>1. /\ phase = "reading" /\ lines = <<>> /\ phase' = "configuring"
        /\ todo' = getStrings(InstanceKey)
        /\ UNCHANGED <<confVars, pathVars, instances, sizes>>
    BY DEF ConfRead
  <1>2. instances = <<>> /\ sizes = <<>>
    BY <1>1 DEF ConfiguredInv
  <1>3. PICK texts \in Seq(Seq(Lexemes)) :
          /\ texts = EntryTexts /\ todo' = texts /\ DOMAIN file.entries = 1 .. Len(texts)
    BY <1>1, EntriesAre DEF StartInv
  <1>4. EntryTexts' = EntryTexts /\ Written' = Written
    BY <1>1, SameEntries DEF confVars, pathVars
  <1>5. Handled(0)' = {}
    BY <1>3, <1>4 DEF Handled, Written
  <1>6. DOMAIN instances' = {} /\ DOMAIN sizes' = {}
    BY <1>1, <1>2
  <1>7. AreConfigured(0)'
    BY <1>5, <1>6 DEF AreConfigured
  <1>8. texts = SubSeq(texts, 0 + 1, Len(texts)) /\ 0 \in 0 .. Len(texts)
    OBVIOUS
  <1>9. UnderWay(0)'
    BY <1>1, <1>3, <1>4, <1>7, <1>8 DEF UnderWay
  <1>10. QED BY <1>1, <1>9 DEF ConfiguredInv, confVars, pathVars, buffer

LEMMA SkipEmptyInv ==
    ASSUME StartInv, ConfiguredInv, SkipEmpty
    PROVE  ConfiguredInv'
  <1>1. /\ phase = "configuring" /\ phase' = phase /\ todo # <<>> /\ Head(todo) = <<>>
        /\ todo' = Tail(todo) /\ UNCHANGED <<confVars, pathVars, instances, sizes>>
    BY DEF SkipEmpty
  <1>2. lines = <<>> /\ \E n \in Nat : UnderWay(n)
    BY <1>1 DEF ConfiguredInv
  <1>3. PICK n \in Nat : UnderWay(n)
    BY <1>2
  <1>4. /\ n + 1 \in 0 .. Len(EntryTexts) /\ n + 1 \notin Written
        /\ Tail(todo) = SubSeq(EntryTexts, (n + 1) + 1, Len(EntryTexts))
        /\ Handled(n + 1) = Handled(n) \cup (Written \cap {n + 1})
    BY <1>1, <1>2, <1>3, NextEntry
  <1>5. Handled(n + 1) = Handled(n)
    BY <1>4
  <1>6. AreConfigured(n + 1)
    BY <1>3, <1>5 DEF UnderWay, AreConfigured
  <1>7. AreConfigured(n + 1)'
    BY <1>1, <1>6, SameConfigured DEF confVars, pathVars
  <1>8. EntryTexts' = EntryTexts
    BY <1>1, SameEntries DEF confVars, pathVars
  <1>9. UnderWay(n + 1)'
    BY <1>1, <1>4, <1>7, <1>8 DEF UnderWay
  <1>10. QED BY <1>1, <1>2, <1>9 DEF ConfiguredInv, confVars, pathVars, buffer

(* The steps that configure nothing. *)
LEMMA LeavesConfigured ==
    ASSUME ConfiguredInv, phase # "reading",
           UNCHANGED <<confVars, environment, todo, instances, sizes>>,
           phase' # "reading", phase' = "resolving" => UNCHANGED <<phase, args>>,
           phase' = "done" => todo = <<>>,
           step' = "done" => rpath' = [o \in DOMAIN rpath' |-> rpath'[o]]
    PROVE  ConfiguredInv'
  <1>1. lines' = <<>> /\ \E n \in Nat : UnderWay(n)
    BY DEF ConfiguredInv, confVars
  <1>2. PICK n \in Nat : UnderWay(n)
    BY <1>1
  <1>3. UnderWay(n)'
    BY <1>2, StillUnderWay DEF confVars
  <1>4. QED BY <1>1, <1>3 DEF ConfiguredInv

LEMMA ConfiguredStep ==
    ASSUME StartInv, ConfiguredInv, [Next]_vars
    PROVE  ConfiguredInv'
  <1>1. CASE UNCHANGED vars
    <2>1. UNCHANGED <<confVars, environment, todo, instances, sizes, phase, args, step, rpath>>
      BY <1>1 DEF vars, pathVars, buffer, initVars
    <2>2. CASE phase = "reading"
      BY <2>1, <2>2 DEF ConfiguredInv
    <2>3. CASE phase # "reading"
      <3>1. /\ phase = "done" => todo = <<>>
            /\ step = "done" => rpath = [o \in DOMAIN rpath |-> rpath[o]]
        BY DEF ConfiguredInv
      <3>2. QED BY <2>1, <2>3, <3>1, LeavesConfigured
    <2>4. QED BY <2>2, <2>3
  <1>2. CASE ReadLine /\ UNCHANGED <<pathVars, initVars>>
    <2>1. lines # <<>> /\ UNCHANGED <<phase, instances, sizes, step, rpath>>
      BY <1>2 DEF ReadLine, pathVars, buffer, initVars
    <2>2. QED BY <2>1 DEF ConfiguredInv
  <1>3. CASE ResolveStep /\ UNCHANGED <<confVars, initVars>>
    <2>1. /\ UNCHANGED <<confVars, environment, todo, instances, sizes, phase, args>>
          /\ step' = "done" => rpath' = [o \in DOMAIN rpath' |-> rpath'[o]]
      BY <1>3, ResolveLeaves DEF initVars
    <2>2. CASE phase = "reading"
      BY <2>1, <2>2 DEF ConfiguredInv
    <2>3. CASE phase # "reading"
      BY <2>1, <2>3, LeavesConfigured DEF ConfiguredInv
    <2>4. QED BY <2>2, <2>3
  <1>4. CASE Reject \/ Configured
    <2>1. /\ UNCHANGED <<confVars, environment, todo, instances, sizes, args, step, rpath>>
          /\ phase = "configuring" /\ phase' \in {"exited", "done"}
          /\ phase' = "done" => todo = <<>>
      BY <1>4 DEF Reject, Configured, pathVars, buffer
    <2>2. step = "done" => rpath = [o \in DOMAIN rpath |-> rpath[o]]
      BY DEF ConfiguredInv
    <2>3. QED BY <2>1, <2>2, LeavesConfigured
  <1>5. QED BY <1>1, <1>2, <1>3, <1>4, ConfReadInv, SkipEmptyInv, FindFileInv, AddInstanceInv
        DEF Next

LEMMA ConfiguredAlways == Spec => [](StartInv /\ ConfiguredInv)
  <1>1. Init => StartInv /\ ConfiguredInv
    BY StartInitInv, ConfiguredInit
  <1>2. (StartInv /\ ConfiguredInv) /\ [Next]_vars => (StartInv /\ ConfiguredInv)'
    BY StartStep, ConfiguredStep
  <1>3. QED BY <1>1, <1>2, PTL DEF Spec

(* Whatever a configuration of any length asks for - with as many entries as there
   are, empty ones among them - once init() has returned, every entry has an instance
   of its own, with its format, level and file, and a file that several entries mean
   is one, however they spell it (hidden names apart), and split at a size that is allowed. *)
THEOREM InstancesAreAsWritten == Spec => []AsWritten
  <1>1. ASSUME StartInv, ConfiguredInv, phase = "done" PROVE AsWritten
    <2>1. lines = <<>> /\ todo = <<>> /\ \E n \in Nat : UnderWay(n)
      BY <1>1 DEF ConfiguredInv
    <2>2. PICK n \in Nat : UnderWay(n)
      BY <2>1
    <2>3. PICK texts \in Seq(Seq(Lexemes)) :
            texts = EntryTexts /\ DOMAIN file.entries = 1 .. Len(texts)
      BY <1>1, <2>1, EntriesAre DEF StartInv
    <2>4. n \in 0 .. Len(texts) /\ SubSeq(texts, n + 1, Len(texts)) = <<>>
      BY <2>1, <2>2, <2>3 DEF UnderWay
    <2>5. n = Len(texts)
      BY <2>4, NothingLeft
    <2>6. Handled(n) = Written
      BY <2>3, <2>5 DEF Handled, Written
    <2>7. AreConfigured(n)
      BY <2>2 DEF UnderWay
    <2>8. DOMAIN instances = {file.entries[k].name : k \in Written}
      BY <2>6, <2>7 DEF AreConfigured
    <2>9. ASSUME NEW k \in Written PROVE IsAsWritten(k, file.entries[k])
      BY <2>6, <2>7 DEF AreConfigured
    <2>10. ASSUME NEW k \in Written
           PROVE  /\ sizes[InstanceOf(k).file] \in MinSplit .. MaxSplit
                  /\ \/ HasSize(InstanceOf(k).file, file.entries[k])
                     \/ \E j \in Written : j < k /\ InstanceOf(j).file = InstanceOf(k).file
      <3>1. InstanceOf(k).file \in DOMAIN sizes
        BY <2>9 DEF IsAsWritten
      <3>2. QED BY <2>6, <2>7, <3>1 DEF AreConfigured
    <2>11. ASSUME NEW j \in Written, NEW k \in Written,
                  ~IsHidden(file.entries[j].path), ~IsHidden(file.entries[k].path),
                  MeantBy(file.entries[j]) = MeantBy(file.entries[k])
           PROVE  InstanceOf(j).file = InstanceOf(k).file
      <3>1. /\ ResolvedPath(InstanceOf(j).file) /\ ResolvedPath(InstanceOf(k).file)
            /\ Components(InstanceOf(j).file) = Components(InstanceOf(k).file)
        BY <2>9, <2>11 DEF IsAsWritten
      <3>2. QED BY <3>1, OnePath DEF ResolvedPath
    <2>12. \A j, k \in Written : file.entries[j].name = file.entries[k].name => j = k
      BY <2>6, <2>7 DEF AreConfigured
    <2>13. \A k \in Written :
             /\ WellFormed(file.entries[k]) /\ HasLevel(InstanceOf(k), file.entries[k])
             /\ InstanceOf(k).format = file.entries[k].format
             /\ ~IsHidden(file.entries[k].path) =>
                  Components(InstanceOf(k).file) = MeantBy(file.entries[k])
      BY <2>9 DEF IsAsWritten
    <2>14. QED BY <2>8, <2>10, <2>11, <2>12, <2>13 DEF AsWritten, InstanceOf
  <1>2. StartInv /\ ConfiguredInv => AsWritten
    BY <1>1 DEF AsWritten
  <1>3. QED BY <1>2, ConfiguredAlways, PTL
===============================================================================
