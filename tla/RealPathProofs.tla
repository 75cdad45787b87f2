----------------------------- MODULE RealPathProofs ----------------------------
(***************************************************************************)
(* What holds of the resolution of a path for names of any length and      *)
(* buffers of any size: the buffer holds a tidy path, and what is left of  *)
(* the name leads from there to where the whole name was meant to lead.    *)
(***************************************************************************)
EXTENDS RealPath, Recursion, TLAPS

-----------------------------------------------------------------------------
(* Numbers and lengths. *)

(* A set of numbers that is bounded has a greatest one: the least distance to the
   bound belongs to it. *)
LEMMA GreatestOf ==
    ASSUME NEW n \in Nat, NEW T, T \subseteq 0 .. n, T # {}
    PROVE  Max(T) \in T /\ \A y \in T : Max(T) >= y
  <1> DEFINE D == {n - x : x \in T}  R == OpToRel(<, Nat)
  <1>0. \A x \in T : x \in Nat /\ n - x \in Nat
    OBVIOUS
  <1>1. D \subseteq Nat /\ D # {}
    BY <1>0
  <1>2. PICK d \in D : \A e \in D : ~(<<e, d>> \in R)
    <2>1. IsWellFoundedOn(R, Nat)
      BY NatLessThanWellFounded, Zenon
    <2> HIDE DEF R, D
    <2>2. QED BY <1>1, <2>1, WFMin, Zenon
  <1>3. PICK x \in T : d = n - x
    OBVIOUS
  <1>4. ASSUME NEW y \in T PROVE x >= y
    <2>1. ~(n - y < d)
      BY <1>1, <1>2 DEF OpToRel
    <2>2. QED BY <1>3, <2>1
  <1>5. QED BY <1>4 DEF Max

LEMMA Lengths ==
    /\ PathMax \in Nat /\ PathMax > 1
    /\ \A c \in Tokens : Length(c) \in Nat /\ Length(c) > 0
    /\ Length(Slash) = 1
    /\ Slash \notin {"~"} \cup Names /\ "." \notin {"~"} \cup Names
    /\ ".." \notin {"~"} \cup Names /\ {"~", Slash} \cup Names \subseteq Tokens
  BY NamesAssumption DEF Length, Tokens, Slash

-----------------------------------------------------------------------------
(* The changes of a tidy path. *)

LEMMA TidyRoot == Tidy([o \in {0} |-> Slash], 1)
  BY Lengths DEF Tidy, Slashes, Slash

LEMMA OfTidy ==
    ASSUME NEW at, NEW end \in Nat, Tidy(at, end)
    PROVE  /\ DOMAIN at \subseteq 0 .. end - 1 /\ 0 \in DOMAIN at /\ at[0] = Slash /\ end > 0
           /\ \A o \in DOMAIN at :
                /\ at[o] \in Tokens \ {".", ".."}
                /\ Length(at[o]) \in Nat /\ Length(at[o]) > 0 /\ o + Length(at[o]) <= end
                /\ at[o] = Slash => o + Length(at[o]) = o + 1
                /\ \A p \in DOMAIN at : o < p => o + Length(at[o]) <= p
                /\ o + Length(at[o]) # end =>
                     /\ o + Length(at[o]) \in DOMAIN at
                     /\ (at[o + Length(at[o])] = Slash <=> at[o] # Slash)
  BY Lengths DEF Tidy, Slashes

(* Cut off between two components it stays tidy. *)
LEMMA TidyCut ==
    ASSUME NEW at, NEW end \in Nat, Tidy(at, end),
           NEW c \in 1 .. end, c = end \/ c \in DOMAIN at
    PROVE  Tidy(Restrict(at, {o \in DOMAIN at : o < c}), c)
  <1> DEFINE kept == {o \in DOMAIN at : o < c}  cut == Restrict(at, kept)
  <1>1. DOMAIN at \subseteq 0 .. end - 1 /\ 0 \in DOMAIN at /\ at[0] = Slash
    BY OfTidy
  <1>2. DOMAIN cut = kept /\ \A o \in kept : cut[o] = at[o]
    BY DEF Restrict
  <1> HIDE DEF cut
  <1>3. DOMAIN cut \subseteq 0 .. c - 1 /\ 0 \in Slashes(cut)
    BY <1>1, <1>2 DEF Slashes
  <1>4. ASSUME NEW o \in DOMAIN cut
        PROVE  /\ cut[o] \in Tokens \ {".", ".."}
               /\ \A p \in DOMAIN cut : o < p => o + Length(cut[o]) <= p
               /\ o + Length(cut[o]) # c =>
                    /\ o + Length(cut[o]) \in DOMAIN cut
                    /\ (cut[o + Length(cut[o])] = Slash <=> cut[o] # Slash)
    <2>1. o \in DOMAIN at /\ o \in 0 .. c - 1 /\ cut[o] = at[o]
      BY <1>1, <1>2
    <2>2. /\ at[o] \in Tokens \ {".", ".."} /\ Length(at[o]) \in Nat
          /\ o + Length(at[o]) <= end
          /\ \A p \in DOMAIN at : o < p => o + Length(at[o]) <= p
          /\ o + Length(at[o]) # end =>
                     /\ o + Length(at[o]) \in DOMAIN at
                     /\ (at[o + Length(at[o])] = Slash <=> at[o] # Slash)
      BY <2>1, OfTidy
    <2>3. o + Length(at[o]) <= c
      BY <2>1, <2>2
    <2>4. ASSUME o + Length(at[o]) # c
          PROVE  /\ o + Length(at[o]) \in DOMAIN cut
                 /\ (at[o + Length(at[o])] = Slash <=> at[o] # Slash)
      BY <1>1, <1>2, <2>1, <2>2, <2>3, <2>4
    <2>5. QED BY <1>2, <2>1, <2>2, <2>4
  <1>5. QED BY <1>3, <1>4 DEF Tidy, cut

(* A component put behind it, with a slash between them, keeps it tidy. *)
LEMMA TidyAdd ==
    ASSUME NEW at, NEW end \in Nat, Tidy(at, end), NEW c \in {"~"} \cup Names,
           NEW start \in Nat, start = IF end - 1 \in Slashes(at) THEN end ELSE end + 1
    PROVE  Tidy([o \in DOMAIN at \cup {start - 1, start} |->
                   IF o = start THEN c ELSE IF o = start - 1 THEN Slash ELSE at[o]],
                start + Length(c))
  <1> DEFINE new == [o \in DOMAIN at \cup {start - 1, start} |->
                       IF o = start THEN c ELSE IF o = start - 1 THEN Slash ELSE at[o]]
  <1>0. /\ end > 0 /\ start \in {end, end + 1} /\ start > 0
        /\ Length(c) \in Nat /\ Length(c) > 0 /\ Length(Slash) = 1
        /\ c # Slash /\ c \in Tokens \ {".", ".."} /\ Slash \in Tokens \ {".", ".."}
    BY OfTidy, Lengths, NamesAssumption DEF Tokens, Slash
  <1>1. DOMAIN at \subseteq 0 .. end - 1 /\ 0 \in DOMAIN at /\ at[0] = Slash
    BY OfTidy
  <1>2. /\ DOMAIN new = DOMAIN at \cup {start - 1, start}
        /\ new[start] = c /\ new[start - 1] = Slash
        /\ \A o \in DOMAIN at : new[o] = at[o]
    BY <1>0, <1>1 DEF Slashes
  <1> HIDE DEF new
  <1>3. DOMAIN new \subseteq 0 .. (start + Length(c)) - 1 /\ 0 \in Slashes(new)
    BY <1>0, <1>1, <1>2 DEF Slashes
  <1>4. ASSUME NEW o \in DOMAIN new
        PROVE  /\ new[o] \in Tokens \ {".", ".."}
               /\ \A p \in DOMAIN new : o < p => o + Length(new[o]) <= p
               /\ o + Length(new[o]) # start + Length(c) =>
                    /\ o + Length(new[o]) \in DOMAIN new
                    /\ (new[o + Length(new[o])] = Slash <=> new[o] # Slash)
    <2>1. CASE o = start
      BY <1>0, <1>1, <1>2, <2>1
    <2>2. CASE o = start - 1
      BY <1>0, <1>1, <1>2, <2>2
    <2>3. CASE o \in DOMAIN at /\ o # start - 1
      <3>1. o \in 0 .. end - 1 /\ new[o] = at[o]
        BY <1>1, <1>2, <2>3
      <3>2. /\ at[o] \in Tokens \ {".", ".."} /\ Length(at[o]) \in Nat
            /\ o + Length(at[o]) <= end
            /\ at[o] = Slash => o + Length(at[o]) = o + 1
            /\ \A p \in DOMAIN at : o < p => o + Length(at[o]) <= p
            /\ o + Length(at[o]) # end =>
                     /\ o + Length(at[o]) \in DOMAIN at
                     /\ (at[o + Length(at[o])] = Slash <=> at[o] # Slash)
        BY <2>3, OfTidy
      <3>3. CASE end - 1 \in Slashes(at)
        <4>1. start = end /\ end - 1 \in DOMAIN at /\ o < end - 1
          BY <1>0, <2>3, <3>1, <3>3 DEF Slashes
        <4>2. o + Length(at[o]) <= end - 1
          BY <3>2, <4>1
        <4>3. QED BY <1>0, <1>1, <1>2, <3>1, <3>2, <4>1, <4>2
      <3>4. CASE end - 1 \notin Slashes(at)
        <4>1. start = end + 1
          BY <3>4
        <4>2. o + Length(at[o]) = end => at[o] # Slash
          BY <2>3, <3>1, <3>2, <3>4 DEF Slashes
        <4>3. QED BY <1>0, <1>1, <1>2, <3>1, <3>2, <4>1, <4>2
      <3>5. QED BY <3>3, <3>4
    <2>4. QED BY <1>2, <2>1, <2>2, <2>3
  <1>5. QED BY <1>3, <1>4 DEF Tidy, new

-----------------------------------------------------------------------------
(* The invariant: the buffer holds a tidy path, which fits into it while a name is
   resolved, and has no slash at its end afterwards. *)

Fits == limit \in Nat /\ dest \in 1 .. limit - 1 /\ Tidy(rpath, dest)
Unused == rpath = <<>> /\ dest = 0

PathInv ==
    /\ step \in {"idle", "begin", "resolve", "done", "failed"}
    /\ home \in Homes /\ cwd \in Cwds
    /\ dest \in Nat /\ limit \in Nat /\ (Unused \/ Tidy(rpath, dest))
    /\ step \in {"resolve", "done"} => Fits
    /\ step = "done" /\ dest > 1 => dest - 1 \notin Slashes(rpath)

LEMMA PathInitInv == PathInit => PathInv
  BY DEF PathInit, PathInv, Unused

(* toRealPath() and the failures leave the buffer alone. *)
LEMMA LeavesBuffer ==
    ASSUME PathInv, UNCHANGED <<environment, buffer>>, step' \in {"begin", "failed"}
    PROVE  PathInv'
  BY DEF PathInv, Unused, environment, buffer, Tidy, Slashes

LEMMA BeginsTidy ==
    ASSUME PathInv, NEW text, NEW rest, text.end \in Nat \ {0}, text.end < PathMax,
           Tidy(text.at, text.end), BeginWith(text, rest)
    PROVE  PathInv'
  <1>1. /\ rpath' = text.at /\ dest' = text.end /\ limit' = PathMax /\ step' = "resolve"
        /\ home' = home /\ cwd' = cwd
    BY DEF BeginWith, environment
  <1>2. Fits'
    BY <1>1, Lengths DEF Fits
  <1>3. QED BY <1>1, <1>2 DEF PathInv, Fits

(* The path is cut off between two components. *)
LEMMA CutsTidy ==
    ASSUME PathInv, step = "resolve", UNCHANGED <<home, cwd, limit>>,
           dest' \in 1 .. dest, dest' = dest \/ dest' \in DOMAIN rpath,
           rpath' = Restrict(rpath, {o \in DOMAIN rpath : o < dest'})
    PROVE  Fits' /\ dest' \in Nat /\ limit' \in Nat
  <1>1. Fits /\ dest \in Nat
    BY DEF PathInv
  <1>2. PICK c \in 1 .. dest : c = dest'
    OBVIOUS
  <1>3. Tidy(Restrict(rpath, {o \in DOMAIN rpath : o < c}), c)
    BY <1>1, <1>2, TidyCut DEF Fits
  <1>4. QED BY <1>1, <1>2, <1>3 DEF Fits

LEMMA LargerBoth ==
    ASSUME NEW a \in Nat, NEW b \in Nat
    PROVE  Max({a, b}) \in Nat /\ Max({a, b}) >= a /\ Max({a, b}) >= b
  <1>1. {a, b} \subseteq 0 .. (a + b) /\ {a, b} # {} /\ a + b \in Nat
    OBVIOUS
  <1>2. QED BY <1>1, GreatestOf

LEMMA BackUpInv ==
    ASSUME PathInv, BackUp
    PROVE  PathInv'
  <1>1. /\ step = "resolve" /\ step' = "resolve" /\ UNCHANGED <<home, cwd, limit>>
        /\ rpath' = Restrict(rpath, {o \in DOMAIN rpath : o < dest'})
        /\ Fits /\ dest \in Nat
    BY DEF BackUp, NextIs, environment, PathInv
  <1>2. /\ DOMAIN rpath \subseteq 0 .. dest - 1 /\ 0 \in DOMAIN rpath /\ rpath[0] = Slash
        /\ \A o \in DOMAIN rpath :
             /\ rpath[o] = Slash => o + Length(rpath[o]) = o + 1
             /\ o + Length(rpath[o]) # dest => o + Length(rpath[o]) \in DOMAIN rpath
    BY <1>1, OfTidy DEF Fits
  <1>3. dest' \in 1 .. dest /\ (dest' = dest \/ dest' \in DOMAIN rpath)
    <2>1. CASE dest <= 1
      BY <1>1, <2>1 DEF BackUp, Fits
    <2>2. CASE dest > 1
      <3> DEFINE before == {o \in Slashes(rpath) : o + 1 < dest}
      <3>1. before \subseteq 0 .. dest /\ 0 \in before
        BY <1>1, <1>2, <2>2 DEF Slashes
      <3>2. dest' = IF before = {} THEN -1 ELSE Max(before) + 1
        BY <1>1, <2>2 DEF BackUp
      <3>3. PICK m \in before : dest' = m + 1
        <4> HIDE DEF before
        <4>1. Max(before) \in before
          BY <1>1, <3>1, GreatestOf
        <4>2. QED BY <3>1, <3>2, <4>1
      <3>4. QED BY <1>1, <1>2, <3>3 DEF Slashes
    <2>3. QED BY <1>1, <2>1, <2>2
  <1>4. Fits' /\ dest' \in Nat /\ limit' \in Nat
    BY <1>1, <1>3, CutsTidy
  <1>5. QED BY <1>1, <1>4 DEF PathInv, Fits

LEMMA AddComponentInv ==
    ASSUME PathInv, AddComponent
    PROVE  PathInv'
  <1>1. /\ step = "resolve" /\ step' = "resolve" /\ UNCHANGED <<home, cwd>>
        /\ Fits /\ dest \in Nat /\ limit \in Nat
    BY DEF AddComponent, NextIs, environment, PathInv
  <1>2. PICK c \in {"~"} \cup Names : c = Head(name)
    BY DEF AddComponent, NextIs
  <1>3. PICK start \in Nat : start = Start
    BY <1>1 DEF Start
  <1>4. start = IF dest - 1 \in Slashes(rpath) THEN dest ELSE dest + 1
    BY <1>3 DEF Start
  <1>5. Length(c) \in Nat /\ PathMax \in Nat
    BY <1>2, Lengths
  <1>6. /\ dest' = start + Length(c)
        /\ rpath' = [o \in DOMAIN rpath \cup {start - 1, start} |->
                       IF o = start THEN c ELSE IF o = start - 1 THEN Slash ELSE rpath[o]]
        /\ limit' = IF start + Length(c) >= limit THEN limit + Max({PathMax, Length(c) + 1})
                    ELSE limit
    BY <1>2, <1>3 DEF AddComponent, Room, Larger
  <1>7. Tidy(rpath', dest')
    <2>1. Tidy([o \in DOMAIN rpath \cup {start - 1, start} |->
                  IF o = start THEN c ELSE IF o = start - 1 THEN Slash ELSE rpath[o]],
               start + Length(c))
      BY <1>1, <1>2, <1>4, TidyAdd DEF Fits
    <2>2. QED BY <1>6, <2>1
  <1>8. limit' \in Nat /\ dest' \in 1 .. limit' - 1 /\ dest' \in Nat
    <2>1. PICK more \in Nat : more = Max({PathMax, Length(c) + 1}) /\ more >= Length(c) + 1
      BY <1>5, LargerBoth
    <2>2. dest \in 1 .. limit - 1
      BY <1>1 DEF Fits
    <2>3. QED BY <1>1, <1>4, <1>5, <1>6, <2>1, <2>2
  <1>9. QED BY <1>1, <1>7, <1>8 DEF PathInv, Fits

LEMMA FinishInv ==
    ASSUME PathInv, Finish
    PROVE  PathInv'
  <1>1. /\ step = "resolve" /\ step' = "done" /\ UNCHANGED <<home, cwd, limit>>
        /\ dest' = IF dest > 1 /\ dest - 1 \in Slashes(rpath) THEN dest - 1 ELSE dest
        /\ rpath' = Restrict(rpath, {o \in DOMAIN rpath : o < dest'})
        /\ Fits /\ dest \in Nat
    BY DEF Finish, environment, PathInv
  <1>2. dest' \in 1 .. dest /\ (dest' = dest \/ dest' \in DOMAIN rpath)
    BY <1>1 DEF Slashes, Fits
  <1>3. Fits' /\ dest' \in Nat /\ limit' \in Nat
    BY <1>1, <1>2, CutsTidy
  <1>4. dest' > 1 => dest' - 1 \notin Slashes(rpath')
    <2> SUFFICES ASSUME dest' > 1, dest' - 1 \in Slashes(rpath') PROVE FALSE
      OBVIOUS
    <2>1. Slashes(rpath') \subseteq Slashes(rpath)
      BY <1>1 DEF Slashes, Restrict
    <2>2. dest' = dest - 1 /\ dest > 1 /\ dest - 1 \in Slashes(rpath)
      BY <1>1, <2>1
    <2>3. PICK o \in Slashes(rpath) : o = dest - 2
      BY <1>1, <2>1, <2>2
    <2>4. /\ o + Length(rpath[o]) = o + 1
          /\ o + Length(rpath[o]) # dest => (rpath[o + Length(rpath[o])] = Slash <=> rpath[o] # Slash)
      BY <1>1, <2>3, OfTidy DEF Fits, Slashes
    <2>5. rpath[dest - 1] = Slash /\ rpath[o] = Slash /\ o + 1 = dest - 1
      BY <1>1, <2>2, <2>3 DEF Slashes
    <2>6. QED BY <1>1, <2>4, <2>5
  <1>5. QED BY <1>1, <1>3, <1>4 DEF PathInv, Fits

-----------------------------------------------------------------------------
LEMMA ResolveInv ==
    ASSUME PathInv, ResolveStep
    PROVE  PathInv'
  <1>1. \A text \in Homes \cup Cwds : text.end \in Nat \ {0} /\ Tidy(text.at, text.end)
    BY TextsAssumption
  <1>2. ASSUME Fail PROVE PathInv'
    BY <1>2, LeavesBuffer DEF Fail
  <1>3. ASSUME NoMemory PROVE PathInv'
    BY <1>2, <1>3 DEF NoMemory
  <1>4. ASSUME BeginAtRoot PROVE PathInv'
    <2> DEFINE root == Text([o \in {0} |-> Slash], 1)
    <2>1. root.end \in Nat \ {0} /\ root.end < PathMax /\ Tidy(root.at, root.end)
      BY TidyRoot, Lengths DEF Text
    <2>2. BeginWith(root, name)
      BY <1>4 DEF BeginAtRoot
    <2> HIDE DEF root
    <2>3. QED BY <2>1, <2>2, BeginsTidy
  <1>5. ASSUME BeginAtHome PROVE PathInv'
    <2>1. home \in Homes
      BY DEF PathInv
    <2>2. QED BY <1>1, <1>2, <1>5, <2>1, BeginsTidy DEF BeginAtHome
  <1>6. ASSUME BeginAtCwd PROVE PathInv'
    <2>1. cwd \in Cwds
      BY DEF PathInv
    <2>2. QED BY <1>1, <1>2, <1>6, <2>1, BeginsTidy DEF BeginAtCwd
  <1>7. ASSUME Skip PROVE PathInv'
    BY <1>7 DEF Skip, NextIs, PathInv, Fits, Unused, environment, buffer, Tidy, Slashes
  <1>8. ASSUME NoRoom PROVE PathInv'
    BY <1>2, <1>8 DEF NoRoom
  <1>9. QED
    BY <1>3, <1>4, <1>5, <1>6, <1>7, <1>8, BackUpInv, AddComponentInv, FinishInv DEF ResolveStep

(* Everything else leaves the variables of RealPath alone. *)
LEMMA OnlyPath ==
    ASSUME PathInv, UNCHANGED pathVars
    PROVE  PathInv'
  BY DEF PathInv, Fits, Unused, pathVars, environment, buffer, Tidy, Slashes

-----------------------------------------------------------------------------
(* Walks. *)

LEMMA EnterType ==
    ASSUME NEW T, NEW dir \in Seq(T), NEW c \in T
    PROVE  Enter(dir, c) \in Seq(T)
  <1>1. CASE dir = <<>>
    BY <1>1 DEF Enter
  <1>2. CASE dir # <<>>
    BY <1>2 DEF Enter, Front
  <1>3. QED BY <1>1, <1>2

(* The directories after each component of a path. *)
Walked(dir, path) ==
    CHOOSE after : after = [n \in 0 .. Len(path) |->
                              IF n = 0 THEN dir ELSE Enter(after[n - 1], path[n])]

LEMMA WalkIsLast ==
    ASSUME NEW dir, NEW path
    PROVE  Walk(dir, path) = Walked(dir, path)[Len(path)]
  BY Zenon DEF Walk, Walked

LEMMA WalkedIs ==
    ASSUME NEW T, NEW dir \in Seq(T), NEW path \in Seq(T)
    PROVE  /\ DOMAIN Walked(dir, path) = 0 .. Len(path) /\ Walked(dir, path)[0] = dir
           /\ \A i \in 1 .. Len(path) :
                Walked(dir, path)[i] = Enter(Walked(dir, path)[i - 1], path[i])
  <1> DEFINE turn == [i \in 1 .. Len(path) |-> [d \in Seq(T) |-> Enter(d, path[i])]]
  <1>1. PICK S : S = Seq(T)
    OBVIOUS
  <1>2. PICK n \in Nat : n = Len(path)
    OBVIOUS
  <1>3. \A i \in 1 .. n : \A d \in S : turn[i][d] \in S /\ turn[i][d] = Enter(d, path[i])
    <2> SUFFICES ASSUME NEW i \in 1 .. n, NEW d \in S
                 PROVE  turn[i][d] \in S /\ turn[i][d] = Enter(d, path[i])
      OBVIOUS
    <2>1. path[i] \in T /\ d \in Seq(T)
      BY <1>1, <1>2
    <2>2. Enter(d, path[i]) \in Seq(T)
      BY <2>1, EnterType
    <2>3. QED BY <1>1, <1>2, <2>1, <2>2
  <1>4. PICK g : IsRun(g, S, dir, n, turn)
    <2> HIDE DEF turn
    <2>1. dir \in S
      BY <1>1
    <2>2. QED BY <1>3, <2>1, RecursionExists, Zenon
  <1> HIDE DEF turn
  <1>5. g \in [0 .. n -> S] /\ g[0] = dir /\ \A i \in 1 .. n : g[i] = Enter(g[i - 1], path[i])
    BY <1>3, <1>4 DEF IsRun
  <1>6. g = [i \in 0 .. Len(path) |-> IF i = 0 THEN dir ELSE Enter(g[i - 1], path[i])]
    BY <1>2, <1>5
  <1>7. PICK a : a = Walked(dir, path)
    OBVIOUS
  <1>8. a = [i \in 0 .. Len(path) |-> IF i = 0 THEN dir ELSE Enter(a[i - 1], path[i])]
    BY <1>6, <1>7 DEF Walked
  <1>9. QED BY <1>7, <1>8

(* A function that follows the path ends where the walk does. *)
Follows(g, dir, path) ==
    g[0] = dir /\ \A i \in 1 .. Len(path) : g[i] = Enter(g[i - 1], path[i])

LEMMA WalkIs ==
    ASSUME NEW T, NEW dir \in Seq(T), NEW path \in Seq(T), NEW g, Follows(g, dir, path)
    PROVE  /\ Walk(dir, path) = g[Len(path)]
           /\ \A i \in 0 .. Len(path) : g[i] \in Seq(T)
  <1> DEFINE a == Walked(dir, path)
             Good == {k \in Nat : k <= Len(path) => a[k] = g[k] /\ g[k] \in Seq(T)}
  <1>1. Follows(a, dir, path)
    BY WalkedIs DEF Follows
  <1> HIDE DEF a
  <1>2. 0 \in Good
    BY <1>1 DEF Follows
  <1>3. ASSUME NEW k \in Nat, k \in Good PROVE k + 1 \in Good
    <2> SUFFICES ASSUME k + 1 <= Len(path)
                 PROVE  a[k + 1] = g[k + 1] /\ g[k + 1] \in Seq(T)
      OBVIOUS
    <2>1. k + 1 \in 1 .. Len(path) /\ path[k + 1] \in T /\ a[k] = g[k] /\ g[k] \in Seq(T)
      BY <1>3
    <2>2. a[k + 1] = Enter(a[k], path[k + 1]) /\ g[k + 1] = Enter(g[k], path[k + 1])
      BY <1>1, <2>1 DEF Follows
    <2>3. QED BY <2>1, <2>2, EnterType
  <1>4. Nat \subseteq Good
    <2> HIDE DEF Good
    <2>1. QED BY <1>2, <1>3, Induction
  <1>5. QED BY <1>4, WalkIsLast DEF a

LEMMA WalkExists ==
    ASSUME NEW T, NEW dir \in Seq(T), NEW path \in Seq(T)
    PROVE  \E g : Follows(g, dir, path)
  <1>1. Follows(Walked(dir, path), dir, path)
    BY WalkedIs DEF Follows
  <1>2. QED BY <1>1

LEMMA WalkType ==
    ASSUME NEW T, NEW dir \in Seq(T), NEW path \in Seq(T)
    PROVE  Walk(dir, path) \in Seq(T)
  <1>1. PICK g : Follows(g, dir, path)
    BY WalkExists
  <1>2. QED BY <1>1, WalkIs

(* A path that is two paths, one behind the other. *)
Joins(r, p, q) == r = p \o q

LEMMA Joined ==
    ASSUME NEW T, NEW p \in Seq(T), NEW q \in Seq(T)
    PROVE  \E r \in Seq(T) : Joins(r, p, q)
  <1>1. p \o q \in Seq(T)
    OBVIOUS
  <1>2. QED BY <1>1, Zenon DEF Joins

LEMMA WalkOn ==
    ASSUME NEW T, NEW dir \in Seq(T), NEW p \in Seq(T), NEW q \in Seq(T), NEW r \in Seq(T),
           Joins(r, p, q)
    PROVE  Walk(dir, r) = Walk(Walk(dir, p), q)
  <1>1. PICK g : Follows(g, dir, r)
    BY WalkExists
  <1>2. /\ Len(r) = Len(p) + Len(q)
        /\ \A i \in 1 .. Len(p) : i \in 1 .. Len(r) /\ r[i] = p[i]
        /\ \A i \in 1 .. Len(q) : Len(p) + i \in 1 .. Len(r) /\ r[Len(p) + i] = q[i]
    BY DEF Joins
  <1>3. Follows(g, dir, p)
    BY <1>1, <1>2 DEF Follows
  <1>4. Walk(dir, p) = g[Len(p)] /\ g[Len(p)] \in Seq(T)
    BY <1>3, WalkIs
  <1> DEFINE h == [i \in 0 .. Len(q) |-> g[Len(p) + i]]
  <1>5. h[0] = Walk(dir, p) /\ h[Len(q)] = g[Len(r)]
    BY <1>2, <1>4
  <1>6. ASSUME NEW i \in 1 .. Len(q) PROVE h[i] = Enter(h[i - 1], q[i])
    <2>1. g[Len(p) + i] = Enter(g[(Len(p) + i) - 1], q[i])
      BY <1>1, <1>2 DEF Follows
    <2>2. (Len(p) + i) - 1 = Len(p) + (i - 1)
      OBVIOUS
    <2>3. QED BY <2>1, <2>2
  <1>7. Follows(h, Walk(dir, p), q)
    BY <1>5, <1>6 DEF Follows
  <1>8. Walk(Walk(dir, p), q) = h[Len(q)]
    <2> HIDE DEF h
    <2>1. Walk(dir, p) \in Seq(T)
      BY <1>4
    <2>2. QED BY <1>7, <2>1, WalkIs
  <1>9. Walk(dir, r) = g[Len(r)]
    BY <1>1, WalkIs
  <1>10. QED BY <1>5, <1>8, <1>9

LEMMA OneToken ==
    ASSUME NEW T, NEW c \in T
    PROVE  \E s \in Seq(T) : s = <<c>> /\ s # <<>> /\ Len(s) = 1 /\ s[1] = c
                              /\ Head(s) = c /\ Tail(s) = <<>>
  <1>1. /\ <<c>> \in Seq(T) /\ <<c>> # <<>> /\ Len(<<c>>) = 1 /\ <<c>>[1] = c
        /\ Head(<<c>>) = c /\ Tail(<<c>>) = <<>>
    OBVIOUS
  <1>2. QED BY <1>1, Zenon

LEMMA WalkNothing ==
    ASSUME NEW T, NEW dir \in Seq(T)
    PROVE  Walk(dir, <<>>) = dir
  <1> DEFINE g == [i \in {0} |-> dir]
  <1>1. PICK none \in Seq(T) : none = <<>> /\ Len(none) = 0
    <2>1. <<>> \in Seq(T) /\ Len(<<>>) = 0
      OBVIOUS
    <2>2. QED BY <2>1
  <1>2. Follows(g, dir, none) /\ g[0] = dir
    BY <1>1 DEF Follows
  <1> HIDE DEF g
  <1>3. Walk(dir, none) = g[Len(none)]
    BY <1>2, WalkIs
  <1>4. QED BY <1>1, <1>2, <1>3

LEMMA WalkFirst ==
    ASSUME NEW T, NEW dir \in Seq(T), NEW path \in Seq(T), path # <<>>
    PROVE  Walk(dir, path) = Walk(Enter(dir, Head(path)), Tail(path))
  <1>1. PICK p \in Seq(T) : p = <<Head(path)>> /\ Len(p) = 1 /\ p[1] = Head(path)
    <2>1. Head(path) \in T
      OBVIOUS
    <2>2. QED BY <2>1, OneToken
  <1>2. PICK q \in Seq(T) : q = Tail(path)
    <2>1. Tail(path) \in Seq(T)
      OBVIOUS
    <2>2. QED BY <2>1
  <1>3. Joins(path, p, q)
    BY <1>1, <1>2 DEF Joins
  <1> DEFINE g == [i \in 0 .. 1 |-> IF i = 0 THEN dir ELSE Enter(dir, Head(path))]
  <1>4. g[0] = dir /\ g[1] = Enter(dir, Head(path))
    OBVIOUS
  <1> HIDE DEF g
  <1>5. Follows(g, dir, p)
    BY <1>1, <1>4 DEF Follows
  <1>6. Walk(dir, p) = g[1]
    BY <1>1, <1>5, WalkIs, ZenonT(30)
  <1>7. Walk(dir, path) = Walk(Walk(dir, p), q)
    BY <1>3, WalkOn
  <1>8. QED BY <1>2, <1>4, <1>6, <1>7

-----------------------------------------------------------------------------
(* The components in a buffer. *)

Below(at, end) ==
    CHOOSE below : below = [n \in 0 .. end |->
                              IF n = 0 THEN <<>> ELSE AndAt(below[n - 1], at, n - 1)]

Lists(below, at, end) ==
    below[0] = <<>> /\ \A n \in 1 .. end : below[n] = AndAt(below[n - 1], at, n - 1)

LEMMA ComponentsBelowIs ==
    ASSUME NEW at, NEW end
    PROVE  ComponentsBelow(at, end) = Below(at, end)[end]
  BY Zenon DEF ComponentsBelow, Below

LEMMA BelowLists ==
    ASSUME NEW T, NEW at, NEW end \in Nat, \A o \in DOMAIN at : at[o] \in T
    PROVE  Lists(Below(at, end), at, end)
  <1> DEFINE turn == [n \in 1 .. end |-> [s \in Seq(T) |-> AndAt(s, at, n - 1)]]
  <1>1. PICK S : S = Seq(T)
    OBVIOUS
  <1>2. \A n \in 1 .. end : \A s \in S : turn[n][s] \in S /\ turn[n][s] = AndAt(s, at, n - 1)
    BY <1>1 DEF AndAt
  <1>3. PICK g : IsRun(g, S, <<>>, end, turn)
    <2> HIDE DEF turn
    <2>1. <<>> \in S
      BY <1>1
    <2>2. QED BY <1>2, <2>1, RecursionExists, Zenon
  <1> HIDE DEF turn
  <1>4. /\ g \in [0 .. end -> S] /\ g[0] = <<>>
        /\ \A n \in 1 .. end : g[n] = AndAt(g[n - 1], at, n - 1)
    BY <1>2, <1>3 DEF IsRun
  <1>5. g = [n \in 0 .. end |-> IF n = 0 THEN <<>> ELSE AndAt(g[n - 1], at, n - 1)]
    BY <1>4
  <1>6. PICK b : b = Below(at, end)
    OBVIOUS
  <1>7. b = [n \in 0 .. end |-> IF n = 0 THEN <<>> ELSE AndAt(b[n - 1], at, n - 1)]
    BY <1>5, <1>6 DEF Below
  <1>8. QED BY <1>6, <1>7, SMTT(30) DEF Lists

(* Two buffers with the same components at the same offsets. *)
LEMMA BelowAgree ==
    ASSUME NEW end \in Nat, NEW at, NEW at2, NEW a, NEW b, Lists(a, at, end), Lists(b, at2, end),
           \A n \in 0 .. end - 1 :
             /\ n \in DOMAIN at \ Slashes(at) <=> n \in DOMAIN at2 \ Slashes(at2)
             /\ n \in DOMAIN at \ Slashes(at) => at[n] = at2[n]
    PROVE  a[end] = b[end]
  <1> DEFINE Good == {k \in Nat : k <= end => a[k] = b[k]}
  <1>1. 0 \in Good
    BY DEF Lists
  <1>2. ASSUME NEW k \in Nat, k \in Good PROVE k + 1 \in Good
    <2> SUFFICES ASSUME k + 1 <= end PROVE a[k + 1] = b[k + 1]
      OBVIOUS
    <2>1. k + 1 \in 1 .. end /\ k \in 0 .. end - 1 /\ (k + 1) - 1 = k /\ a[k] = b[k]
      BY <1>2
    <2>2. a[k + 1] = AndAt(a[k], at, k) /\ b[k + 1] = AndAt(b[k], at2, k)
      BY <2>1 DEF Lists
    <2>3. AndAt(a[k], at, k) = AndAt(a[k], at2, k)
      BY <2>1 DEF AndAt
    <2>4. QED BY <2>1, <2>2, <2>3
  <1>3. Nat \subseteq Good
    <2> HIDE DEF Good
    <2>1. QED BY <1>1, <1>2, Induction
  <1>4. QED BY <1>3

LEMMA BelowEqual ==
    ASSUME NEW T, NEW end \in Nat, NEW at, NEW at2,
           \A o \in DOMAIN at : at[o] \in T, \A o \in DOMAIN at2 : at2[o] \in T,
           \A n \in 0 .. end - 1 :
             /\ n \in DOMAIN at \ Slashes(at) <=> n \in DOMAIN at2 \ Slashes(at2)
             /\ n \in DOMAIN at \ Slashes(at) => at[n] = at2[n]
    PROVE  ComponentsBelow(at, end) = ComponentsBelow(at2, end)
  <1>1. Lists(Below(at, end), at, end) /\ Lists(Below(at2, end), at2, end)
    BY BelowLists
  <1>2. QED BY <1>1, BelowAgree, ComponentsBelowIs

LEMMA BelowNext ==
    ASSUME NEW T, NEW at, NEW end \in Nat, \A o \in DOMAIN at : at[o] \in T
    PROVE  ComponentsBelow(at, end + 1) = AndAt(ComponentsBelow(at, end), at, end)
  <1> DEFINE a == Below(at, end + 1)  b == Below(at, end)
  <1>1. Lists(b, at, end)
    BY BelowLists
  <1>2. Lists(a, at, end + 1)
    <2>1. end + 1 \in Nat
      OBVIOUS
    <2>2. QED BY <2>1, BelowLists
  <1> HIDE DEF a, b
  <1>3. Lists(a, at, end) /\ a[end + 1] = AndAt(a[end], at, end)
    <2>1. end + 1 \in 1 .. end + 1 /\ (end + 1) - 1 = end /\ 1 .. end \subseteq 1 .. end + 1
      OBVIOUS
    <2>2. QED BY <1>2, <2>1 DEF Lists
  <1>4. a[end] = b[end]
    BY <1>1, <1>3, BelowAgree
  <1>5. QED BY <1>3, <1>4, ComponentsBelowIs DEF a, b

LEMMA BelowNone ==
    ASSUME NEW T, NEW at, \A o \in DOMAIN at : at[o] \in T
    PROVE  ComponentsBelow(at, 0) = <<>>
  <1>1. Lists(Below(at, 0), at, 0)
    BY BelowLists
  <1>2. QED BY <1>1, ComponentsBelowIs DEF Lists

LEMMA BelowType ==
    ASSUME NEW T, NEW at, NEW end \in Nat, \A o \in DOMAIN at : at[o] \in T
    PROVE  ComponentsBelow(at, end) \in Seq(T)
  <1> DEFINE Good == {k \in Nat : ComponentsBelow(at, k) \in Seq(T)}
  <1>1. 0 \in Good
    <2>1. ComponentsBelow(at, 0) = <<>>
      BY BelowNone
    <2>2. <<>> \in Seq(T)
      OBVIOUS
    <2>3. ComponentsBelow(at, 0) \in Seq(T)
      BY <2>1, <2>2, Zenon
    <2>4. QED BY <2>3
  <1>2. ASSUME NEW k \in Nat, k \in Good PROVE k + 1 \in Good
    <2>1. ComponentsBelow(at, k + 1) = AndAt(ComponentsBelow(at, k), at, k)
      BY BelowNext
    <2>2. AndAt(ComponentsBelow(at, k), at, k) \in Seq(T)
      BY <1>2 DEF AndAt
    <2>3. QED BY <2>1, <2>2
  <1>3. Nat \subseteq Good
    <2> HIDE DEF Good
    <2>1. QED BY <1>1, <1>2, Induction
  <1>4. QED BY <1>3

(* Where nothing but slashes follows, no component is added. *)
LEMMA BelowMore ==
    ASSUME NEW T, NEW at, NEW start \in Nat, NEW end \in Nat, \A o \in DOMAIN at : at[o] \in T,
           start <= end, \A o \in start .. end - 1 : o \notin DOMAIN at \ Slashes(at)
    PROVE  ComponentsBelow(at, end) = ComponentsBelow(at, start)
  <1> DEFINE Good == {k \in Nat : start + k <= end =>
                        ComponentsBelow(at, start + k) = ComponentsBelow(at, start)}
  <1>1. 0 \in Good
    OBVIOUS
  <1>2. ASSUME NEW k \in Nat, k \in Good PROVE k + 1 \in Good
    <2> SUFFICES ASSUME start + (k + 1) <= end
                 PROVE  ComponentsBelow(at, start + (k + 1)) = ComponentsBelow(at, start)
      OBVIOUS
    <2>1. PICK n \in Nat : n = start + k /\ n + 1 = start + (k + 1) /\ n \in start .. end - 1
      OBVIOUS
    <2>2. ComponentsBelow(at, n + 1) = AndAt(ComponentsBelow(at, n), at, n)
      BY BelowNext
    <2>3. ComponentsBelow(at, n) = ComponentsBelow(at, start)
      BY <1>2, <2>1
    <2>4. QED BY <2>1, <2>2, <2>3 DEF AndAt
  <1>3. end - start \in Good
    <2> HIDE DEF Good
    <2>1. QED BY <1>1, <1>2, Induction
  <1>4. QED BY <1>3

LEMMA ComponentsAre ==
    ASSUME NEW T, NEW at, NEW end \in Nat, \A o \in DOMAIN at : at[o] \in T,
           DOMAIN at \subseteq 0 .. end - 1, 0 \in DOMAIN at
    PROVE  Components(at) = ComponentsBelow(at, end)
  <1>1. /\ Max(DOMAIN at) \in DOMAIN at /\ \A o \in DOMAIN at : Max(DOMAIN at) >= o
    <2>1. DOMAIN at \subseteq 0 .. end /\ DOMAIN at # {}
      OBVIOUS
    <2>2. QED BY <2>1, GreatestOf
  <1>2. PICK start \in Nat : start = Max(DOMAIN at) + 1
    BY <1>1
  <1>3. start <= end /\ \A o \in start .. end - 1 : o \notin DOMAIN at \ Slashes(at)
    BY <1>1, <1>2
  <1>4. ComponentsBelow(at, end) = ComponentsBelow(at, start)
    BY <1>3, BelowMore, ZenonT(30)
  <1>5. QED BY <1>2, <1>4 DEF Components

-----------------------------------------------------------------------------
(* The changes of a tidy path, as changes of its components. *)

LEMMA TidyComponents ==
    ASSUME NEW at, NEW end \in Nat, Tidy(at, end)
    PROVE  /\ Components(at) = ComponentsBelow(at, end)
           /\ Components(at) \in Seq(Tokens)
           /\ \A o \in DOMAIN at : at[o] \in Tokens
  <1>1. /\ DOMAIN at \subseteq 0 .. end - 1 /\ 0 \in DOMAIN at
        /\ \A o \in DOMAIN at : at[o] \in Tokens
    BY OfTidy
  <1>2. Components(at) = ComponentsBelow(at, end)
    BY <1>1, ComponentsAre
  <1>3. QED BY <1>1, <1>2, BelowType

LEMMA RootMeans == Components([o \in {0} |-> Slash]) = <<>>
  <1> DEFINE at == [o \in {0} |-> Slash]
  <1>1. Tidy(at, 1)
    BY TidyRoot
  <1>2. 0 \in Slashes(at) /\ \A o \in DOMAIN at : o = 0
    BY DEF Slashes
  <1> HIDE DEF at
  <1>3. Components(at) = ComponentsBelow(at, 1) /\ \A o \in DOMAIN at : at[o] \in Tokens
    BY <1>1, TidyComponents
  <1>4. ComponentsBelow(at, 1) = ComponentsBelow(at, 0)
    BY <1>2, <1>3, BelowMore
  <1>5. ComponentsBelow(at, 0) = <<>>
    BY <1>3, BelowNone
  <1>6. QED BY <1>3, <1>4, <1>5 DEF at

LEMMA AddMeans ==
    ASSUME NEW at, NEW end \in Nat, Tidy(at, end), NEW c \in {"~"} \cup Names,
           NEW start \in Nat, start = IF end - 1 \in Slashes(at) THEN end ELSE end + 1
    PROVE  Components([o \in DOMAIN at \cup {start - 1, start} |->
                         IF o = start THEN c ELSE IF o = start - 1 THEN Slash ELSE at[o]])
             = Append(Components(at), c)
  <1> DEFINE new == [o \in DOMAIN at \cup {start - 1, start} |->
                       IF o = start THEN c ELSE IF o = start - 1 THEN Slash ELSE at[o]]
  <1>1. Tidy(new, start + Length(c)) /\ c # Slash /\ start + Length(c) \in Nat
    BY TidyAdd, Lengths
  <1>2. DOMAIN at \subseteq 0 .. end - 1 /\ end > 0 /\ start \in {end, end + 1}
    BY OfTidy
  <1>3. /\ DOMAIN new = DOMAIN at \cup {start - 1, start} /\ new[start] = c
        /\ new[start - 1] = Slash /\ \A o \in DOMAIN at : new[o] = at[o]
    BY <1>2 DEF Slashes
  <1> HIDE DEF new
  <1>4. \A o \in DOMAIN at : at[o] \in Tokens
    BY TidyComponents
  <1>5. \A o \in DOMAIN new : new[o] \in Tokens
    BY <1>1, TidyComponents
  <1>6. Components(new) = ComponentsBelow(new, start + 1)
    <2>1. DOMAIN new \subseteq 0 .. (start + 1) - 1 /\ 0 \in DOMAIN new /\ start + 1 \in Nat
      BY <1>2, <1>3, OfTidy
    <2>2. QED BY <1>5, <2>1, ComponentsAre
  <1>7. ComponentsBelow(new, start + 1) = AndAt(ComponentsBelow(new, start), new, start)
    BY <1>5, BelowNext
  <1>8. ComponentsBelow(new, start) = ComponentsBelow(new, end)
    <2>1. \A o \in end .. start - 1 : o \notin DOMAIN new \ Slashes(new)
      BY <1>2, <1>3 DEF Slashes
    <2>2. end <= start
      BY <1>2
    <2>3. QED BY <1>5, <2>1, <2>2, BelowMore
  <1>9. ComponentsBelow(new, end) = ComponentsBelow(at, end)
    <2>1. ASSUME NEW n \in 0 .. end - 1
          PROVE  /\ n \in DOMAIN new \ Slashes(new) <=> n \in DOMAIN at \ Slashes(at)
                 /\ n \in DOMAIN new \ Slashes(new) => new[n] = at[n]
      BY <1>2, <1>3 DEF Slashes
    <2>2. QED BY <1>4, <1>5, <2>1, BelowEqual
  <1>10. start \in DOMAIN new \ Slashes(new)
    BY <1>1, <1>3 DEF Slashes
  <1>11. Components(at) = ComponentsBelow(at, end)
    BY TidyComponents
  <1>12. QED BY <1>3, <1>6, <1>7, <1>8, <1>9, <1>10, <1>11 DEF AndAt, new

LEMMA CutMeans ==
    ASSUME NEW at, NEW end \in Nat, Tidy(at, end),
           NEW c \in 1 .. end, c = end \/ c \in DOMAIN at
    PROVE  Components(Restrict(at, {o \in DOMAIN at : o < c})) = ComponentsBelow(at, c)
  <1> DEFINE kept == {o \in DOMAIN at : o < c}  cut == Restrict(at, kept)
  <1>1. Tidy(cut, c)
    BY TidyCut
  <1>2. DOMAIN cut = kept /\ \A o \in kept : cut[o] = at[o]
    BY DEF Restrict
  <1> HIDE DEF cut
  <1>3. /\ Components(cut) = ComponentsBelow(cut, c)
        /\ \A o \in DOMAIN cut : cut[o] \in Tokens
        /\ \A o \in DOMAIN at : at[o] \in Tokens
    BY <1>1, TidyComponents
  <1>4. ASSUME NEW n \in 0 .. c - 1
        PROVE  /\ n \in DOMAIN cut \ Slashes(cut) <=> n \in DOMAIN at \ Slashes(at)
               /\ n \in DOMAIN cut \ Slashes(cut) => cut[n] = at[n]
    BY <1>2 DEF Slashes
  <1>5. ComponentsBelow(cut, c) = ComponentsBelow(at, c)
    BY <1>3, <1>4, BelowEqual
  <1>6. QED BY <1>3, <1>5 DEF cut

(* Behind the last slash that has something behind it is the last component. *)
LEMMA LastMeans ==
    ASSUME NEW at, NEW end \in Nat, Tidy(at, end), NEW m \in Slashes(at), m + 1 < end,
           \A o \in Slashes(at) : o + 1 < end => o <= m
    PROVE  Components(at) = Append(ComponentsBelow(at, m + 1), at[m + 1])
  <1>1. /\ m \in DOMAIN at /\ m \in Nat /\ at[m] = Slash /\ DOMAIN at \subseteq 0 .. end - 1
        /\ m + 1 \in DOMAIN at /\ at[m + 1] # Slash
    BY OfTidy DEF Slashes
  <1>2. PICK s \in Nat : s = m + 1
    BY <1>1
  <1>3. \A o \in s + 1 .. end - 1 : o \notin DOMAIN at \ Slashes(at)
    <2> SUFFICES ASSUME NEW o \in DOMAIN at, o > s, at[o] # Slash PROVE FALSE
      BY <1>1, <1>2 DEF Slashes
    <2> DEFINE next == s + Length(at[s])
    <2>1. /\ next \in Nat /\ next <= o /\ o < end
          /\ next # end => next \in DOMAIN at /\ at[next] = Slash
      BY <1>1, <1>2, OfTidy
    <2>2. next \in Slashes(at) /\ next > m
      BY <1>1, <1>2, <2>1, OfTidy DEF Slashes
    <2>3. next + 1 >= end
      BY <1>1, <2>1, <2>2
    <2>4. next = o
      BY <1>1, <2>1, <2>3
    <2>5. QED BY <2>1, <2>4
  <1>4. Components(at) = ComponentsBelow(at, end) /\ \A o \in DOMAIN at : at[o] \in Tokens
    BY TidyComponents
  <1>5. ComponentsBelow(at, end) = ComponentsBelow(at, s + 1)
    <2>1. s + 1 \in Nat /\ s + 1 <= end
      BY <1>2
    <2>2. QED BY <1>3, <1>4, <2>1, BelowMore, ZenonT(30)
  <1>6. ComponentsBelow(at, s + 1) = AndAt(ComponentsBelow(at, s), at, s)
    BY <1>4, BelowNext
  <1>7. s \in DOMAIN at \ Slashes(at)
    BY <1>1, <1>2 DEF Slashes
  <1>8. QED BY <1>2, <1>4, <1>5, <1>6, <1>7 DEF AndAt

-----------------------------------------------------------------------------
(* Where a name leads, is said by its first token and by the walk along the rest. *)

Origin(path) ==
    IF Head(path) = Slash THEN <<>>
    ELSE IF Head(path) = "~" THEN Components(home.at) ELSE Components(cwd.at)
Rest(path) == IF Head(path) = "~" THEN Tail(path) ELSE path

(* The code's way of reading a name, where Meant has the documented one: a hidden
   name is not put into the directory of the prefix. *)
Along(path, plain) ==
    CASE Head(path) = Slash -> Walk(<<>>, path)
      [] Head(path) = "~" -> Walk(Components(home.at), Tail(path))
      [] Head(path) \in {".", ".."} \cup Hidden -> Walk(Components(cwd.at), path)
      [] OTHER -> Walk(plain, path)

LeadsTo(a) ==
    LET here == Components(cwd.at)
        prefixDir == IF a.prefix = <<>> THEN here ELSE Along(a.prefix, here)
        isDir == Last(a.old) = Slash \/ EndsInDot(a.old)
    IN  Along(IF isDir THEN Append(a.old, Slash) \o a.default ELSE a.old, prefixDir)

LEMMA OriginType ==
    ASSUME PathInv, NEW T, Tokens \subseteq T
    PROVE  /\ Components(home.at) \in Seq(T) /\ Components(cwd.at) \in Seq(T) /\ <<>> \in Seq(T)
           /\ \A path : Origin(path) \in Seq(T)
  <1>1. \A text \in Homes \cup Cwds : text.end \in Nat /\ Tidy(text.at, text.end)
    BY TextsAssumption
  <1>2. \A text \in Homes \cup Cwds : Components(text.at) \in Seq(Tokens)
    BY <1>1, TidyComponents
  <1>3. \A s \in Seq(Tokens) : s \in Seq(T)
    OBVIOUS
  <1>4. home \in Homes /\ cwd \in Cwds
    BY DEF PathInv
  <1>5. Components(home.at) \in Seq(T) /\ Components(cwd.at) \in Seq(T)
    BY <1>2, <1>3, <1>4
  <1>6. <<>> \in Seq(T)
    OBVIOUS
  <1>7. QED BY <1>5, <1>6 DEF Origin

LEMMA AlongIs ==
    ASSUME NEW path, NEW plain,
           BeginsSpecial(path) \/ plain = Components(cwd.at)
    PROVE  Along(path, plain) = Walk(Origin(path), Rest(path))
  <1>1. Hidden \cap {Slash, "~"} = {} /\ Slash # "~"
    BY NamesAssumption DEF Slash
  <1>2. QED BY <1>1 DEF Along, Origin, Rest, BeginsSpecial, Slash

LEMMA AlongPlain ==
    ASSUME NEW path, NEW plain, ~BeginsSpecial(path)
    PROVE  Along(path, plain) = Walk(plain, path)
  BY DEF Along, BeginsSpecial

LEMMA RestOn ==
    ASSUME NEW T, NEW p \in Seq(T), NEW q \in Seq(T), NEW r \in Seq(T), p # <<>>, Joins(r, p, q)
    PROVE  /\ r # <<>> /\ Head(r) = Head(p) /\ Origin(r) = Origin(p)
           /\ Joins(Rest(r), Rest(p), q) /\ Rest(p) \in Seq(T) /\ Rest(r) \in Seq(T)
  <1>1. r # <<>> /\ Head(r) = Head(p)
    BY DEF Joins
  <1>2. Tail(r) = Tail(p) \o q
    BY DEF Joins
  <1>3. Rest(p) \in Seq(T) /\ Rest(r) \in Seq(T)
    BY <1>1 DEF Rest
  <1>4. Joins(Rest(r), Rest(p), q)
    BY <1>1, <1>2 DEF Rest, Joins
  <1>5. QED BY <1>1, <1>3, <1>4 DEF Origin

LEMMA WalkSlash ==
    ASSUME NEW T, NEW dir \in Seq(T), NEW p \in Seq(T), NEW s \in Seq(T), NEW r \in Seq(T),
           Slash \in T, Len(s) = 1, s[1] = Slash, Joins(r, p, s)
    PROVE  Walk(dir, r) = Walk(dir, p)
  <1>1. s # <<>> /\ Head(s) = Slash /\ Tail(s) = <<>>
    <2>1. Tail(s) \in Seq(T) /\ Len(Tail(s)) = 0
      OBVIOUS
    <2>2. \A t \in Seq(T) : Len(t) = 0 => t = <<>>
      OBVIOUS
    <2>3. Tail(s) = <<>>
      BY <2>1, <2>2
    <2>4. s # <<>> /\ Head(s) = Slash
      OBVIOUS
    <2>5. QED BY <2>3, <2>4
  <1>2. PICK d \in Seq(T) : d = Walk(dir, p)
    BY WalkType
  <1>3. Walk(d, s) = Walk(Enter(d, Slash), <<>>)
    BY <1>1, WalkFirst
  <1>4. Enter(d, Slash) = d
    BY DEF Enter, Slash
  <1>5. Walk(d, <<>>) = d
    BY WalkNothing
  <1>6. Walk(dir, r) = Walk(Walk(dir, p), s)
    BY WalkOn
  <1>7. QED BY <1>2, <1>3, <1>4, <1>5, <1>6

(* What toRealPath() is called with: a name, a default name for a directory, and
   perhaps a prefix. *)
Args(a, T) ==
    /\ a.old \in Seq(T) /\ a.old # <<>> /\ a.prefix \in Seq(T)
    /\ a.default \in Seq(T) /\ a.default # <<>> /\ Last(a.default) # Slash

(* The name without the prefix. *)
IsDir(a) == Last(a.old) = Slash \/ EndsInDot(a.old)
Target(a) == IF IsDir(a) THEN Append(a.old, Slash) \o a.default ELSE a.old
FileOf(a) ==
    LET named == IF EndsInDot(a.old) THEN a.old \o <<Slash>> \o a.default ELSE a.old
    IN  IF Last(named) = Slash THEN named \o a.default ELSE named

LEMMA FileIsTarget ==
    ASSUME NEW T, Slash \in T, NEW a, Args(a, T)
    PROVE  /\ FileOf(a) \in Seq(T) /\ FileOf(a) # <<>> /\ Target(a) \in Seq(T)
           /\ Head(FileOf(a)) = Head(Target(a)) /\ Target(a) # <<>>
           /\ Head(Target(a)) = Head(a.old)
           /\ \A d \in Seq(T) : /\ Walk(d, FileOf(a)) = Walk(d, Target(a))
                                /\ Walk(d, Rest(FileOf(a))) = Walk(d, Rest(Target(a)))
  <1>1. PICK old \in Seq(T) : old = a.old
    BY DEF Args
  <1>2. PICK default \in Seq(T) : default = a.default
    BY DEF Args
  <1>3. old # <<>> /\ default # <<>> /\ Last(default) # Slash
    BY <1>1, <1>2 DEF Args
  <1>4. PICK s \in Seq(T) : s = <<Slash>> /\ Len(s) = 1 /\ s[1] = Slash
    BY OneToken
  <1>5. PICK oldSlash \in Seq(T) : Joins(oldSlash, old, s)
    BY Joined
  <1>6. PICK long \in Seq(T) : Joins(long, oldSlash, default)
    BY Joined
  <1>7. PICK short \in Seq(T) : Joins(short, old, default)
    BY Joined
  <1>8. /\ oldSlash # <<>> /\ Head(oldSlash) = Head(old) /\ Joins(Rest(oldSlash), Rest(old), s)
        /\ Rest(old) \in Seq(T) /\ Rest(oldSlash) \in Seq(T)
    BY <1>3, <1>5, RestOn
  <1>9. /\ long # <<>> /\ Head(long) = Head(oldSlash) /\ Rest(long) \in Seq(T)
        /\ Joins(Rest(long), Rest(oldSlash), default)
    BY <1>6, <1>8, RestOn
  <1>10. /\ short # <<>> /\ Head(short) = Head(old) /\ Rest(short) \in Seq(T)
         /\ Joins(Rest(short), Rest(old), default)
    BY <1>3, <1>7, RestOn
  <1>11. ASSUME NEW d \in Seq(T)
         PROVE  Walk(d, long) = Walk(d, short) /\ Walk(d, Rest(long)) = Walk(d, Rest(short))
    <2>1. Walk(d, oldSlash) = Walk(d, old)
      <3>1. Len(s) = 1 /\ s[1] = Slash
        BY <1>4
      <3>2. QED BY <1>5, <3>1, WalkSlash
    <2>2. Walk(d, Rest(oldSlash)) = Walk(d, Rest(old))
      <3>1. Len(s) = 1 /\ s[1] = Slash
        BY <1>4
      <3>2. QED BY <1>8, <3>1, WalkSlash
    <2>3. /\ Walk(d, long) = Walk(Walk(d, oldSlash), default)
          /\ Walk(d, short) = Walk(Walk(d, old), default)
      BY <1>6, <1>7, WalkOn
    <2>4. /\ Walk(d, Rest(long)) = Walk(Walk(d, Rest(oldSlash)), default)
          /\ Walk(d, Rest(short)) = Walk(Walk(d, Rest(old)), default)
      BY <1>8, <1>9, <1>10, WalkOn
    <2>5. QED BY <2>1, <2>2, <2>3, <2>4
  <1>12. Last(long) # Slash
    <2>1. Len(long) = Len(oldSlash) + Len(default) /\ Len(default) > 0
      BY <1>3, <1>6 DEF Joins
    <2>2. long[Len(long)] = default[Len(default)]
      BY <1>6, <2>1 DEF Joins
    <2>3. QED BY <1>3, <2>2 DEF Last
  <1>13. /\ long = old \o <<Slash>> \o default /\ long = Append(old, Slash) \o default
         /\ short = old \o default
    BY <1>4, <1>5, <1>6, <1>7 DEF Joins
  <1>14. FileOf(a) = IF EndsInDot(old) THEN long
                     ELSE IF Last(old) = Slash THEN short ELSE old
    BY <1>1, <1>2, <1>12, <1>13 DEF FileOf
  <1>15. Target(a) = IF Last(old) = Slash \/ EndsInDot(old) THEN long ELSE old
    BY <1>1, <1>2, <1>13 DEF Target, IsDir
  <1>16. QED BY <1>1, <1>3, <1>8, <1>9, <1>10, <1>11, <1>14, <1>15

(* The directory of the prefix, with and without a slash behind it. *)
LEMMA PrefixMeans ==
    ASSUME PathInv, NEW T, Tokens \subseteq T, NEW a, Args(a, T)
    PROVE  LET prefix == OrElse(a.prefix, <<".", Slash>>)
               here == Components(cwd.at)
           IN  /\ prefix \in Seq(T) /\ prefix # <<>>
               /\ Walk(Origin(prefix), Rest(prefix))
                    = IF a.prefix = <<>> THEN here ELSE Along(a.prefix, here)
  <1>1. CASE a.prefix # <<>>
    <2>1. OrElse(a.prefix, <<".", Slash>>) = a.prefix
      BY <1>1 DEF OrElse
    <2>2. Along(a.prefix, Components(cwd.at)) = Walk(Origin(a.prefix), Rest(a.prefix))
      BY AlongIs
    <2>3. a.prefix \in Seq(T)
      BY DEF Args
    <2>4. QED BY <1>1, <2>1, <2>2, <2>3
  <1>2. CASE a.prefix = <<>>
    <2>1. "." \in T /\ Slash \in T
      BY DEF Tokens
    <2>2. PICK dot \in Seq(T) : dot = <<".">> /\ dot # <<>> /\ Head(dot) = "." /\ Tail(dot) = <<>>
      BY <2>1, OneToken
    <2>3. PICK s \in Seq(T) : s = <<Slash>> /\ Len(s) = 1 /\ s[1] = Slash
      BY <2>1, OneToken
    <2>4. PICK p \in Seq(T) : Joins(p, dot, s)
      BY Joined
    <2>5. p = <<".", Slash>> /\ p # <<>> /\ Head(p) = "."
      <3>1. Len(p) = 2 /\ p[1] = "." /\ p[2] = Slash
        BY <2>2, <2>3, <2>4 DEF Joins
      <3>2. p = <<".", Slash>>
        BY <3>1
      <3>3. <<".", Slash>> # <<>> /\ Head(<<".", Slash>>) = "."
        OBVIOUS
      <3>4. QED BY <3>2, <3>3, Zenon
    <2>6. OrElse(a.prefix, <<".", Slash>>) = p
      BY <1>2, <2>5 DEF OrElse
    <2>7. PICK here \in Seq(T) : here = Components(cwd.at)
      BY OriginType
    <2>8. Origin(p) = here /\ Rest(p) = p
      BY <2>5, <2>7 DEF Origin, Rest, Slash
    <2>9. Walk(here, p) = Walk(here, dot)
      <3>1. Len(s) = 1 /\ s[1] = Slash
        BY <2>3
      <3>2. QED BY <2>1, <2>4, <3>1, WalkSlash
    <2>10. Walk(here, dot) = here
      <3>1. Walk(here, dot) = Walk(Enter(here, "."), <<>>)
        BY <2>2, WalkFirst
      <3>2. Enter(here, ".") = here
        BY DEF Enter, Slash
      <3>3. Walk(here, <<>>) = here
        BY WalkNothing
      <3>4. QED BY <3>1, <3>2, <3>3
    <2>11. QED BY <1>2, <2>5, <2>6, <2>7, <2>8, <2>9, <2>10
  <1>3. QED BY <1>1, <1>2

LEMMA NameMeans ==
    ASSUME PathInv, NEW T, Tokens \subseteq T, NEW a, Args(a, T)
    PROVE  /\ FullName(a) \in Seq(T) /\ FullName(a) # <<>>
           /\ Walk(Origin(FullName(a)), Rest(FullName(a))) = LeadsTo(a)
  <1> DEFINE here == Components(cwd.at)
             prefixDir == IF a.prefix = <<>> THEN here ELSE Along(a.prefix, here)
  <1>0. Slash \in T
    BY DEF Tokens
  <1>1. PICK file \in Seq(T) : file = FileOf(a)
    BY <1>0, FileIsTarget
  <1>2. PICK target \in Seq(T) : target = Target(a)
    BY <1>0, FileIsTarget
  <1>3. /\ file # <<>> /\ target # <<>> /\ Head(file) = Head(target)
        /\ \A d \in Seq(T) : Walk(d, file) = Walk(d, target) /\ Walk(d, Rest(file)) = Walk(d, Rest(target))
    BY <1>0, <1>1, <1>2, FileIsTarget
  <1>4. PICK p \in Seq(T) : p = OrElse(a.prefix, <<".", Slash>>)
    BY PrefixMeans
  <1>5. p # <<>> /\ Walk(Origin(p), Rest(p)) = prefixDir
    BY <1>4, PrefixMeans
  <1>6. LeadsTo(a) = Along(target, prefixDir)
    BY <1>2 DEF LeadsTo, Target, IsDir
  <1>7. FullName(a) = IF BeginsSpecial(file) THEN file
                      ELSE IF Last(p) = Slash THEN p \o file ELSE p \o <<Slash>> \o file
    <2>1. OrElse(a.old, p) = a.old
      BY DEF OrElse, Args
    <2>2. FileOf(a) = LET named == IF EndsInDot(a.old) THEN a.old \o <<Slash>> \o a.default ELSE a.old
                      IN  IF Last(named) = Slash THEN named \o a.default ELSE named
      BY DEF FileOf
    <2>3. OrElse(a.default, <<DefaultLog>>) = a.default
      BY DEF OrElse, Args
    <2>4. QED BY <1>1, <1>4, <2>1, <2>2, <2>3 DEF FullName
  <1>8. \A path : Origin(path) \in Seq(T)
    BY OriginType
  <1>9. BeginsSpecial(file) <=> BeginsSpecial(target)
    BY <1>3 DEF BeginsSpecial
  <1>10. CASE BeginsSpecial(file)
    <2>1. Along(target, prefixDir) = Walk(Origin(target), Rest(target))
      BY <1>9, <1>10, AlongIs
    <2>2. Origin(target) = Origin(file)
      BY <1>3 DEF Origin
    <2>3. Walk(Origin(file), Rest(file)) = Walk(Origin(file), Rest(target))
      BY <1>3, <1>8
    <2>4. QED BY <1>3, <1>6, <1>7, <1>10, <2>1, <2>2, <2>3
  <1>11. CASE ~BeginsSpecial(file)
    <2> HIDE DEF prefixDir, here
    <2>1. Along(target, prefixDir) = Walk(prefixDir, target)
      BY <1>9, <1>11, AlongPlain
    <2>2. PICK d \in Seq(T) : d = Origin(p)
      BY <1>8
    <2>3. ASSUME NEW q \in Seq(T), q # <<>>, Origin(q) = d, Walk(d, Rest(q)) = prefixDir,
                 NEW r \in Seq(T), Joins(r, q, file)
          PROVE  r # <<>> /\ Walk(Origin(r), Rest(r)) = Walk(prefixDir, target)
      <3>1. /\ r # <<>> /\ Origin(r) = d /\ Joins(Rest(r), Rest(q), file)
            /\ Rest(q) \in Seq(T) /\ Rest(r) \in Seq(T)
        BY <2>3, RestOn
      <3>2. Walk(d, Rest(r)) = Walk(Walk(d, Rest(q)), file)
        BY <3>1, WalkOn
      <3>3. Walk(d, Rest(q)) \in Seq(T)
        BY <3>1, WalkType
      <3>4. Walk(prefixDir, file) = Walk(prefixDir, target)
        BY <1>3, <2>3, <3>3
      <3>5. QED BY <2>3, <3>1, <3>2, <3>4
    <2>4. CASE Last(p) = Slash
      <3>1. PICK r \in Seq(T) : Joins(r, p, file)
        BY Joined
      <3>2. r # <<>> /\ Walk(Origin(r), Rest(r)) = Walk(prefixDir, target)
        BY <1>5, <2>2, <2>3, <3>1
      <3>3. FullName(a) = r
        BY <1>7, <1>11, <2>4, <3>1 DEF Joins
      <3>4. QED BY <1>6, <2>1, <3>2, <3>3
    <2>5. CASE Last(p) # Slash
      <3>1. PICK s \in Seq(T) : s = <<Slash>> /\ Len(s) = 1 /\ s[1] = Slash
        BY <1>0, OneToken
      <3>2. PICK q \in Seq(T) : Joins(q, p, s)
        BY Joined
      <3>3. PICK r \in Seq(T) : Joins(r, q, file)
        BY Joined
      <3>4. q # <<>> /\ Origin(q) = d /\ Joins(Rest(q), Rest(p), s) /\ Rest(p) \in Seq(T) /\ Rest(q) \in Seq(T)
        BY <1>5, <2>2, <3>2, RestOn
      <3>5. Walk(d, Rest(q)) = Walk(d, Rest(p))
        <4>1. Len(s) = 1 /\ s[1] = Slash
          BY <3>1
        <4>2. QED BY <1>0, <3>4, <4>1, WalkSlash
      <3>6. r # <<>> /\ Walk(Origin(r), Rest(r)) = Walk(prefixDir, target)
        BY <1>5, <2>2, <2>3, <3>3, <3>4, <3>5
      <3>7. FullName(a) = r
        BY <1>7, <1>11, <2>5, <3>1, <3>2, <3>3 DEF Joins
      <3>8. QED BY <1>6, <2>1, <3>6, <3>7
    <2>6. QED BY <2>4, <2>5
  <1>12. QED BY <1>10, <1>11

-----------------------------------------------------------------------------
(* The second part of the invariant: from the path in the buffer, the rest of the name
   leads to where the name was meant to lead.  T is what names consist of. *)

PathMeans(T) ==
    /\ step \in {"begin", "resolve", "done"} => Args(args, T)
    /\ step = "begin" => name = FullName(args)
    /\ step = "resolve" => name \in Seq(T) /\ Walk(Components(rpath), name) = LeadsTo(args)
    /\ step = "done" => Components(rpath) = LeadsTo(args)

LEMMA SameMeaning ==
    ASSUME UNCHANGED <<environment, args>>
    PROVE  LeadsTo(args)' = LeadsTo(args)
  BY DEF LeadsTo, Along, environment

LEMMA CallMeans ==
    ASSUME NEW T, NEW a, Args(a, T), toRealPath(a)
    PROVE  PathMeans(T)'
  BY DEF toRealPath, PathMeans

LEMMA LeavesMeaning ==
    ASSUME NEW T, PathMeans(T), UNCHANGED pathVars
    PROVE  PathMeans(T)'
  <1>1. LeadsTo(args)' = LeadsTo(args)
    BY SameMeaning DEF pathVars
  <1>2. UNCHANGED <<args, step, name, rpath>>
    BY DEF pathVars, buffer
  <1>3. QED BY <1>1, <1>2 DEF PathMeans

LEMMA BeginsMeaning ==
    ASSUME PathInv, NEW T, Tokens \subseteq T, PathMeans(T), step = "begin",
           NEW text, NEW rest, BeginWith(text, rest),
           Components(text.at) = Origin(name), rest = Rest(name)
    PROVE  PathMeans(T)'
  <1>1. /\ rpath' = text.at /\ name' = rest /\ step' = "resolve" /\ args' = args
        /\ LeadsTo(args)' = LeadsTo(args)
    BY SameMeaning DEF BeginWith
  <1>2. name = FullName(args) /\ Args(args, T)
    BY DEF PathMeans
  <1>3. name \in Seq(T) /\ name # <<>> /\ Walk(Origin(name), Rest(name)) = LeadsTo(args)
    BY <1>2, NameMeans
  <1>4. Rest(name) \in Seq(T)
    BY <1>3 DEF Rest
  <1>5. QED BY <1>1, <1>2, <1>3, <1>4 DEF PathMeans

LEMMA SkipMeans ==
    ASSUME PathInv, NEW T, Tokens \subseteq T, PathMeans(T), Skip
    PROVE  PathMeans(T)'
  <1>1. /\ step = "resolve" /\ step' = "resolve" /\ name # <<>> /\ Head(name) \in {Slash, "."}
        /\ name' = Tail(name) /\ args' = args /\ rpath' = rpath /\ LeadsTo(args)' = LeadsTo(args)
    BY SameMeaning DEF Skip, NextIs, buffer
  <1>2. name \in Seq(T) /\ Args(args, T) /\ Walk(Components(rpath), name) = LeadsTo(args)
    BY <1>1 DEF PathMeans
  <1>3. Components(rpath) \in Seq(T)
    <2>1. Components(rpath) \in Seq(Tokens)
      BY <1>1, TidyComponents DEF PathInv, Fits
    <2>2. QED BY <2>1
  <1>4. Enter(Components(rpath), Head(name)) = Components(rpath)
    BY <1>1 DEF Enter, Slash
  <1>5. Walk(Components(rpath), Tail(name)) = LeadsTo(args)
    BY <1>1, <1>2, <1>3, <1>4, WalkFirst
  <1>6. Tail(name) \in Seq(T)
    BY <1>1, <1>2
  <1>7. QED BY <1>1, <1>2, <1>5, <1>6 DEF PathMeans

LEMMA AddComponentMeans ==
    ASSUME PathInv, NEW T, Tokens \subseteq T, PathMeans(T), AddComponent
    PROVE  PathMeans(T)'
  <1>1. /\ step = "resolve" /\ step' = "resolve" /\ name # <<>>
        /\ Head(name) \in {"~"} \cup Names
        /\ name' = Tail(name) /\ args' = args /\ LeadsTo(args)' = LeadsTo(args)
        /\ Fits /\ dest \in Nat
    BY SameMeaning DEF AddComponent, NextIs, PathInv
  <1>2. name \in Seq(T) /\ Args(args, T) /\ Walk(Components(rpath), name) = LeadsTo(args)
    BY <1>1 DEF PathMeans
  <1>3. Components(rpath) \in Seq(T)
    <2>1. Components(rpath) \in Seq(Tokens)
      BY <1>1, TidyComponents DEF Fits
    <2>2. QED BY <2>1
  <1>4. PICK c \in {"~"} \cup Names : c = Head(name)
    BY <1>1
  <1>5. PICK start \in Nat : start = Start
    BY <1>1 DEF Start
  <1>6. Components(rpath') = Append(Components(rpath), c)
    <2>1. rpath' = [o \in DOMAIN rpath \cup {start - 1, start} |->
                       IF o = start THEN c ELSE IF o = start - 1 THEN Slash ELSE rpath[o]]
      BY <1>4, <1>5 DEF AddComponent
    <2>2. start = IF dest - 1 \in Slashes(rpath) THEN dest ELSE dest + 1
      BY <1>5 DEF Start
    <2>3. Tidy(rpath, dest)
      BY <1>1 DEF Fits
    <2>4. QED BY <1>1, <2>1, <2>2, <2>3, AddMeans, ZenonT(30)
  <1>7. Enter(Components(rpath), c) = Append(Components(rpath), c)
    <2>1. c \notin {Slash, ".", ".."}
      BY Lengths
    <2>2. QED BY <2>1 DEF Enter
  <1>8. Walk(Components(rpath'), Tail(name)) = LeadsTo(args)
    BY <1>1, <1>2, <1>3, <1>4, <1>6, <1>7, WalkFirst
  <1>9. Tail(name) \in Seq(T)
    BY <1>1, <1>2
  <1>10. QED BY <1>1, <1>2, <1>8, <1>9 DEF PathMeans

LEMMA BackUpMeans ==
    ASSUME PathInv, NEW T, Tokens \subseteq T, PathMeans(T), BackUp
    PROVE  PathMeans(T)'
  <1>1. /\ step = "resolve" /\ step' = "resolve" /\ name # <<>> /\ Head(name) = ".."
        /\ name' = Tail(name) /\ args' = args /\ LeadsTo(args)' = LeadsTo(args)
        /\ Fits /\ dest \in Nat /\ dest \in 1 .. limit - 1 /\ Tidy(rpath, dest)
        /\ rpath' = Restrict(rpath, {o \in DOMAIN rpath : o < dest'})
    BY SameMeaning DEF BackUp, NextIs, PathInv, Fits
  <1>2. name \in Seq(T) /\ Args(args, T) /\ Walk(Components(rpath), name) = LeadsTo(args)
    BY <1>1 DEF PathMeans
  <1>3. PICK dir \in Seq(T) : dir = Components(rpath)
    <2>1. Components(rpath) \in Seq(Tokens)
      BY <1>1, TidyComponents
    <2>2. QED BY <2>1
  <1>4. Enter(dir, "..") = IF dir = <<>> THEN dir ELSE Front(dir)
    BY DEF Enter, Slash
  <1>5. /\ DOMAIN rpath \subseteq 0 .. dest - 1 /\ 0 \in DOMAIN rpath /\ rpath[0] = Slash
        /\ \A o \in DOMAIN rpath : rpath[o] \in Tokens
        /\ \A o \in Slashes(rpath) : o + 1 # dest => o + 1 \in DOMAIN rpath
    BY <1>1, OfTidy DEF Slashes
  <1>6. Components(rpath') = Enter(dir, "..")
    <2>1. CASE dest <= 1
      <3>1. dest = 1 /\ dest' = 1
        BY <1>1, <2>1 DEF BackUp
      <3>2. Components(rpath') = ComponentsBelow(rpath, 1) /\ dir = ComponentsBelow(rpath, 1)
        <4>1. PICK c \in 1 .. dest : c = dest'
          BY <3>1
        <4>2. Components(Restrict(rpath, {o \in DOMAIN rpath : o < c})) = ComponentsBelow(rpath, c)
          BY <1>1, <3>1, <4>1, CutMeans
        <4>3. Components(rpath) = ComponentsBelow(rpath, dest)
          BY <1>1, TidyComponents
        <4>4. QED BY <1>1, <1>3, <3>1, <4>1, <4>2, <4>3
      <3>3. ComponentsBelow(rpath, 1) = ComponentsBelow(rpath, 0)
        <4>1. \A o \in 0 .. 1 - 1 : o \notin DOMAIN rpath \ Slashes(rpath)
          BY <1>5 DEF Slashes
        <4>2. QED BY <1>5, <4>1, BelowMore
      <3>4. ComponentsBelow(rpath, 0) = <<>>
        BY <1>5, BelowNone
      <3>5. QED BY <1>4, <3>2, <3>3, <3>4
    <2>2. CASE dest > 1
      <3> DEFINE before == {o \in Slashes(rpath) : o + 1 < dest}
      <3>1. before \subseteq 0 .. dest /\ 0 \in before
        BY <1>1, <1>5, <2>2 DEF Slashes
      <3>2. dest' = IF before = {} THEN -1 ELSE Max(before) + 1
        BY <1>1, <2>2 DEF BackUp
      <3>3. PICK m \in before : dest' = m + 1 /\ \A o \in before : o <= m
        <4> HIDE DEF before
        <4>1. Max(before) \in before /\ \A o \in before : Max(before) >= o
          BY <1>1, <3>1, GreatestOf
        <4>2. \A o \in before : o \in Nat
          BY <3>1
        <4>3. QED BY <3>1, <3>2, <4>1, <4>2
      <3>4. /\ m \in Slashes(rpath) /\ m \in Nat /\ m + 1 < dest /\ m + 1 \in DOMAIN rpath
            /\ \A o \in Slashes(rpath) : o + 1 < dest => o <= m
        BY <1>1, <1>5, <3>1, <3>3
      <3>5. Components(rpath) = Append(ComponentsBelow(rpath, m + 1), rpath[m + 1])
        BY <1>1, <3>4, LastMeans
      <3>6. PICK c \in 1 .. dest : c = m + 1
        BY <1>1, <3>4
      <3>7. Components(rpath') = ComponentsBelow(rpath, c)
        BY <1>1, <3>3, <3>4, <3>6, CutMeans
      <3>8. ComponentsBelow(rpath, c) \in Seq(Tokens) /\ rpath[c] \in Tokens
        BY <1>5, <3>4, <3>6, BelowType
      <3>9. PICK d \in Seq(Tokens), t \in Tokens : d = ComponentsBelow(rpath, c) /\ t = rpath[c]
        BY <3>8
      <3>10. Append(d, t) # <<>> /\ Front(Append(d, t)) = d
        BY DEF Front
      <3>11. dir = Append(d, t)
        BY <1>3, <3>5, <3>6, <3>9
      <3>12. QED BY <1>4, <3>7, <3>9, <3>10, <3>11
    <2>3. QED BY <1>1, <2>1, <2>2
  <1>7. Walk(Components(rpath'), Tail(name)) = LeadsTo(args)
    BY <1>1, <1>2, <1>3, <1>6, WalkFirst
  <1>8. Tail(name) \in Seq(T)
    BY <1>1, <1>2
  <1>9. QED BY <1>1, <1>2, <1>7, <1>8 DEF PathMeans

LEMMA FinishMeans ==
    ASSUME PathInv, NEW T, Tokens \subseteq T, PathMeans(T), Finish
    PROVE  PathMeans(T)'
  <1>1. /\ step = "resolve" /\ step' = "done" /\ name = <<>>
        /\ args' = args /\ LeadsTo(args)' = LeadsTo(args)
        /\ Fits /\ dest \in Nat /\ dest \in 1 .. limit - 1 /\ Tidy(rpath, dest)
        /\ dest' = IF dest > 1 /\ dest - 1 \in Slashes(rpath) THEN dest - 1 ELSE dest
        /\ rpath' = Restrict(rpath, {o \in DOMAIN rpath : o < dest'})
    BY SameMeaning DEF Finish, PathInv, Fits
  <1>2. Args(args, T) /\ Walk(Components(rpath), <<>>) = LeadsTo(args)
    BY <1>1 DEF PathMeans
  <1>3. PICK dir \in Seq(T) : dir = Components(rpath)
    <2>1. Components(rpath) \in Seq(Tokens)
      BY <1>1, TidyComponents
    <2>2. QED BY <2>1
  <1>4. dir = LeadsTo(args)
    BY <1>2, <1>3, WalkNothing
  <1>5. PICK c \in 1 .. dest : c = dest' /\ (c = dest \/ c \in DOMAIN rpath)
    BY <1>1 DEF Slashes
  <1>6. Components(rpath') = ComponentsBelow(rpath, c)
    BY <1>1, <1>5, CutMeans
  <1>7. Components(rpath) = ComponentsBelow(rpath, dest) /\ \A o \in DOMAIN rpath : rpath[o] \in Tokens
    BY <1>1, TidyComponents
  <1>8. ComponentsBelow(rpath, dest) = ComponentsBelow(rpath, c)
    <2>1. \A o \in c .. dest - 1 : o \notin DOMAIN rpath \ Slashes(rpath)
      BY <1>1, <1>5
    <2>2. c \in Nat /\ c <= dest
      OBVIOUS
    <2>3. QED BY <1>1, <1>7, <2>1, <2>2, BelowMore, ZenonT(30)
  <1>9. QED BY <1>1, <1>2, <1>3, <1>4, <1>6, <1>7, <1>8 DEF PathMeans

LEMMA ResolveMeans ==
    ASSUME PathInv, NEW T, Tokens \subseteq T, PathMeans(T), ResolveStep
    PROVE  PathMeans(T)'
  <1>1. ASSUME Fail PROVE PathMeans(T)'
    BY <1>1 DEF Fail, PathMeans
  <1>2. CASE NoMemory
    BY <1>1, <1>2 DEF NoMemory
  <1>3. CASE BeginAtRoot
    <2> DEFINE root == [o \in {0} |-> Slash]
    <2>1. PICK text : text = Text(root, 1)
      OBVIOUS
    <2>2. BeginWith(text, name) /\ step = "begin" /\ Head(name) = Slash
      BY <1>3, <2>1 DEF BeginAtRoot
    <2>3. Components(text.at) = Origin(name) /\ Rest(name) = name
      <3>1. text.at = root
        BY <2>1 DEF Text
      <3> HIDE DEF root
      <3>2. Components(root) = <<>>
        BY RootMeans DEF root
      <3>3. QED BY <2>2, <3>1, <3>2 DEF Origin, Rest, Slash
    <2>4. QED BY <2>2, <2>3, BeginsMeaning
  <1>4. CASE BeginAtHome
    <2>1. Head(name) = "~" /\ step = "begin" /\ (BeginWith(home, Tail(name)) \/ Fail)
      BY <1>4 DEF BeginAtHome
    <2>2. Components(home.at) = Origin(name) /\ Rest(name) = Tail(name)
      BY <2>1 DEF Origin, Rest, Slash
    <2>3. QED BY <1>1, <2>1, <2>2, BeginsMeaning
  <1>5. CASE BeginAtCwd
    <2>1. Head(name) \notin {Slash, "~"} /\ step = "begin" /\ (BeginWith(cwd, name) \/ Fail)
      BY <1>5 DEF BeginAtCwd
    <2>2. Components(cwd.at) = Origin(name) /\ Rest(name) = name
      BY <2>1 DEF Origin, Rest
    <2>3. QED BY <1>1, <2>1, <2>2, BeginsMeaning
  <1>6. CASE NoRoom
    BY <1>1, <1>6 DEF NoRoom
  <1>7. QED
    BY <1>2, <1>3, <1>4, <1>5, <1>6, SkipMeans, BackUpMeans, AddComponentMeans, FinishMeans
       DEF ResolveStep

-----------------------------------------------------------------------------
(* One path, one text: resolved paths with the same components are the same. *)

Opens(b, c) == Len(b) <= Len(c) /\ \A i \in 1 .. Len(b) : c[i] = b[i]

LEMMA BelowGrows ==
    ASSUME NEW T, NEW at, NEW start \in Nat, NEW end \in Nat, start <= end,
           \A o \in DOMAIN at : at[o] \in T
    PROVE  Opens(ComponentsBelow(at, start), ComponentsBelow(at, end))
  <1>1. PICK b \in Seq(T) : b = ComponentsBelow(at, start)
    BY BelowType
  <1> DEFINE Good == {k \in Nat : /\ Len(b) <= Len(ComponentsBelow(at, start + k))
                                  /\ \A i \in 1 .. Len(b) : ComponentsBelow(at, start + k)[i] = b[i]}
  <1>2. 0 \in Good
    <2>1. start + 0 = start
      OBVIOUS
    <2>2. Len(b) <= Len(b)
      OBVIOUS
    <2>3. QED BY <1>1, <2>1, <2>2
  <1>3. ASSUME NEW k \in Nat, k \in Good PROVE k + 1 \in Good
    <2>1. PICK n \in Nat : n = start + k /\ n + 1 = start + (k + 1)
      OBVIOUS
    <2>2. PICK c \in Seq(T) : c = ComponentsBelow(at, n)
      BY BelowType
    <2>3. ComponentsBelow(at, n + 1) = AndAt(c, at, n)
      BY <2>2, BelowNext
    <2>4. Len(b) <= Len(c) /\ \A i \in 1 .. Len(b) : c[i] = b[i]
      BY <1>3, <2>1, <2>2
    <2>5. ASSUME n \in DOMAIN at
          PROVE  /\ Len(b) <= Len(Append(c, at[n]))
                 /\ \A i \in 1 .. Len(b) : Append(c, at[n])[i] = b[i]
      <3>1. PICK x \in T : x = at[n]
        BY <2>5
      <3>2. Len(Append(c, x)) = Len(c) + 1 /\ \A i \in 1 .. Len(c) : Append(c, x)[i] = c[i]
        OBVIOUS
      <3>3. QED BY <2>4, <3>1, <3>2
    <2>6. /\ Len(b) <= Len(AndAt(c, at, n))
          /\ \A i \in 1 .. Len(b) : AndAt(c, at, n)[i] = b[i]
      BY <2>4, <2>5 DEF AndAt
    <2>7. QED BY <2>1, <2>3, <2>6
  <1>4. end - start \in Good
    <2> HIDE DEF Good
    <2>1. QED BY <1>2, <1>3, Induction
  <1>5. start + (end - start) = end
    OBVIOUS
  <1>6. QED BY <1>1, <1>4, <1>5 DEF Opens

(* A component is the one behind those that are below it. *)
LEMMA ComponentAt ==
    ASSUME NEW at, NEW end \in Nat, Tidy(at, end), NEW o \in DOMAIN at, at[o] # Slash
    PROVE  LET n == Len(ComponentsBelow(at, o)) IN
           /\ n \in Nat /\ n + 1 \in 1 .. Len(Components(at)) /\ Components(at)[n + 1] = at[o]
  <1>1. /\ Components(at) = ComponentsBelow(at, end) /\ \A p \in DOMAIN at : at[p] \in Tokens
        /\ Components(at) \in Seq(Tokens)
    BY TidyComponents
  <1>2. o \in Nat /\ o + 1 \in Nat /\ o + 1 <= end
    BY OfTidy
  <1>3. PICK b \in Seq(Tokens) : b = ComponentsBelow(at, o)
    BY <1>1, <1>2, BelowType
  <1>4. ComponentsBelow(at, o + 1) = Append(b, at[o])
    <2>1. ComponentsBelow(at, o + 1) = AndAt(b, at, o)
      BY <1>1, <1>2, <1>3, BelowNext
    <2>2. AndAt(b, at, o) = Append(b, at[o])
      BY DEF AndAt, Slashes
    <2>3. QED BY <2>1, <2>2
  <1>5. PICK x \in Tokens : x = at[o]
    BY <1>1
  <1>6. PICK c \in Seq(Tokens) : /\ c = ComponentsBelow(at, o + 1)
                                 /\ Len(c) = Len(b) + 1 /\ c[Len(b) + 1] = x
    <2>1. Append(b, x) \in Seq(Tokens) /\ Len(Append(b, x)) = Len(b) + 1 /\ Append(b, x)[Len(b) + 1] = x
      OBVIOUS
    <2>2. QED BY <1>4, <1>5, <2>1
  <1>7. Len(c) <= Len(Components(at)) /\ \A i \in 1 .. Len(c) : Components(at)[i] = c[i]
    <2>1. Opens(ComponentsBelow(at, o + 1), ComponentsBelow(at, end))
      BY <1>1, <1>2, BelowGrows
    <2>2. QED BY <1>1, <1>6, <2>1 DEF Opens
  <1>8. Len(b) \in Nat /\ Len(Components(at)) \in Nat
    BY <1>1
  <1>9. QED BY <1>3, <1>5, <1>6, <1>7, <1>8

Agree(at, at2, o) ==
    /\ o \in DOMAIN at <=> o \in DOMAIN at2
    /\ o \in DOMAIN at => at[o] = at2[o]

(* The component or slash in front of an offset. *)
LEMMA InFront ==
    ASSUME NEW at, NEW end \in Nat, Tidy(at, end), NEW o \in DOMAIN at, o # 0
    PROVE  \E p \in DOMAIN at : p < o /\ p + Length(at[p]) = o /\ (at[o] = Slash <=> at[p] # Slash)
  <1> DEFINE front == {p \in DOMAIN at : p < o}
  <1>1. o \in 0 .. end - 1 /\ 0 \in DOMAIN at /\ DOMAIN at \subseteq 0 .. end - 1
    BY OfTidy
  <1>2. PICK p \in front : \A q \in front : p >= q
    <2>1. front \subseteq 0 .. end /\ 0 \in front
      BY <1>1
    <2> HIDE DEF front
    <2>2. QED BY <2>1, GreatestOf
  <1>3. p \in DOMAIN at /\ p < o /\ p \in Nat
    BY <1>1
  <1>4. PICK next \in Nat : next = p + Length(at[p])
    BY <1>3, OfTidy
  <1>5. next > p /\ next <= o /\ next # end
    BY <1>1, <1>3, <1>4, OfTidy
  <1>6. next \in DOMAIN at /\ (at[next] = Slash <=> at[p] # Slash)
    BY <1>3, <1>4, <1>5, OfTidy
  <1>7. next = o
    <2>1. next \in front => p >= next
      BY <1>2
    <2>2. next < o => next \in front
      BY <1>6
    <2>3. QED BY <1>1, <1>3, <1>5, <2>1, <2>2
  <1>8. QED BY <1>3, <1>4, <1>6, <1>7

LEMMA GoesOnAlike ==
    ASSUME NEW at, NEW end \in Nat, Tidy(at, end), end > 1 => end - 1 \notin Slashes(at),
           NEW at2, NEW end2 \in Nat, Tidy(at2, end2),
           Components(at) = Components(at2),
           NEW o \in DOMAIN at, \A p \in 0 .. o - 1 : Agree(at, at2, p)
    PROVE  o \in DOMAIN at2 /\ at[o] = at2[o]
  <1>1. /\ o \in 0 .. end - 1 /\ DOMAIN at \subseteq 0 .. end - 1 /\ DOMAIN at2 \subseteq 0 .. end2 - 1
        /\ 0 \in DOMAIN at /\ 0 \in DOMAIN at2 /\ at[0] = Slash /\ at2[0] = Slash
    BY OfTidy
  <1>2. SUFFICES ASSUME o # 0 PROVE o \in DOMAIN at2 /\ at[o] = at2[o]
    BY <1>1
  <1>3. PICK p \in DOMAIN at : p < o /\ p + Length(at[p]) = o /\ (at[o] = Slash <=> at[p] # Slash)
    BY <1>2, InFront
  <1>4. p \in DOMAIN at2 /\ at2[p] = at[p]
    <2>1. p \in 0 .. o - 1
      BY <1>1, <1>3
    <2>2. QED BY <2>1 DEF Agree
  <1>5. o # end2 => o \in DOMAIN at2 /\ (at2[o] = Slash <=> at2[p] # Slash)
    BY <1>3, <1>4, OfTidy
  <1>6. PICK n : n = Len(ComponentsBelow(at, o)) /\ n = Len(ComponentsBelow(at2, o))
                 /\ ComponentsBelow(at, o) = ComponentsBelow(at2, o)
    <2>1. /\ \A q \in DOMAIN at : at[q] \in Tokens
          /\ \A q \in DOMAIN at2 : at2[q] \in Tokens
      BY TidyComponents
    <2>2. ASSUME NEW q \in 0 .. o - 1
          PROVE  /\ q \in DOMAIN at \ Slashes(at) <=> q \in DOMAIN at2 \ Slashes(at2)
                 /\ q \in DOMAIN at \ Slashes(at) => at[q] = at2[q]
      BY <2>2 DEF Agree, Slashes
    <2>3. o \in Nat
      BY <1>1
    <2>4. ComponentsBelow(at, o) = ComponentsBelow(at2, o)
      BY <2>1, <2>2, <2>3, BelowEqual
    <2>5. QED BY <2>4
  <1>7. CASE o # end2
    <2>1. CASE at[o] = Slash
      BY <1>3, <1>4, <1>5, <1>7, <2>1
    <2>2. CASE at[o] # Slash
      <3>1. at2[o] # Slash /\ o \in DOMAIN at2
        BY <1>3, <1>4, <1>5, <1>7, <2>2
      <3>2. Components(at)[n + 1] = at[o]
        BY <1>6, <2>2, ComponentAt
      <3>3. Components(at2)[n + 1] = at2[o]
        BY <1>6, <3>1, ComponentAt
      <3>4. QED BY <3>1, <3>2, <3>3
    <2>3. QED BY <2>1, <2>2
  <1>8. CASE o = end2
    <2>1. Len(Components(at2)) = n
      BY <1>6, <1>8, TidyComponents
    <2>2. CASE at[o] # Slash
      <3>1. n + 1 \in 1 .. Len(Components(at)) /\ n \in Nat
        BY <1>6, <2>2, ComponentAt
      <3>2. QED BY <2>1, <3>1
    <2>3. CASE at[o] = Slash
      <3>1. o # end - 1
        BY <1>1, <1>2, <2>3 DEF Slashes
      <3>2. o + Length(at[o]) = o + 1 /\ o + 1 # end
        BY <1>1, <2>3, <3>1, OfTidy
      <3>3. o + 1 \in DOMAIN at /\ at[o + 1] # Slash
        BY <2>3, <3>2, OfTidy
      <3>4. ComponentsBelow(at, o + 1) = ComponentsBelow(at, o)
        <4>1. \A q \in DOMAIN at : at[q] \in Tokens
          BY TidyComponents
        <4>2. o \in Nat
          BY <1>1
        <4>3. QED BY <2>3, <4>1, <4>2, BelowNext DEF AndAt, Slashes
      <3>5. n + 1 \in 1 .. Len(Components(at)) /\ n \in Nat
        BY <1>6, <3>3, <3>4, ComponentAt
      <3>6. QED BY <2>1, <3>5
    <2>4. QED BY <2>2, <2>3
  <1>9. QED BY <1>7, <1>8

LEMMA OnePath ==
    ASSUME NEW at, NEW end \in Nat, Tidy(at, end), end > 1 => end - 1 \notin Slashes(at),
           NEW at2, NEW end2 \in Nat, Tidy(at2, end2), end2 > 1 => end2 - 1 \notin Slashes(at2),
           at = [o \in DOMAIN at |-> at[o]], at2 = [o \in DOMAIN at2 |-> at2[o]],
           Components(at) = Components(at2)
    PROVE  at = at2
  <1> DEFINE Good == {k \in Nat : \A p \in 0 .. k - 1 : Agree(at, at2, p)}
  <1>1. 0 \in Good
    OBVIOUS
  <1>2. ASSUME NEW k \in Nat, k \in Good PROVE k + 1 \in Good
    <2>1. \A p \in 0 .. k - 1 : Agree(at, at2, p)
      BY <1>2
    <2>2. \A p \in 0 .. k - 1 : Agree(at2, at, p)
      BY <2>1 DEF Agree
    <2>3. k \in DOMAIN at => k \in DOMAIN at2 /\ at[k] = at2[k]
      BY <2>1, GoesOnAlike
    <2>4. k \in DOMAIN at2 => k \in DOMAIN at /\ at[k] = at2[k]
      BY <2>2, GoesOnAlike
    <2>5. Agree(at, at2, k)
      BY <2>3, <2>4 DEF Agree
    <2>6. QED BY <2>1, <2>5
  <1>3. Nat \subseteq Good
    <2> HIDE DEF Good
    <2>1. QED BY <1>1, <1>2, Induction
  <1>4. \A o \in Nat : Agree(at, at2, o)
    <2>1. ASSUME NEW o \in Nat PROVE Agree(at, at2, o)
      <3>1. o + 1 \in Good /\ o \in 0 .. (o + 1) - 1
        BY <1>3
      <3>2. QED BY <3>1
    <2>2. QED BY <2>1
  <1>5. DOMAIN at \subseteq Nat /\ DOMAIN at2 \subseteq Nat
    BY OfTidy
  <1>6. DOMAIN at = DOMAIN at2 /\ \A o \in DOMAIN at : at[o] = at2[o]
    BY <1>4, <1>5 DEF Agree
  <1>7. QED BY <1>6

(* No prefix means the same as "./". *)
LEMMA SamePrefix ==
    ASSUME PathInv, NEW T, Tokens \subseteq T, NEW b, Args(b, T), NEW a,
           a.old = b.old, a.default = b.default, a.prefix = OrElse(b.prefix, <<".", Slash>>)
    PROVE  LeadsTo(a) = LeadsTo(b)
  <1> DEFINE here == Components(cwd.at)
             dirOf(c) == IF c.prefix = <<>> THEN here ELSE Along(c.prefix, here)
  <1>1. /\ a.prefix # <<>>
        /\ Walk(Origin(a.prefix), Rest(a.prefix)) = dirOf(b)
    BY PrefixMeans
  <1>2. Along(a.prefix, here) = Walk(Origin(a.prefix), Rest(a.prefix))
    BY AlongIs
  <1>3. dirOf(a) = dirOf(b)
    BY <1>1, <1>2
  <1> HIDE DEF dirOf
  <1>4. LeadsTo(a) = Along(Target(a), dirOf(a)) /\ LeadsTo(b) = Along(Target(b), dirOf(b))
    BY Zenon DEF LeadsTo, Target, IsDir, dirOf
  <1>5. Target(a) = Target(b)
    BY DEF Target, IsDir
  <1>6. QED BY <1>3, <1>4, <1>5

(* Names that are not hidden lead where the documents say. *)
LEMMA LeadsWhereMeant ==
    ASSUME NEW T, Slash \in T, NEW a, Args(a, T), ~IsHidden(a.old)
    PROVE  LeadsTo(a) = Meant(a)
  <1> DEFINE here == Components(cwd.at)
  <1>1. \A path : Along(path, here) = From(path, here)
    BY DEF Along, From
  <1>2. PICK dir : dir = IF a.prefix = <<>> THEN here ELSE From(a.prefix, here)
    OBVIOUS
  <1>3. Head(Target(a)) \notin Hidden
    BY FileIsTarget DEF IsHidden
  <1>4. Along(Target(a), dir) = From(Target(a), dir)
    BY <1>3 DEF Along, From
  <1>5. LeadsTo(a) = Along(Target(a), dir)
    BY <1>1, <1>2 DEF LeadsTo, Target, IsDir
  <1>6. Meant(a) = From(Target(a), dir)
    BY <1>2 DEF Meant, Target, IsDir
  <1>7. QED BY <1>4, <1>5, <1>6
===============================================================================
