-------------------------- MODULE ManifestLogProofs --------------------------
(***************************************************************************)
(* The refinement theorem: ManifestStore implements ManifestLog.           *)
(***************************************************************************)
EXTENDS ManifestChainProofs, ManifestRefinement

LEMMA LinksLength ==
  ASSUME TypeInv
  PROVE  Len(Links) = Len(log) /\ Len(log) \in Nat
BY DEF TypeInv, TypeOK, Links

(* A step that leaves the log alone leaves the links alone.                *)
LEMMA LinksKept ==
  ASSUME log' = log
  PROVE  Links' = Links
BY DEF Links

LEMMA SeqIsFunction ==
  ASSUME NEW S, NEW s \in Seq(S)
  PROVE  s \in [1 .. Len(s) -> S]
OBVIOUS

(* Signing publishes the link of the manifest it builds.                   *)
LEMMA SignPublishes ==
  ASSUME TypeInv, HandOwned, NEW p \in Procs, Sign(p)
  PROVE  Log!Publish(mod[p], base[p]) /\ base[p] \in 0 .. Len(log)
<1> DEFINE b == BuildManifest(p)
           n == Len(log)
<1>1. b \in Bundles(Modules) /\ log \in Seq(Bundles(Modules)) /\ n \in Nat
  BY Signed DEF Sign, TypeInv, TypeOK
<1>2. log' = Append(log, b) /\ store' = store /\ pc[p] = "sign"
  BY DEF Sign
<1>3. base[p] \in 0 .. n
  BY DEF TypeInv, TypeOK
<1>4. base[p] # 0 => log[base[p]].mod = mod[p]
  BY <1>2 DEF HandOwned, HandOwnedBy, Building
<1>5. Link(b) = [mod |-> mod[p], prev |-> base[p],
                 pos |-> IF base[p] = 0 THEN 1 ELSE Links[base[p]].pos + 1]
  <2>1. b.mod = mod[p] /\ b.prev = base[p] /\ b.pos = NextPosition(base[p])
    BY DEF BuildManifest
  <2>2. base[p] # 0 => Links[base[p]].pos = log[base[p]].pos
    BY <1>1, <1>3 DEF Links, Link
  <2> HIDE DEF b
  <2> QED
    BY <2>1, <2>2 DEF Link, NextPosition
<1>6. base[p] # 0 => Links[base[p]].mod = mod[p]
  BY <1>1, <1>3, <1>4 DEF Links, Link
<1> HIDE DEF b
<1>7. Links' = Append(Links, Link(b))
  <2>1. Len(log') = n + 1 /\ \A i \in 1 .. n : log'[i] = log[i]
    BY <1>1, <1>2
  <2>2. log'[n + 1] = b
    BY <1>1, <1>2
  <2>3. Links' = [i \in 1 .. n + 1 |-> IF i = n + 1 THEN Link(b) ELSE Link(log[i])]
    BY <1>1, <2>1, <2>2 DEF Links
  <2>4. Links = [i \in 1 .. n |-> Link(log[i])]
    BY DEF Links
  <2>5. Append(Links, Link(b))
          = [i \in 1 .. n + 1 |-> IF i = n + 1 THEN Link(b) ELSE Link(log[i])]
    <3> DEFINE L == {Link(log[i]) : i \in 1 .. n} \cup {Link(b)}
               l == Links
               t == Link(b)
    <3>1. l \in [1 .. n -> L] /\ t \in L
      BY <2>4
    <3>2. l \in Seq(L) /\ Len(l) = n
      BY <1>1, <3>1
    <3>3. \A i \in 1 .. n : l[i] = Link(log[i])
      BY <2>4
    <3> HIDE DEF l, L, t
    <3>4. /\ Append(l, t) \in Seq(L) /\ Len(Append(l, t)) = n + 1
          /\ \A i \in 1 .. n : Append(l, t)[i] = l[i]
          /\ Append(l, t)[n + 1] = t
      BY <1>1, <3>1, <3>2
    <3>5. Append(l, t) \in [1 .. n + 1 -> L]
      BY <3>4, SeqIsFunction
    <3> DEFINE f == [i \in 1 .. n + 1 |-> IF i = n + 1 THEN t ELSE Link(log[i])]
    <3>6. \A i \in 1 .. n + 1 : Append(l, t)[i] = f[i]
      BY <1>1, <3>3, <3>4
    <3>7. Append(l, t) = f
      BY <3>5, <3>6
    <3> QED
      BY <3>7 DEF l, t
  <2> QED
    BY <2>3, <2>5
<1> QED
  BY <1>2, <1>3, <1>5, <1>6, <1>7 DEF Log!Publish

(* Every other step that changes a bundle file truncates it or puts a      *)
(* signed manifest of its module there.                                    *)
LEMMA StoreMoves ==
  ASSUME ChainInv, [Next]_vars, ~ \E p \in Procs : Sign(p), store' # store
  PROVE  \E a \in Paths :
           \/ store' = [store EXCEPT ![a] = Torn]
           \/ \E i \in 1 .. Len(log) :
                /\ store' = [store EXCEPT ![a] = i]
                /\ a \in Modules => log[i].mod = a
<1> USE DEF ChainInv
<1>1. ASSUME NEW p \in Procs, OpenBundle(p)
      PROVE  \E a \in Paths : store' = [store EXCEPT ![a] = Torn]
  <2>1. path[p] \in Paths /\ store' = [store EXCEPT ![path[p]] = Torn]
    BY <1>1, InRange DEF OpenBundle
  <2> QED
    BY <2>1
<1>2. ASSUME NEW p \in Procs, WriteBundle(p)
      PROVE  \/ store' = [store EXCEPT ![path[p]] = Torn]
             \/ /\ store' = [store EXCEPT ![path[p]] = base[p]]
                /\ base[p] \in 1 .. Len(log) /\ log[base[p]].mod = path[p]
  <2>1. pc[p] = "write" /\ \E s \in {base[p], Torn} :
           store' = [store EXCEPT ![path[p]] = s]
    BY <1>2 DEF WriteBundle
  <2>2. base[p] # 0 /\ path[p] = mod[p] /\ log[base[p]].mod = mod[p]
    BY <2>1 DEF HandOwned, HandOwnedBy, Building
  <2>3. base[p] \in 1 .. Len(log)
    BY <2>2, InRange
  <2> QED
    BY <2>1, <2>2, <2>3
<1>3. ASSUME NEW a \in Paths, NEW b \in Paths, Copy(a, b)
      PROVE  /\ store' = [store EXCEPT ![b] = store[a]]
             /\ store[a] \in 1 .. Len(log)
             /\ b \in Modules => log[store[a]].mod = b
  BY <1>3, InRange, StoreAssumption DEF Copy
<1>4. \A p \in Procs : path[p] \in Paths
  BY InRange
<1>5. \/ \E p \in Procs : OpenBundle(p) \/ WriteBundle(p)
      \/ \E a, b \in Paths : Copy(a, b)
  BY DEF Next, Builder, Verifier, Finish, Crash, StartInit, StartUpdate,
         StartVerify, ReadExisting, ReadSurface, ReadHash, SigningFails,
         Route, Parsing, Step7Action, Step8Action, Step9Action, Exit, Edit,
         vars, files
<1> QED
  BY <1>1, <1>2, <1>3, <1>4, <1>5

(* Whatever commands overlap and wherever one is killed, together they do  *)
(* no more than append linked manifests, truncate bundle files, and put    *)
(* signed manifests of a module into its bundle file.                      *)
THEOREM StoreImplementsLog == Spec => ImplementsLog
<1>1. Init => Log!Init
  <2> SUFFICES ASSUME Init PROVE Log!Init
    OBVIOUS
  <2>1. log = << >> /\ Len(<< >>) = 0
    BY DEF Init
  <2>2. Links = << >>
    BY <2>1 DEF Links
  <2> QED
    BY <2>2 DEF Init, Log!Init
<1>2. ChainInv /\ [Next]_vars => [Log!Next]_<<Links, store>>
  <2> SUFFICES ASSUME ChainInv, [Next]_vars
               PROVE  Log!Next \/ <<Links, store>>' = <<Links, store>>
    OBVIOUS
  <2>1. CASE \E p \in Procs : Sign(p)
    BY <2>1, SignPublishes, LinksLength, InRange DEF ChainInv, Log!Next
  <2>2. CASE (~ \E p \in Procs : Sign(p)) /\ store' # store
    <3>1. Links' = Links
      BY <2>2, LogUntouched, LinksKept
    <3>2. PICK a \in Paths :
            \/ store' = [store EXCEPT ![a] = Torn]
            \/ \E i \in 1 .. Len(log) :
                 /\ store' = [store EXCEPT ![a] = i]
                 /\ a \in Modules => log[i].mod = a
      BY <2>2, StoreMoves
    <3>3. CASE store' = [store EXCEPT ![a] = Torn]
      BY <3>1, <3>3 DEF Log!Next, Log!Truncate
    <3>4. ASSUME NEW i \in 1 .. Len(log), store' = [store EXCEPT ![a] = i],
                 a \in Modules => log[i].mod = a
          PROVE  Log!Next
      <4>1. Links[i].mod = log[i].mod
        BY DEF Links, Link
      <4>2. i \in 1 .. Len(Links)
        BY LinksLength DEF ChainInv
      <4> QED
        BY <3>1, <3>4, <4>1, <4>2 DEF Log!Next, Log!Put
    <3> QED
      BY <3>2, <3>3, <3>4
  <2>3. CASE (~ \E p \in Procs : Sign(p)) /\ store' = store
    BY <2>3, LogUntouched, LinksKept
  <2> QED
    BY <2>1, <2>2, <2>3
<1> QED
  BY <1>1, <1>2, ChainInvariant, PTL DEF Spec, ImplementsLog, Log!Spec
=============================================================================
