----------------------- MODULE RegistryProvenanceProofs ---------------------
(***************************************************************************)
(* Theorems about RegistryProvenance, for all processes, registries,       *)
(* versions and bounds.                                                    *)
(*                                                                         *)
(* The inductive invariant says how far a run has come: which registries   *)
(* its cache holds by now, which files it has read, that both are as the   *)
(* files are while no file has changed, and that the receipt a capture     *)
(* belongs to was judged by this very cache.                               *)
(***************************************************************************)
EXTENDS RegistryProvenance, TLAPS

(* A run has loaded the registries before the one it is at, and all of     *)
(* them once it takes a snapshot.                                          *)
LoadedSoFar(p) ==
    /\ pc[p] = "verify" =>
         \A k \in DOMAIN Components : k < next[p] => cache[p][Components[k]] # NotLoaded
    /\ pc[p] \in {"snapshot", "capture"} => \A c \in Names : cache[p][c] # NotLoaded

ReadSoFar(p) ==
    pc[p] \in {"snapshot", "capture"} =>
        \A k \in DOMAIN Components : k < next[p] => Components[k] \in DOMAIN items[p]

(* Under a process that no file has changed under, the cache and the       *)
(* snapshot agree with the files.                                          *)
SteadyFiles(p) ==
    steady[p] /\ pc[p] # "off" =>
        /\ \A c \in Names : cache[p][c] # NotLoaded => cache[p][c] = Effective(c)
        /\ pc[p] \in {"snapshot", "capture"} =>
             \A c \in DOMAIN items[p] : items[p][c] = ItemOf(c)

CaptureIsOfItsReceipt(p) ==
    pc[p] = "capture" => goal[p] \in receipts /\ goal[p].judged = cache[p]

RefusingIn(judged) == {c \in Names : judged[c] \notin Accepting}

ReceiptHolds(r) ==
    /\ r.safety = r.judged["safety_registry"]
    /\ r.refusing = RefusingIn(r.judged)
    /\ r.status = "passed" => r.refusing = {} /\ ValidSnapshot(r.items)
    /\ r.status = "passed" /\ r.steady =>
         \A c \in Names : r.items[c].data = r.judged[c]
                           \/ (c = "evidence_ledger" /\ r.local)

SidecarHolds(s) ==
    \A c \in Names :
        /\ s.components[c] = s.receipt.judged[c]
        /\ s.receipt.items[c] = [data |-> s.receipt.judged[c], drift |-> FALSE]

VerdictHolds(v) ==
    /\ v.receipt.status = "passed"
    /\ v.receipt.steady /\ v.steady
    /\ ~v.receipt.local /\ ~v.local
    => (v.passed <=> v.items = v.receipt.items)

InStep(p) ==
    LoadedSoFar(p) /\ ReadSoFar(p) /\ SteadyFiles(p) /\ CaptureIsOfItsReceipt(p)

ResultsHold ==
    /\ \A r \in receipts : ReceiptHolds(r)
    /\ \A s \in sidecars : SidecarHolds(s)
    /\ \A v \in verdicts : VerdictHolds(v)

IInv == TypeOK /\ (\A p \in Processes : InStep(p)) /\ ResultsHold

---------------------------------------------------------------------------
(* Registries and snapshots *)

LEMMA ComponentsAreAList ==
    /\ Len(Components) \in Nat /\ DOMAIN Components = 1 .. Len(Components)
    /\ Len(Components) >= 1
    /\ \A k \in DOMAIN Components : Components[k] \in Names
    /\ "safety_registry" \in Names
<1>1. Len(Components) \in Nat /\ DOMAIN Components = 1 .. Len(Components)
  BY ComponentsAssumption
<1>2. PICK k \in DOMAIN Components : Components[k] = "safety_registry"
  BY ComponentsAssumption
<1> QED BY <1>1, <1>2 DEF Names

LEMMA EffectiveIsLoaded ==
    ASSUME NEW c, Effective(c) # LoadError PROVE Effective(c) \in Loaded
BY DEF Effective, Parsed, Loaded

LEMMA ItemsAreTyped ==
    ASSUME TypeOK, NEW c \in Names PROVE ItemOf(c) \in Item
<1>1. files[c]["primary"] \in FileContents /\ files[c]["secondary"] \in FileContents
  BY DEF TypeOK, Copies
<1> QED BY <1>1 DEF ItemOf, Item

(* An item that invalidates no snapshot names what load() returns: no      *)
(* fallback between the copies goes unseen, but for the ledger's to the    *)
(* working directory.                                                      *)
LEMMA ValidItemIsEffective ==
    ASSUME TypeOK, NEW c \in Names,
           ItemOf(c).data \in Versions, ~ItemOf(c).drift,
           ~(c = "evidence_ledger" /\ LocalLedger)
    PROVE  Effective(c) = ItemOf(c).data
<1> DEFINE first == files[c]["primary"]
           second == files[c]["secondary"]
           third == files[c]["working"]
<1>1. first \in FileContents /\ second \in FileContents
  BY DEF TypeOK, Copies
<1>2. /\ ItemOf(c).data = (IF first # Absent THEN first ELSE second)
      /\ ItemOf(c).drift = (first # Absent /\ second # Absent
                              /\ (first # second \/ first = Corrupt))
  BY DEF ItemOf
<1>3. c = "evidence_ledger" /\ first = Absent => third = Absent
  BY DEF LocalLedger
<1>4. Effective(c) =
        (IF c = "evidence_ledger"
         THEN IF first # Absent THEN Parsed(first)
              ELSE IF third # Absent THEN Parsed(third)
              ELSE IF second \in Versions THEN second ELSE Empty
         ELSE IF first \in Versions THEN first
              ELSE IF second # Absent THEN Parsed(second)
              ELSE Parsed(third))
  BY DEF Effective
<1> HIDE DEF first, second, third
<1>5. Absent \notin Versions
  BY MarkersAssumption
<1>6. CASE first = Absent
  <2>1. second \in Versions
    BY <1>2, <1>6
  <2> QED BY <1>2, <1>3, <1>4, <1>5, <1>6, <2>1 DEF Parsed
<1>7. CASE first # Absent
  <2>1. first \in Versions
    BY <1>2, <1>7
  <2> QED BY <1>2, <1>4, <1>7, <2>1 DEF Parsed
<1> QED BY <1>6, <1>7

LEMMA FullSnapshot ==
    ASSUME TypeOK, NEW p \in Processes, ReadSoFar(p),
           pc[p] \in {"snapshot", "capture"}, SnapshotRead(p)
    PROVE  items[p] \in Snapshots
<1>1. \A k \in DOMAIN Components : k < next[p]
  BY ComponentsAreAList DEF SnapshotRead, TypeOK
<1>2. Names \subseteq DOMAIN items[p]
  BY <1>1 DEF ReadSoFar, Names
<1>3. PICK read \in SUBSET Names : items[p] \in [read -> Item]
  BY DEF TypeOK, PartialSnapshots
<1>4. read = Names
  BY <1>2, <1>3
<1> QED BY <1>3, <1>4 DEF Snapshots

LEMMA FullCache ==
    ASSUME TypeOK, NEW p \in Processes, LoadedSoFar(p), pc[p] \in {"snapshot", "capture"}
    PROVE  cache[p] \in [Names -> Loaded]
<1>1. cache[p] \in [Names -> Loaded \cup {NotLoaded}]
  BY DEF TypeOK, Cache
<1>2. \A c \in Names : cache[p][c] \in Loaded
  BY <1>1 DEF LoadedSoFar
<1> QED BY <1>1, <1>2

---------------------------------------------------------------------------
(* The steps *)

(* A process is where it was after a step of another.                      *)
LEMMA OthersInStep ==
    ASSUME NEW q \in Processes, InStep(q), UNCHANGED files, receipts \subseteq receipts',
           pc'[q] = pc[q], cache'[q] = cache[q], next'[q] = next[q],
           items'[q] = items[q], steady'[q] = steady[q], goal'[q] = goal[q]
    PROVE  InStep(q)'
<1>1. LoadedSoFar(q)' /\ ReadSoFar(q)'
  BY DEF InStep, LoadedSoFar, ReadSoFar
<1>2. SteadyFiles(q)'
  BY DEF InStep, SteadyFiles, Effective, ItemOf
<1>3. CaptureIsOfItsReceipt(q)'
  BY DEF InStep, CaptureIsOfItsReceipt
<1> QED BY <1>1, <1>2, <1>3 DEF InStep

LEMMA ResultsStay ==
    ASSUME ResultsHold, UNCHANGED results PROVE ResultsHold'
BY DEF ResultsHold, results, ReceiptHolds, SidecarHolds, VerdictHolds

LEMMA EditFileKeeps ==
    ASSUME IInv, NEW c \in Names, NEW copy \in Copies, NEW v \in FileContents,
           EditFile(c, copy, v)
    PROVE  IInv'
<1>1. /\ UNCHANGED <<runs, pc, cache, goal, next, items, receipts, sidecars, verdicts>>
      /\ files' = [files EXCEPT ![c][copy] = v] /\ edits' = edits + 1 /\ edits < MaxEdits
      /\ steady' = [p \in Processes |-> steady[p] /\ pc[p] = "off"]
  BY DEF EditFile, results
<1>2. TypeOK'
  <2>1. files' \in [Names -> [Copies -> FileContents]]
    BY <1>1 DEF IInv, TypeOK
  <2>2. edits' \in 0 .. MaxEdits
    BY <1>1, BoundsAssumption DEF IInv, TypeOK
  <2>3. steady' \in [Processes -> BOOLEAN]
    BY <1>1 DEF IInv, TypeOK
  <2> QED BY <1>1, <2>1, <2>2, <2>3 DEF IInv, TypeOK
<1>3. \A p \in Processes : InStep(p)'
  <2> TAKE p \in Processes
  <2>1. LoadedSoFar(p)' /\ ReadSoFar(p)' /\ CaptureIsOfItsReceipt(p)'
    BY <1>1 DEF IInv, InStep, LoadedSoFar, ReadSoFar, CaptureIsOfItsReceipt
  <2>2. steady'[p] = (steady[p] /\ pc[p] = "off") /\ pc'[p] = pc[p]
    BY <1>1
  <2>3. SteadyFiles(p)'
    BY <2>2 DEF SteadyFiles
  <2> QED BY <2>1, <2>3 DEF InStep
<1> QED BY <1>1, <1>2, <1>3, ResultsStay DEF IInv, results

LEMMA StartKeeps ==
    ASSUME IInv, NEW p \in Processes, Start(p) \/ Stop(p) PROVE IInv'
<1> DEFINE nothing == [c \in Names |-> NotLoaded]
<1>1. /\ UNCHANGED <<files, edits, runs, goal, next, items, receipts, sidecars, verdicts>>
      /\ cache' = [cache EXCEPT ![p] = nothing]
      /\ \/ pc' = [pc EXCEPT ![p] = "idle"] /\ steady' = steady
         \/ pc' = [pc EXCEPT ![p] = "off"] /\ steady' = [steady EXCEPT ![p] = TRUE]
  BY DEF Start, Stop, results
<1>2. nothing \in Cache
  BY DEF Cache
<1>3. \A c \in Names : nothing[c] = NotLoaded
  OBVIOUS
<1> HIDE DEF nothing
<1>4. TypeOK'
  <2>1. cache' \in [Processes -> Cache]
    BY <1>1, <1>2 DEF IInv, TypeOK
  <2>2. /\ pc' \in [Processes -> {"off", "idle", "verify", "snapshot", "capture"}]
        /\ steady' \in [Processes -> BOOLEAN]
    BY <1>1 DEF IInv, TypeOK
  <2> QED BY <1>1, <2>1, <2>2 DEF IInv, TypeOK
<1>5. /\ pc'[p] \in {"off", "idle"} /\ cache'[p] = nothing
      /\ \A q \in Processes \ {p} :
           pc'[q] = pc[q] /\ cache'[q] = cache[q] /\ steady'[q] = steady[q]
  BY <1>1 DEF IInv, TypeOK
<1>6. InStep(p)'
  BY <1>3, <1>5 DEF InStep, LoadedSoFar, ReadSoFar, SteadyFiles, CaptureIsOfItsReceipt
<1>7. \A q \in Processes \ {p} : InStep(q)'
  BY <1>1, <1>5, OthersInStep DEF IInv
<1> QED BY <1>1, <1>4, <1>6, <1>7, ResultsStay DEF IInv, results

LEMMA BeginKeeps ==
    ASSUME IInv, NEW p \in Processes, NEW g \in receipts \cup {Issue}, Begin(p, g)
    PROVE  IInv'
<1>1. /\ UNCHANGED <<files, edits, cache, steady, items, receipts, sidecars, verdicts>>
      /\ runs < MaxRuns /\ runs' = runs + 1 /\ pc' = [pc EXCEPT ![p] = "verify"]
      /\ goal' = [goal EXCEPT ![p] = g] /\ next' = [next EXCEPT ![p] = 1]
      /\ pc[p] = "idle"
  BY DEF Begin, results
<1>2. TypeOK'
  <2>1. runs' \in 0 .. MaxRuns
    BY <1>1, BoundsAssumption DEF IInv, TypeOK
  <2>2. 1 \in 1 .. Len(Components) + 1
    BY ComponentsAreAList
  <2>3. /\ pc' \in [Processes -> {"off", "idle", "verify", "snapshot", "capture"}]
        /\ goal' \in [Processes -> {Issue} \cup receipts]
    BY <1>1 DEF IInv, TypeOK
  <2>4. next' \in [Processes -> 1 .. Len(Components) + 1]
    BY <1>1, <2>2 DEF IInv, TypeOK
  <2> QED BY <1>1, <2>1, <2>3, <2>4 DEF IInv, TypeOK
<1>3. /\ pc'[p] = "verify" /\ next'[p] = 1
      /\ \A q \in Processes \ {p} :
           pc'[q] = pc[q] /\ next'[q] = next[q] /\ goal'[q] = goal[q]
  BY <1>1 DEF IInv, TypeOK
<1>4. InStep(p)'
  <2>1. \A k \in DOMAIN Components : ~(k < 1)
    BY ComponentsAreAList
  <2>2. LoadedSoFar(p)' /\ ReadSoFar(p)' /\ CaptureIsOfItsReceipt(p)'
    BY <1>3, <2>1 DEF LoadedSoFar, ReadSoFar, CaptureIsOfItsReceipt
  <2>3. SteadyFiles(p)'
    BY <1>1, <1>3 DEF IInv, InStep, SteadyFiles, Effective, ItemOf
  <2> QED BY <2>2, <2>3 DEF InStep
<1>5. \A q \in Processes \ {p} : InStep(q)'
  BY <1>1, <1>3, OthersInStep DEF IInv
<1> QED BY <1>1, <1>2, <1>4, <1>5, ResultsStay DEF IInv, results

LEMMA ConsultKeeps ==
    ASSUME IInv, NEW p \in Processes, Consult(p) PROVE IInv'
<1> DEFINE c == Components[next[p]]
           data == IF cache[p][c] = NotLoaded THEN Effective(c) ELSE cache[p][c]
<1>1. /\ pc[p] = "verify" /\ next[p] \in DOMAIN Components
      /\ UNCHANGED <<files, edits, runs, steady, goal, items, receipts, sidecars, verdicts>>
  BY DEF Consult, results
<1>2. c \in Names /\ next[p] \in 1 .. Len(Components)
  BY <1>1, ComponentsAreAList
<1>3. CASE data = LoadError
  <2>1. pc' = [pc EXCEPT ![p] = "idle"] /\ UNCHANGED <<cache, next>>
    BY <1>3 DEF Consult
  <2>2. pc'[p] = "idle" /\ \A q \in Processes \ {p} : pc'[q] = pc[q]
    BY <2>1 DEF IInv, TypeOK
  <2>3. TypeOK'
    <3>1. pc' \in [Processes -> {"off", "idle", "verify", "snapshot", "capture"}]
      BY <2>1 DEF IInv, TypeOK
    <3> QED BY <1>1, <2>1, <3>1 DEF IInv, TypeOK
  <2>4. InStep(p)'
    BY <1>1, <2>1, <2>2 DEF IInv, InStep, LoadedSoFar, ReadSoFar, SteadyFiles,
                            CaptureIsOfItsReceipt, Effective
  <2>5. \A q \in Processes \ {p} : InStep(q)'
    BY <1>1, <2>1, <2>2, OthersInStep DEF IInv
  <2> QED BY <1>1, <2>3, <2>4, <2>5, ResultsStay DEF IInv, results
<1>4. CASE data # LoadError
  <2>1. /\ cache' = [cache EXCEPT ![p][c] = data] /\ UNCHANGED pc
        /\ next' = [next EXCEPT ![p] = @ + 1]
    BY <1>4 DEF Consult
  <2>2. /\ cache[p] \in [Names -> Loaded \cup {NotLoaded}]
        /\ cache[p][c] \in Loaded \cup {NotLoaded}
    BY <1>2 DEF IInv, TypeOK, Cache
  <2>3. data \in Loaded /\ data # NotLoaded
    BY <1>4, <2>2, EffectiveIsLoaded, MarkersAssumption
  <2>4. steady[p] => data = Effective(c)
    BY <1>1, <1>2 DEF IInv, InStep, SteadyFiles
  <2> HIDE DEF data, c
  <2>5. /\ cache'[p] = [cache[p] EXCEPT ![c] = data] /\ next'[p] = next[p] + 1
        /\ \A q \in Processes \ {p} : cache'[q] = cache[q] /\ next'[q] = next[q]
    BY <2>1 DEF IInv, TypeOK
  <2>6. /\ cache'[p] \in Cache /\ cache'[p][c] = data
        /\ \A n \in Names \ {c} : cache'[p][n] = cache[p][n]
    BY <1>2, <2>2, <2>3, <2>5 DEF Cache
  <2>7. TypeOK'
    <3>1. cache' \in [Processes -> Cache]
      BY <2>1, <2>5, <2>6 DEF IInv, TypeOK
    <3>2. next[p] + 1 \in 1 .. Len(Components) + 1
      BY <1>2, ComponentsAreAList
    <3>3. next' \in [Processes -> 1 .. Len(Components) + 1]
      BY <2>1, <3>2 DEF IInv, TypeOK
    <3> QED BY <1>1, <2>1, <3>1, <3>3 DEF IInv, TypeOK
  <2>8. LoadedSoFar(p)'
    <3> SUFFICES ASSUME NEW k \in DOMAIN Components, k < next[p] + 1
                 PROVE  cache'[p][Components[k]] # NotLoaded
      BY <1>1, <2>1, <2>5 DEF LoadedSoFar
    <3>1. k = next[p] \/ k < next[p]
      BY <1>2, ComponentsAreAList
    <3>2. Components[k] \in Names
      BY ComponentsAreAList
    <3>3. CASE Components[k] = c
      BY <2>3, <2>6, <3>3
    <3>4. CASE Components[k] # c
      <4>1. k < next[p]
        BY <3>1, <3>4 DEF c
      <4> QED BY <1>1, <2>6, <3>2, <3>4, <4>1 DEF IInv, InStep, LoadedSoFar
    <3> QED BY <3>3, <3>4
  <2>9. SteadyFiles(p)'
    <3>1. \A n : Effective(n)' = Effective(n) /\ ItemOf(n)' = ItemOf(n)
      BY <1>1 DEF Effective, ItemOf
    <3> SUFFICES ASSUME steady[p], NEW n \in Names, cache'[p][n] # NotLoaded
                 PROVE  cache'[p][n] = Effective(n)
      BY <1>1, <2>1, <3>1 DEF SteadyFiles
    <3> QED BY <1>1, <2>4, <2>6 DEF IInv, InStep, SteadyFiles
  <2>10. ReadSoFar(p)' /\ CaptureIsOfItsReceipt(p)'
    BY <1>1, <2>1 DEF ReadSoFar, CaptureIsOfItsReceipt
  <2>11. \A q \in Processes \ {p} : InStep(q)'
    BY <1>1, <2>1, <2>5, OthersInStep DEF IInv
  <2> QED BY <1>1, <2>7, <2>8, <2>9, <2>10, <2>11, ResultsStay DEF IInv, InStep, results
<1> QED BY <1>3, <1>4

LEMMA NothingRead == <<>> \in PartialSnapshots /\ DOMAIN <<>> = {}
<1>1. <<>> \in [{} -> Item] /\ DOMAIN <<>> = {}
  OBVIOUS
<1> QED BY <1>1 DEF PartialSnapshots

(* A snapshot begins, in a run that has loaded every registry.             *)
LEMMA SnapshotBegins ==
    ASSUME IInv, NEW p \in Processes, NEW phase \in {"snapshot", "capture"},
           BeginSnapshot(p, phase), UNCHANGED <<files, steady, cache>>,
           \A c \in Names : cache[p][c] # NotLoaded,
           pc[p] # "off",
           receipts \subseteq receipts',
           \A q \in Processes \ {p} : goal'[q] = goal[q],
           phase = "capture" => goal'[p] \in receipts' /\ goal'[p].judged = cache[p]
    PROVE  /\ pc' \in [Processes -> {"off", "idle", "verify", "snapshot", "capture"}]
           /\ next' \in [Processes -> 1 .. Len(Components) + 1]
           /\ items' \in [Processes -> PartialSnapshots]
           /\ \A q \in Processes : InStep(q)'
<1>1. /\ pc' = [pc EXCEPT ![p] = phase] /\ next' = [next EXCEPT ![p] = 1]
      /\ items' = [items EXCEPT ![p] = <<>>]
  BY DEF BeginSnapshot
<1>2. /\ pc' \in [Processes -> {"off", "idle", "verify", "snapshot", "capture"}]
      /\ next' \in [Processes -> 1 .. Len(Components) + 1]
      /\ items' \in [Processes -> PartialSnapshots]
  <2>1. 1 \in 1 .. Len(Components) + 1
    BY ComponentsAreAList
  <2> QED BY <1>1, <2>1, NothingRead DEF IInv, TypeOK
<1>3. /\ pc'[p] = phase /\ next'[p] = 1 /\ items'[p] = <<>>
      /\ \A q \in Processes \ {p} :
           pc'[q] = pc[q] /\ next'[q] = next[q] /\ items'[q] = items[q]
  BY <1>1 DEF IInv, TypeOK
<1>4. LoadedSoFar(p)'
  BY <1>3 DEF LoadedSoFar
<1>5. ReadSoFar(p)'
  <2>1. \A k \in DOMAIN Components : ~(k < 1)
    BY ComponentsAreAList
  <2> QED BY <1>3, <2>1 DEF ReadSoFar
<1>6. SteadyFiles(p)'
  <2>1. \A n : Effective(n)' = Effective(n)
    BY DEF Effective
  <2> QED BY <1>3, <2>1, NothingRead DEF IInv, InStep, SteadyFiles
<1>7. CaptureIsOfItsReceipt(p)'
  BY <1>3 DEF CaptureIsOfItsReceipt
<1>8. \A q \in Processes \ {p} : InStep(q)'
  BY <1>3, OthersInStep DEF IInv
<1> QED BY <1>2, <1>4, <1>5, <1>6, <1>7, <1>8 DEF InStep

LEMMA VerifiedKeeps ==
    ASSUME IInv, NEW p \in Processes, Verified(p) PROVE IInv'
<1>1. /\ pc[p] = "verify" /\ next[p] > Len(Components)
      /\ BeginSnapshot(p, "snapshot")
      /\ UNCHANGED <<files, edits, runs, steady, cache, goal, receipts, sidecars, verdicts>>
  BY DEF Verified, results
<1>2. \A c \in Names : cache[p][c] # NotLoaded
  <2>1. \A k \in DOMAIN Components : k < next[p]
    BY <1>1, ComponentsAreAList DEF IInv, TypeOK
  <2> QED BY <1>1, <2>1 DEF IInv, InStep, LoadedSoFar, Names
<1>3. /\ pc' \in [Processes -> {"off", "idle", "verify", "snapshot", "capture"}]
      /\ next' \in [Processes -> 1 .. Len(Components) + 1]
      /\ items' \in [Processes -> PartialSnapshots]
      /\ \A q \in Processes : InStep(q)'
  BY <1>1, <1>2, SnapshotBegins
<1>4. TypeOK'
  BY <1>1, <1>3 DEF IInv, TypeOK
<1> QED BY <1>1, <1>3, <1>4, ResultsStay DEF IInv, results

LEMMA ReadItemKeeps ==
    ASSUME IInv, NEW p \in Processes, ReadItem(p) PROVE IInv'
<1> DEFINE c == Components[next[p]]
           more == [n \in DOMAIN items[p] \cup {c} |->
                      IF n = c THEN ItemOf(c) ELSE items[p][n]]
<1>1. /\ pc[p] \in {"snapshot", "capture"} /\ next[p] \in DOMAIN Components
      /\ items' = [items EXCEPT ![p] = more] /\ next' = [next EXCEPT ![p] = @ + 1]
      /\ UNCHANGED <<files, edits, runs, steady, pc, cache, goal, receipts, sidecars, verdicts>>
  BY DEF ReadItem, results
<1>2. c \in Names /\ next[p] \in 1 .. Len(Components)
  BY <1>1, ComponentsAreAList
<1>3. /\ DOMAIN more = DOMAIN items[p] \cup {c} /\ more[c] = ItemOf(c)
      /\ \A n \in DOMAIN items[p] \ {c} : more[n] = items[p][n]
  OBVIOUS
<1>4. more \in PartialSnapshots
  <2>1. PICK read \in SUBSET Names : items[p] \in [read -> Item]
    BY DEF IInv, TypeOK, PartialSnapshots
  <2>2. ItemOf(c) \in Item
    BY <1>2, ItemsAreTyped DEF IInv
  <2>3. more \in [read \cup {c} -> Item]
    BY <2>1, <2>2
  <2>4. read \cup {c} \in SUBSET Names
    BY <1>2
  <2> HIDE DEF more
  <2> QED BY <2>3, <2>4 DEF PartialSnapshots
<1> HIDE DEF more, c
<1>5. /\ items'[p] = more /\ next'[p] = next[p] + 1
      /\ \A q \in Processes \ {p} : items'[q] = items[q] /\ next'[q] = next[q]
  BY <1>1 DEF IInv, TypeOK
<1>6. TypeOK'
  <2>1. next[p] + 1 \in 1 .. Len(Components) + 1
    BY <1>2, ComponentsAreAList
  <2>2. items' \in [Processes -> PartialSnapshots]
    BY <1>1, <1>4 DEF IInv, TypeOK
  <2>3. next' \in [Processes -> 1 .. Len(Components) + 1]
    BY <1>1, <2>1 DEF IInv, TypeOK
  <2> QED BY <1>1, <2>2, <2>3 DEF IInv, TypeOK
<1>7. InStep(p)'
  <2>1. LoadedSoFar(p)' /\ CaptureIsOfItsReceipt(p)'
    BY <1>1 DEF IInv, InStep, LoadedSoFar, CaptureIsOfItsReceipt
  <2>2. ReadSoFar(p)'
    <3> SUFFICES ASSUME NEW k \in DOMAIN Components, k < next[p] + 1
                 PROVE  Components[k] \in DOMAIN more
      BY <1>5 DEF ReadSoFar
    <3>1. k = next[p] \/ k < next[p]
      BY <1>2, ComponentsAreAList
    <3>2. CASE k = next[p]
      BY <1>3, <3>2 DEF c
    <3>3. CASE k < next[p]
      BY <1>1, <1>3, <3>3 DEF IInv, InStep, ReadSoFar
    <3> QED BY <3>1, <3>2, <3>3
  <2>3. SteadyFiles(p)'
    <3>1. \A n : Effective(n)' = Effective(n) /\ ItemOf(n)' = ItemOf(n)
      BY <1>1 DEF Effective, ItemOf
    <3>2. steady[p] => \A n \in DOMAIN more : more[n] = ItemOf(n)
      BY <1>1, <1>3 DEF IInv, InStep, SteadyFiles
    <3> QED BY <1>1, <1>5, <3>1, <3>2 DEF IInv, InStep, SteadyFiles
  <2> QED BY <2>1, <2>2, <2>3 DEF InStep
<1>8. \A q \in Processes \ {p} : InStep(q)'
  BY <1>1, <1>5, OthersInStep DEF IInv
<1> QED BY <1>1, <1>6, <1>7, <1>8, ResultsStay DEF IInv, results

(* What a run that has read its snapshot says of its registries.           *)
LEMMA FreshReceiptHolds ==
    ASSUME IInv, NEW p \in Processes, pc[p] = "snapshot", SnapshotRead(p)
    PROVE  LET r == FreshReceipt(p)
           IN  /\ r \in Receipt /\ ReceiptHolds(r)
               /\ r.items = items[p] /\ r.judged = cache[p] /\ r.steady = steady[p]
               /\ r.local = LocalLedger
               /\ r.safety = cache[p]["safety_registry"]
               /\ r.refusing = RefusingIn(cache[p])
               /\ r.status = (IF r.refusing = {} /\ ValidSnapshot(items[p])
                               THEN "passed" ELSE "refused")
               /\ steady[p] /\ ValidSnapshot(items[p]) =>
                    \A c \in Names : items[p][c].data = cache[p][c]
                                      \/ (c = "evidence_ledger" /\ LocalLedger)
<1> DEFINE r == FreshReceipt(p)
<1>1. items[p] \in Snapshots
  BY FullSnapshot DEF IInv, InStep
<1>2. cache[p] \in [Names -> Loaded]
  BY FullCache DEF IInv, InStep
<1>3. cache[p]["safety_registry"] \in Loaded
  BY <1>2, ComponentsAreAList
<1>4. Refusing(p) = RefusingIn(cache[p]) /\ RefusingIn(cache[p]) \in SUBSET Names
  BY DEF Refusing, RefusingIn
<1>5. /\ r.items = items[p] /\ r.judged = cache[p] /\ r.steady = steady[p]
      /\ r.local = LocalLedger
      /\ r.safety = cache[p]["safety_registry"] /\ r.refusing = Refusing(p)
      /\ r.status = (IF Refusing(p) = {} /\ ValidSnapshot(items[p])
                     THEN "passed" ELSE "refused")
  BY DEF FreshReceipt
<1>6. r \in Receipt
  <2>1. steady[p] \in BOOLEAN /\ LocalLedger \in BOOLEAN
    BY DEF IInv, TypeOK, LocalLedger
  <2> DEFINE status == IF Refusing(p) = {} /\ ValidSnapshot(items[p])
                       THEN "passed" ELSE "refused"
  <2>2. status \in {"passed", "refused"}
    OBVIOUS
  <2>3. r = [items |-> items[p], safety |-> cache[p]["safety_registry"],
             refusing |-> Refusing(p), status |-> status,
             judged |-> cache[p], steady |-> steady[p], local |-> LocalLedger]
    BY DEF FreshReceipt
  <2> HIDE DEF status, r
  <2> QED BY <1>1, <1>2, <1>3, <1>4, <2>1, <2>2, <2>3 DEF Receipt
<1>7. ASSUME steady[p], ValidSnapshot(items[p]), NEW c \in Names,
             ~(c = "evidence_ledger" /\ LocalLedger)
      PROVE  items[p][c].data = cache[p][c]
  <2>1. c \in DOMAIN items[p]
    BY <1>1 DEF Snapshots
  <2>2. items[p][c] = ItemOf(c) /\ cache[p][c] = Effective(c)
    BY <1>7, <2>1 DEF IInv, InStep, SteadyFiles, LoadedSoFar
  <2>3. ItemOf(c).data \in Versions /\ ~ItemOf(c).drift
    BY <1>7, <2>2 DEF ValidSnapshot
  <2> QED BY <1>7, <2>2, <2>3, ValidItemIsEffective DEF IInv
<1> HIDE DEF r
<1>8. ReceiptHolds(r)
  BY <1>4, <1>5, <1>7 DEF ReceiptHolds
<1> QED BY <1>4, <1>5, <1>6, <1>7, <1>8 DEF r

LEMMA IssueReceiptKeeps ==
    ASSUME IInv, NEW p \in Processes, IssueReceipt(p) PROVE IInv'
<1> DEFINE r == FreshReceipt(p)
<1>1. /\ pc[p] = "snapshot" /\ SnapshotRead(p)
      /\ receipts' = receipts \cup {r} /\ goal' = [goal EXCEPT ![p] = r]
      /\ BeginSnapshot(p, "capture")
      /\ UNCHANGED <<files, edits, runs, steady, cache, sidecars, verdicts>>
  BY DEF IssueReceipt
<1>2. r \in Receipt /\ ReceiptHolds(r) /\ r.judged = cache[p]
  BY <1>1, FreshReceiptHolds
<1> HIDE DEF r
<1>3. goal' \in [Processes -> {Issue} \cup receipts'] /\ goal'[p] = r
  BY <1>1 DEF IInv, TypeOK
<1>4. \A c \in Names : cache[p][c] # NotLoaded
  BY <1>1 DEF IInv, InStep, LoadedSoFar
<1>5. \A q \in Processes \ {p} : goal'[q] = goal[q]
  BY <1>1 DEF IInv, TypeOK
<1>6. /\ pc' \in [Processes -> {"off", "idle", "verify", "snapshot", "capture"}]
      /\ next' \in [Processes -> 1 .. Len(Components) + 1]
      /\ items' \in [Processes -> PartialSnapshots]
      /\ \A q \in Processes : InStep(q)'
  BY <1>1, <1>2, <1>3, <1>4, <1>5, SnapshotBegins
<1>7. TypeOK'
  BY <1>1, <1>2, <1>3, <1>6 DEF IInv, TypeOK
<1>8. ResultsHold'
  BY <1>1, <1>2 DEF IInv, ResultsHold, ReceiptHolds, SidecarHolds, VerdictHolds
<1> QED BY <1>6, <1>7, <1>8 DEF IInv

(* A run ends: it is idle, and has no goal.                                *)
LEMMA RunEnds ==
    ASSUME IInv, NEW p \in Processes,
           pc[p] # "off",
           pc' = [pc EXCEPT ![p] = "idle"], goal' = [goal EXCEPT ![p] = Issue],
           UNCHANGED <<files, edits, runs, steady, cache, next, items, receipts>>,
           sidecars' \subseteq Sidecar, verdicts' \subseteq Verdict,
           \A s \in sidecars' : s.receipt \in receipts,
           \A v \in verdicts' : v.receipt \in receipts
    PROVE  TypeOK' /\ \A q \in Processes : InStep(q)'
<1>1. /\ pc' \in [Processes -> {"off", "idle", "verify", "snapshot", "capture"}]
      /\ goal' \in [Processes -> {Issue} \cup receipts]
      /\ pc'[p] = "idle"
      /\ \A q \in Processes \ {p} : pc'[q] = pc[q] /\ goal'[q] = goal[q]
  BY DEF IInv, TypeOK
<1>2. TypeOK'
  BY <1>1 DEF IInv, TypeOK
<1>3. InStep(p)'
  BY <1>1 DEF IInv, InStep, LoadedSoFar, ReadSoFar, SteadyFiles, CaptureIsOfItsReceipt,
              Effective
<1> QED BY <1>1, <1>2, <1>3, OthersInStep DEF IInv

LEMMA FinishReplayKeeps ==
    ASSUME IInv, NEW p \in Processes, FinishReplay(p) PROVE IInv'
<1> DEFINE fresh == FreshReceipt(p)
           old == goal[p]
           v == [receipt |-> old, items |-> items[p],
                 passed |-> Reproduces(old, fresh),
                 steady |-> steady[p], local |-> LocalLedger]
<1>1. /\ pc[p] = "snapshot" /\ SnapshotRead(p) /\ old # Issue
      /\ verdicts' = verdicts \cup {v}
      /\ pc' = [pc EXCEPT ![p] = "idle"] /\ goal' = [goal EXCEPT ![p] = Issue]
      /\ UNCHANGED <<files, edits, runs, steady, cache, next, items, receipts, sidecars>>
  BY DEF FinishReplay
<1>2. old \in receipts /\ old \in Receipt /\ ReceiptHolds(old)
  BY <1>1 DEF IInv, TypeOK, ResultsHold
<1>3. /\ fresh.items = items[p] /\ fresh.judged = cache[p] /\ fresh.steady = steady[p]
      /\ fresh.safety = cache[p]["safety_registry"]
      /\ fresh.refusing = RefusingIn(cache[p])
      /\ fresh.status = (IF fresh.refusing = {} /\ ValidSnapshot(items[p])
                         THEN "passed" ELSE "refused")
      /\ steady[p] /\ ValidSnapshot(items[p]) =>
            \A c \in Names : items[p][c].data = cache[p][c]
                              \/ (c = "evidence_ledger" /\ LocalLedger)
  BY <1>1, FreshReceiptHolds
<1>4. items[p] \in Snapshots /\ steady[p] \in BOOLEAN /\ LocalLedger \in BOOLEAN
  BY <1>1, FullSnapshot DEF IInv, InStep, TypeOK, LocalLedger
<1> HIDE DEF fresh, old
<1>5. v \in Verdict /\ v.receipt = old
  <2>1. Reproduces(old, fresh) \in BOOLEAN
    BY DEF Reproduces
  <2> QED BY <1>2, <1>4, <2>1 DEF Verdict
<1>6. VerdictHolds(v)
  <2>1. /\ v.receipt = old /\ v.items = items[p] /\ v.steady = steady[p]
        /\ v.passed = Reproduces(old, fresh) /\ v.local = LocalLedger
    OBVIOUS
  <2> HIDE DEF v
  <2>2. ASSUME v.passed PROVE v.items = old.items
    BY <1>3, <2>1, <2>2 DEF Reproduces
  <2>3. ASSUME old.status = "passed", old.steady, v.steady,
               ~old.local, ~v.local, v.items = old.items
        PROVE  v.passed
    <3>1. \A c \in Names : old.judged[c] = cache[p][c]
      <4>1. ValidSnapshot(items[p])
        BY <1>2, <2>1, <2>3 DEF ReceiptHolds
      <4>2. \A c \in Names : items[p][c].data = cache[p][c]
        BY <1>3, <2>1, <2>3, <4>1
      <4>3. \A c \in Names : old.items[c].data = old.judged[c]
        BY <1>2, <2>3 DEF ReceiptHolds
      <4> QED BY <2>1, <2>3, <4>2, <4>3
    <3>2. old.safety = fresh.safety
      BY <1>2, <1>3, <3>1, ComponentsAreAList DEF ReceiptHolds
    <3>3. RefusingIn(old.judged) = RefusingIn(cache[p])
      BY <3>1 DEF RefusingIn
    <3>4. old.refusing = fresh.refusing /\ fresh.refusing = {} /\ ValidSnapshot(items[p])
      BY <1>2, <1>3, <2>1, <2>3, <3>3 DEF ReceiptHolds
    <3> QED BY <1>3, <2>1, <2>3, <3>2, <3>4 DEF Reproduces
  <2> QED BY <2>1, <2>2, <2>3 DEF VerdictHolds
<1> HIDE DEF v
<1>7. TypeOK' /\ \A q \in Processes : InStep(q)'
  BY <1>1, <1>2, <1>5, RunEnds DEF IInv, TypeOK, old
<1>8. ResultsHold'
  BY <1>1, <1>6 DEF IInv, ResultsHold, ReceiptHolds, SidecarHolds, VerdictHolds
<1> QED BY <1>7, <1>8 DEF IInv

LEMMA EndCaptureKeeps ==
    ASSUME IInv, NEW p \in Processes, WriteSidecar(p) \/ RefuseSidecar(p) PROVE IInv'
<1>1. /\ pc[p] = "capture" /\ SnapshotRead(p)
      /\ pc' = [pc EXCEPT ![p] = "idle"] /\ goal' = [goal EXCEPT ![p] = Issue]
      /\ UNCHANGED <<files, edits, runs, steady, cache, next, items, receipts, verdicts>>
  BY DEF WriteSidecar, RefuseSidecar, EndCapture
<1>2. CASE RefuseSidecar(p)
  <2>1. UNCHANGED sidecars
    BY <1>2 DEF RefuseSidecar
  <2>2. TypeOK' /\ \A q \in Processes : InStep(q)'
    BY <1>1, <2>1, RunEnds DEF IInv, TypeOK
  <2> QED BY <1>1, <2>1, <2>2, ResultsStay DEF IInv, results
<1>3. CASE WriteSidecar(p)
  <2> DEFINE r == goal[p]
             s == [receipt |-> r, runtime |-> items[p], components |-> cache[p]]
  <2>1. sidecars' = sidecars \cup {s} /\ Captures(p)
    BY <1>3 DEF WriteSidecar
  <2>2. r \in receipts /\ r.judged = cache[p] /\ r \in Receipt
    BY <1>1 DEF IInv, InStep, CaptureIsOfItsReceipt, TypeOK
  <2>3. items[p] \in Snapshots /\ cache[p] \in [Names -> Loaded]
    BY <1>1, FullSnapshot, FullCache DEF IInv, InStep
  <2>4. s \in Sidecar /\ s.receipt = r
    BY <2>2, <2>3 DEF Sidecar
  <2>5. SidecarHolds(s)
    <3> SUFFICES ASSUME NEW c \in Names
                 PROVE  /\ cache[p][c] = r.judged[c]
                        /\ r.items[c] = [data |-> r.judged[c], drift |-> FALSE]
      BY DEF SidecarHolds
    <3>1. /\ items[p][c] \in Item /\ cache[p][c] = items[p][c].data
          /\ ~items[p][c].drift /\ r.items = items[p]
      BY <2>1, <2>3 DEF Captures, ValidSnapshot, Snapshots
    <3>2. items[p][c] = [data |-> items[p][c].data, drift |-> FALSE]
      BY <3>1 DEF Item
    <3> QED BY <2>2, <3>1, <3>2
  <2> HIDE DEF s
  <2>6. TypeOK' /\ \A q \in Processes : InStep(q)'
    BY <1>1, <2>1, <2>2, <2>4, RunEnds DEF IInv, TypeOK
  <2>7. ResultsHold'
    BY <1>1, <2>1, <2>5 DEF IInv, ResultsHold, ReceiptHolds, SidecarHolds, VerdictHolds
  <2> QED BY <2>6, <2>7 DEF IInv
<1> QED BY <1>2, <1>3

---------------------------------------------------------------------------
(* The invariant *)

LEMMA InitIInv == Init => IInv
<1> SUFFICES ASSUME Init PROVE IInv
  OBVIOUS
<1>1. files \in [Names -> [Copies -> FileContents]]
  <2>1. PICK v \in Versions, checkout \in BOOLEAN :
          files = [c \in Names |-> [copy \in Copies |->
                     IF copy = "working" \/ (copy = RepositoryCopy(c) /\ ~checkout)
                     THEN Absent ELSE v]]
    BY DEF Init
  <2>2. v \in FileContents /\ Absent \in FileContents
    BY DEF FileContents
  <2> QED BY <2>1, <2>2
<1>2. edits \in 0 .. MaxEdits /\ runs \in 0 .. MaxRuns /\ 1 \in 1 .. Len(Components) + 1
  BY BoundsAssumption, ComponentsAreAList DEF Init
<1>3. cache \in [Processes -> Cache]
  <2>1. [c \in Names |-> NotLoaded] \in Cache
    BY DEF Cache
  <2> QED BY <2>1 DEF Init
<1>4. items \in [Processes -> PartialSnapshots]
  BY NothingRead DEF Init
<1>5. TypeOK
  BY <1>1, <1>2, <1>3, <1>4 DEF Init, TypeOK
<1>6. \A p \in Processes : pc[p] = "off"
  BY DEF Init
<1>7. \A p \in Processes : InStep(p)
  BY <1>6 DEF InStep, LoadedSoFar, ReadSoFar, SteadyFiles, CaptureIsOfItsReceipt
<1> QED BY <1>5, <1>7 DEF IInv, Init, ResultsHold

LEMMA NextIInv == IInv /\ [Next]_vars => IInv'
<1> SUFFICES ASSUME IInv, [Next]_vars PROVE IInv'
  OBVIOUS
<1>1. CASE UNCHANGED vars
  <2>1. /\ UNCHANGED <<files, edits, runs, pc, cache, steady>>
        /\ UNCHANGED <<goal, next, items, receipts, sidecars, verdicts>>
    BY <1>1 DEF vars
  <2>2. TypeOK'
    BY <2>1 DEF IInv, TypeOK
  <2> QED BY <2>1, <2>2, OthersInStep, ResultsStay DEF IInv, results
<1>2. CASE \E c \in Names, copy \in Copies, v \in FileContents : EditFile(c, copy, v)
  BY <1>2, EditFileKeeps
<1>3. ASSUME NEW p \in Processes,
             \/ Start(p) \/ Stop(p)
             \/ \E g \in receipts \cup {Issue} : Begin(p, g)
             \/ Consult(p) \/ Verified(p) \/ ReadItem(p)
             \/ IssueReceipt(p) \/ FinishReplay(p)
             \/ WriteSidecar(p) \/ RefuseSidecar(p)
      PROVE  IInv'
  BY <1>3, StartKeeps, BeginKeeps, ConsultKeeps, VerifiedKeeps, ReadItemKeeps,
     IssueReceiptKeeps, FinishReplayKeeps, EndCaptureKeeps
<1> QED BY <1>1, <1>2, <1>3 DEF Next

LEMMA SpecIInv == Spec => []IInv
BY InitIInv, NextIInv, PTL DEF Spec

---------------------------------------------------------------------------
(* Theorems *)

(* Files, caches, snapshots being read, receipts, sidecars and verdicts    *)
(* have their types in all reachable states.                               *)
THEOREM TypeCorrect == Spec => []TypeOK
<1>1. IInv => TypeOK
  BY DEF IInv
<1> QED BY <1>1, SpecIInv, PTL

(* A passed receipt was judged by the registries its snapshot names, if no *)
(* file changed under its process: a fallback of load() to another copy    *)
(* always shows in registry_snapshot, but for the ledger's to the working  *)
(* directory.                                                              *)
THEOREM PassedIsJudgedAsBound == Spec => []PassedMeansJudgedAsBound
<1>1. IInv => PassedMeansJudgedAsBound
  BY DEF IInv, ResultsHold, ReceiptHolds, PassedMeansJudgedAsBound
<1> QED BY <1>1, SpecIInv, PTL

(* Whatever changes while a process runs, a sidecar holds the registries   *)
(* that judged its receipt: the comparisons of capture_registry_snapshot   *)
(* are enough.                                                             *)
THEOREM SidecarsBind == Spec => []SidecarBindsWhatJudged
<1>1. IInv => SidecarBindsWhatJudged
  BY DEF IInv, ResultsHold, SidecarHolds, SidecarBindsWhatJudged
<1> QED BY <1>1, SpecIInv, PTL

(* Between steady processes, neither with a ledger of the working          *)
(* directory, a passed receipt replays exactly under the registries its    *)
(* snapshot names.                                                         *)
THEOREM PassedReceiptsReplay == Spec => []PassedReceiptReplays
<1>1. IInv => PassedReceiptReplays
  BY DEF IInv, ResultsHold, VerdictHolds, PassedReceiptReplays
<1> QED BY <1>1, SpecIInv, PTL

=============================================================================
