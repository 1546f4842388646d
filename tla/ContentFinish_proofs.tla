------------------------ MODULE ContentFinish_proofs ------------------------
(***************************************************************************)
(* Proofs about the finish of a package, for any kinds of metas, versions,   *)
(* number of runs and of faults.                                             *)
(***************************************************************************)
EXTENDS ContentFinish, FiniteSetTheorems, WellFoundedInduction, TLAPS

Pcs == {"idle", "register", "list", "clean", "remove", "commit", "clear", "push",
        "launch", "invalidate", "failed", "rollback", "discard"}
Filings == {"list", "clean", "remove", "commit", "clear", "push"}
Finishings == Filings \cup {"launch", "invalidate"}

(* What the variables hold; what the newest version is depends on how many   *)
(* versions there are, so the launch version is left out.                    *)
Types ==
  /\ stored \in [Storages -> SUBSET Contents]
  /\ mem \in [Storages -> SUBSET Metas]
  /\ disk \in [Storages -> SUBSET Metas]
  /\ run \in [pc : Pcs, pkg : Packages \cup {{}}, target : Storages, toRegister : SUBSET Contents,
              left : SUBSET Metas, olds : SUBSET Metas, old : Metas \cup {NoMeta},
              modified : BOOLEAN, launch : {run.launch}, seen : SUBSET Storages,
              outcome : {"none", "already", "newer", "done", "failed", "cut"}, runs : Int]
  /\ run.pc # "idle" => run.pkg \in Packages

(* The console has this meta of the run, for good. *)
Filed(m) ==
  /\ m \in mem[run.target] /\ m \in disk[run.target]
  /\ [meta |-> m, storage |-> run.target] \in listed
  /\ ContentsOf(m) \subseteq stored[run.target]

(* How far a run has come is what the console has of its package already. *)
Progress ==
  /\ run.pc = "register" =>
       \A m \in run.pkg : ContentsOf(m) \subseteq stored[run.target] \cup run.toRegister
  /\ run.pc \in Finishings =>
       /\ run.left \subseteq run.pkg
       /\ \A m \in run.pkg : ContentsOf(m) \subseteq stored[run.target]
       /\ \A m \in run.pkg \ run.left : Filed(m)
  /\ run.pc \in {"launch", "invalidate"} => run.left = {}

(* What the meta at hand has been through, and what of its title is removed. *)
AtHand ==
  /\ run.pc \in Filings => run.left # {}
  /\ run.pc \in {"register", "list", "commit", "clear", "push"} => run.olds = {}
  /\ run.pc \in {"clean", "remove"} =>
       \A o \in run.olds : o.kind = Filing.kind /\ o # Filing
  /\ run.pc = "remove" => run.old \in run.olds
  /\ run.pc \in {"commit", "clear", "push"} => Filing \in mem[run.target]
  /\ run.pc \in {"clear", "push"} => Filing \in disk[run.target]

IInv == Types /\ Progress /\ AtHand /\ DoneIsUsable
-----------------------------------------------------------------------------
(* Lemmas about metas and their contents. *)

(* A set of metas that is not empty has a first one. *)
LEMMA FirstIsIn ==
  ASSUME NEW p \in SUBSET Metas, p # {}
  PROVE  First(p) \in p
<1>1. \A m \in p : m.kind \in AllKinds
  BY FinishAssumption DEF Metas
<1>2. \E m \in p : \A n \in p : Rank(m) <= Rank(n)
  <2>1. CASE \E m \in p : m.kind = "game"
    BY <1>1, <2>1 DEF Rank, AllKinds
  <2>2. CASE (\A m \in p : m.kind # "game") /\ \E m \in p : m.kind = "update"
    BY <1>1, <2>2 DEF Rank, AllKinds
  <2>3. CASE \A m \in p : m.kind = "addon"
    BY <1>1, <2>3 DEF Rank, AllKinds
  <2> QED
    BY <1>1, <2>1, <2>2, <2>3 DEF AllKinds
<1> QED
  BY <1>2 DEF First

(* A package has one meta of a title. *)
LEMMA OneOfATitle ==
  ASSUME NEW p \in Packages
  PROVE  /\ p \subseteq Metas /\ p # {}
         /\ \A m, n \in p : m.kind = n.kind => m = n
  BY DEF Packages

(* What a meta names is a content. *)
LEMMA NamesContents ==
  ASSUME NEW m \in Metas
  PROVE  ContentsOf(m) \subseteq Contents /\ MetaContent(m) \in Contents
  BY DEF Contents, ContentsOf

(* Removing another meta's contents leaves those of the package. *)
LEMMA DoomedSpares ==
  ASSUME NEW o \in Metas, NEW m \in Metas, m \in run.pkg, m # o
  PROVE  ContentsOf(m) \cap Doomed(o) = {}
<1>1. DataContents(m) \subseteq ContentIds(run.pkg)
  BY DEF ContentIds
<1>2. MetaContent(m) \notin ContentsOf(o)
  <2>1. m.kind # o.kind \/ m.version # o.version
    BY DEF Metas
  <2> QED
    BY <2>1 DEF ContentsOf, MetaContent, DataContents
<1> QED
  BY <1>1, <1>2 DEF Doomed, ContentsOf

(* Titles have no content in common. *)
LEMMA TitlesAreApart ==
  ASSUME NEW m \in Metas, NEW n \in Metas, m.kind # n.kind
  PROVE  ContentsOf(m) \cap ContentsOf(n) = {}
  BY DEF ContentsOf, MetaContent, DataContents
-----------------------------------------------------------------------------
(* Lemmas about numbers: the least and the greatest of a set of them. *)

LEMMA LeastNumber ==
  ASSUME NEW S \in SUBSET Nat, S # {}
  PROVE  \E n \in S : \A m \in S : n <= m
<1> DEFINE R == OpToRel(<, Nat)
<1>1. IsWellFoundedOn(R, Nat)
  BY NatLessThanWellFounded
<1>2. \A x, y \in Nat : y < x => <<y, x>> \in R
  BY DEF OpToRel
<1> HIDE DEF R
<1>3. PICK n \in S : \A y \in S : ~ (<<y, n>> \in R)
  BY <1>1, WFMin
<1>4. ASSUME NEW m \in S PROVE n <= m
  <2>1. ~(m < n)
    BY <1>2, <1>3
  <2>2. m \in Nat /\ n \in Nat
    OBVIOUS
  <2> QED
    BY <2>1, <2>2
<1> QED
  BY <1>4

(* A finite set without a greatest number would have a smallest subset of   *)
(* that kind; without one of its elements that has a greatest.              *)
LEMMA GreatestNumber ==
  ASSUME NEW S \in SUBSET Nat, S # {}, IsFiniteSet(S)
  PROVE  \E n \in S : \A m \in S : m <= n
<1> DEFINE Topped(T) == \E n \in T : \A m \in T : m <= n
           Sizes == {k \in Nat : \E T \in SUBSET S : T # {} /\ ~Topped(T) /\ Cardinality(T) = k}
<1> SUFFICES ASSUME ~Topped(S) PROVE FALSE
  OBVIOUS
<1>1. \A T \in SUBSET S : IsFiniteSet(T) /\ Cardinality(T) \in Nat
  BY FS_Subset, FS_CardinalityType
<1>2. Cardinality(S) \in Sizes
  BY <1>1
<1>3. PICK k \in Sizes : \A j \in Sizes : k <= j
  <2>1. Sizes \in SUBSET Nat /\ Sizes # {}
    BY <1>2
  <2> HIDE DEF Sizes
  <2> QED
    BY <2>1, LeastNumber
<1>4. PICK T \in SUBSET S : T # {} /\ ~Topped(T) /\ Cardinality(T) = k
  BY <1>3
<1>5. PICK x \in T : TRUE
  BY <1>4
<1>6. Cardinality(T \ {x}) = k - 1 /\ k \in Nat
  BY <1>1, <1>4, <1>5, FS_RemoveElement
<1>7. k - 1 \notin Sizes
  BY <1>3, <1>6
<1>8. T \ {x} # {}
  <2> SUFFICES ASSUME T = {x} PROVE FALSE
    BY <1>5
  <2> QED
    BY <1>4, <1>5
<1>9. Topped(T \ {x})
  BY <1>1, <1>6, <1>7, <1>8
<1>10. PICK y \in T \ {x} : \A m \in T \ {x} : m <= y
  BY <1>9
<1>11. x \in Nat /\ y \in Nat /\ \A m \in T : m \in Nat
  BY <1>5
<1>12. CASE x <= y
  <2>1. \A m \in T : m <= y
    BY <1>10, <1>12
  <2> QED
    BY <1>4, <1>10, <2>1
<1>13. CASE y <= x
  <2>1. \A m \in T : m <= x
    BY <1>10, <1>11, <1>13
  <2> QED
    BY <1>4, <1>5, <2>1
<1> QED
  BY <1>11, <1>12, <1>13

(* The newest of some versions is one of them, and not older than any. *)
LEMMA LatestIsNewest ==
  ASSUME NEW vs \in SUBSET (Versions \cup {0})
  PROVE  /\ Latest(vs) \in vs \cup {0} /\ Latest(vs) \in Nat
         /\ \A v \in vs : v <= Latest(vs)
<1> DEFINE all == vs \cup {0}
<1>1. IsFiniteSet(Versions \cup {0})
  BY FinishAssumption, FS_AddElement
<1>2. all \in SUBSET Nat /\ all # {} /\ IsFiniteSet(all)
  <2>1. all \in SUBSET (Versions \cup {0}) /\ all # {}
    OBVIOUS
  <2>2. all \in SUBSET Nat
    BY FinishAssumption
  <2> HIDE DEF all
  <2>3. IsFiniteSet(all)
    BY <1>1, <2>1, FS_Subset
  <2> QED
    BY <2>1, <2>2, <2>3
<1> HIDE DEF all
<1>3. \E n \in all : \A m \in all : m <= n
  BY <1>2, GreatestNumber
<1>4. \E n \in all : \A m \in all : n >= m
  BY <1>2, <1>3
<1>5. Max(all) \in all /\ \A m \in all : Max(all) >= m
  BY <1>4 DEF Max
<1>6. Latest(vs) = Max(all)
  BY DEF Latest, all
<1>7. Latest(vs) \in all /\ \A m \in all : Latest(vs) >= m
  BY <1>5, <1>6
<1>8. \A m \in all : m <= Latest(vs)
  BY <1>2, <1>7
<1> QED
  BY <1>2, <1>7, <1>8 DEF all
-----------------------------------------------------------------------------
(* The run between runs. *)
Between(p, s, outcome, z, n) ==
  [pc |-> "idle", pkg |-> p, target |-> s, toRegister |-> {}, left |-> {},
   olds |-> {}, old |-> NoMeta, modified |-> FALSE, launch |-> 0, seen |-> z,
   outcome |-> outcome, runs |-> n]

LEMMA IdleType ==
  ASSUME NEW p \in Packages \cup {{}}, NEW s \in Storages, NEW n \in Int,
         NEW outcome \in {"already", "newer", "done", "failed", "cut"}, NEW z \in SUBSET Storages,
         run' = Between(p, s, outcome, z, n)
  PROVE  /\ run' \in [pc : Pcs, pkg : Packages \cup {{}}, target : Storages,
                      toRegister : SUBSET Contents, left : SUBSET Metas, olds : SUBSET Metas,
                      old : Metas \cup {NoMeta}, modified : BOOLEAN, launch : {run'.launch},
                      seen : SUBSET Storages,
                      outcome : {"none", "already", "newer", "done", "failed", "cut"}, runs : Int]
         /\ run'.pc = "idle" /\ run'.outcome = outcome
BY DEF Between, Pcs

(* A package that is picked is either skipped, or its run starts. *)
LEMMA Picks ==
  ASSUME Prepare, run'.pc # "idle"
  PROVE  \E p \in Packages, s \in Storages, seen \in SUBSET Storages :
            /\ DecideSkip(First(p), seen) = "install"
            /\ run'.pc = "register" /\ run'.pkg = p /\ run'.target = s /\ run'.seen = seen
            /\ run'.toRegister = (ContentIds(p) \ stored[s]) \cup {MetaContent(m) : m \in p}
<1>1. PICK p \in Packages, s \in Storages, seen \in SUBSET Storages :
        \/ DecideSkip(First(p), seen) = "install" /\ Starts(p, s, seen)
        \/ run' = [Idle(p, s, DecideSkip(First(p), seen)) EXCEPT !.runs = run.runs + 1]
  BY DEF Prepare
<1>2. CASE run' = [Idle(p, s, DecideSkip(First(p), seen)) EXCEPT !.runs = run.runs + 1]
  BY <1>2 DEF Idle
<1>3. CASE DecideSkip(First(p), seen) = "install" /\ Starts(p, s, seen)
  <2> DEFINE fetched == (ContentIds(p) \ stored[s]) \cup {MetaContent(m) : m \in p}
  <2>1. PICK modified \in BOOLEAN :
          run' = [Idle(p, s, "none") EXCEPT
                   !.pc = "register", !.runs = run.runs + 1,
                   !.toRegister = fetched, !.modified = modified, !.seen = seen]
    BY <1>3 DEF Starts
  <2> HIDE DEF fetched
  <2>2. /\ run'.pc = "register" /\ run'.pkg = p /\ run'.target = s /\ run'.seen = seen
        /\ run'.toRegister = fetched
    BY <2>1 DEF Idle
  <2> QED
    BY <1>3, <2>2 DEF fetched
<1> QED
  BY <1>1, <1>2, <1>3

(* With the tickets imported the run knows what to launch, or it fails. *)
LEMMA Tickets ==
  ASSUME Types, ImportsTickets
  PROVE  \/ \E games, updates, seen \in SUBSET Storages :
              /\ Sees(games \cap updates)
              /\ seen = IF First(run.pkg).kind = "update" THEN run.seen ELSE updates
              /\ run' = [run EXCEPT !.pc = "list", !.left = run.pkg,
                                    !.launch = LaunchVersion(run.pkg, games, updates),
                                    !.seen = seen]
         \/ Fault("ticket") /\ Fails
<1>1. run.seen \in SUBSET Storages
  BY DEF Types
<1>2. CASE Fault("ticket") /\ Fails
  BY <1>2
<1>3. CASE \E games, updates \in SUBSET Storages :
             /\ Sees(games \cap updates)
             /\ run' = [run EXCEPT !.pc = "list", !.left = run.pkg,
                                   !.launch = LaunchVersion(run.pkg, games, updates),
                                   !.seen = IF First(run.pkg).kind = "update" THEN @ ELSE updates]
  <2>1. PICK games \in SUBSET Storages, updates \in SUBSET Storages :
             /\ Sees(games \cap updates)
             /\ run' = [run EXCEPT !.pc = "list", !.left = run.pkg,
                                   !.launch = LaunchVersion(run.pkg, games, updates),
                                   !.seen = IF First(run.pkg).kind = "update" THEN @ ELSE updates]
    BY <1>3
  <2> DEFINE seen == IF First(run.pkg).kind = "update" THEN run.seen ELSE updates
  <2>2. seen \in SUBSET Storages
    BY <1>1
  <2>3. run' = [run EXCEPT !.pc = "list", !.left = run.pkg,
                           !.launch = LaunchVersion(run.pkg, games, updates), !.seen = seen]
    BY <2>1
  <2> QED
    BY <2>1, <2>2, <2>3
<1> QED
  BY <1>2, <1>3 DEF ImportsTickets

(* Every step keeps what the variables hold. *)
LEMMA StepTypes ==
  ASSUME Types, AtHand, [Next]_vars
  PROVE  Types'
<1>1. CASE Prepare
  <2>0. PICK p \in Packages, s \in Storages, seen \in SUBSET Storages :
          \/ /\ DecideSkip(First(p), seen) # "install"
             /\ run' = [Idle(p, s, DecideSkip(First(p), seen)) EXCEPT !.runs = run.runs + 1]
          \/ \E modified \in BOOLEAN :
                run' = [Idle(p, s, "none") EXCEPT
                         !.pc = "register", !.runs = run.runs + 1,
                         !.toRegister = (ContentIds(p) \ stored[s]) \cup {MetaContent(m) : m \in p},
                         !.modified = modified, !.seen = seen]
    BY <1>1 DEF Prepare, Starts
  <2>1. DecideSkip(First(p), seen) \in {"already", "newer", "install"}
    BY DEF DecideSkip
  <2>2. \A m \in p : DataContents(m) \subseteq Contents /\ MetaContent(m) \in Contents
    <3> TAKE m \in p
    <3>1. m \in Metas
      BY DEF Packages
    <3> QED
      BY <3>1, NamesContents DEF ContentsOf
  <2>3. (ContentIds(p) \ stored[s]) \cup {MetaContent(m) : m \in p} \in SUBSET Contents
    BY <2>2 DEF ContentIds
  <2>4. run.runs + 1 \in Int
    <3>1. run.runs \in Int
      BY DEF Types
    <3> QED
      BY <3>1
  <2>5. CASE /\ DecideSkip(First(p), seen) # "install"
             /\ run' = [Idle(p, s, DecideSkip(First(p), seen)) EXCEPT !.runs = run.runs + 1]
    <3>1. DecideSkip(First(p), seen) \in {"already", "newer"}
      BY <2>1, <2>5
    <3> DEFINE outcome == DecideSkip(First(p), seen)
    <3>2. run' = [Idle(p, s, outcome) EXCEPT !.runs = run.runs + 1]
      BY <2>5
    <3>3. outcome \in {"already", "newer", "done", "failed", "cut"}
      BY <3>1
    <3> HIDE DEF outcome
    <3>4. run' = Between(p, s, outcome, {}, run.runs + 1)
      BY <3>2 DEF Idle, Between
    <3>5. p \in Packages \cup {{}} /\ {} \in SUBSET Storages
      OBVIOUS
    <3> QED
      BY <1>1, <2>4, <3>3, <3>4, <3>5, IdleType DEF Prepare, console, Types
  <2>6. CASE \E modified \in BOOLEAN :
               run' = [Idle(p, s, "none") EXCEPT
                         !.pc = "register", !.runs = run.runs + 1,
                         !.toRegister = (ContentIds(p) \ stored[s]) \cup {MetaContent(m) : m \in p},
                         !.modified = modified, !.seen = seen]
    <3> DEFINE fetched == (ContentIds(p) \ stored[s]) \cup {MetaContent(m) : m \in p}
               n == run.runs + 1
    <3>1. PICK modified \in BOOLEAN :
            run' = [Idle(p, s, "none") EXCEPT
                      !.pc = "register", !.runs = n, !.toRegister = fetched,
                      !.modified = modified, !.seen = seen]
      BY <2>6
    <3>2. fetched \in SUBSET Contents /\ n \in Int
      BY <2>3, <2>4
    <3> HIDE DEF fetched, n
    <3>3. run' = [pc |-> "register", pkg |-> p, target |-> s, toRegister |-> fetched,
                  left |-> {}, olds |-> {}, old |-> NoMeta, modified |-> modified,
                  launch |-> 0, seen |-> seen, outcome |-> "none", runs |-> n]
      BY <3>1 DEF Idle
    <3> QED
      BY <1>1, <3>2, <3>3 DEF Prepare, console, Types, Pcs
  <2> QED
    BY <2>0, <2>5, <2>6
<1>2. CASE Registers
  BY <1>2 DEF Registers, ToRegisterNext, Fails, Types, Pcs
<1>3. CASE ImportsTickets
  <2>1. run.pkg \in SUBSET Metas
    BY <1>3, OneOfATitle DEF ImportsTickets, Types
  <2>2. \/ \E seen \in SUBSET Storages :
             \E launched : run' = [run EXCEPT !.pc = "list", !.left = run.pkg,
                                              !.launch = launched, !.seen = seen]
        \/ run' = [run EXCEPT !.pc = "failed"]
    BY <1>3, Tickets DEF Fails
  <2>3. run.pc = "register" /\ UNCHANGED <<stored, mem, disk>>
    BY <1>3 DEF ImportsTickets, console
  <2> QED
    BY <2>1, <2>2, <2>3 DEF Types, Pcs
<1>4. CASE ListsOldVersions
  <2>1. \E olds \in SUBSET Metas : run' = [run EXCEPT !.pc = "clean", !.olds = olds]
    <3>1. OldVersions(Filing) \in SUBSET Metas /\ run.olds \in SUBSET Metas
      BY DEF OldVersions, Types
    <3>2. CASE run' = [run EXCEPT !.pc = "clean", !.olds = OldVersions(Filing)]
      BY <3>1, <3>2
    <3>3. CASE run' = [run EXCEPT !.pc = "clean"]
      <4>1. [run EXCEPT !.pc = "clean"] = [run EXCEPT !.pc = "clean", !.olds = run.olds]
        BY DEF Types
      <4> QED
        BY <3>1, <3>3, <4>1
    <3> QED
      BY <1>4, <3>2, <3>3 DEF ListsOldVersions
  <2>2. run.pc = "list" /\ UNCHANGED <<stored, mem, disk>>
    BY <1>4 DEF ListsOldVersions, console
  <2> QED
    BY <2>1, <2>2 DEF Types, Pcs
<1>5. CASE DeletesOldContents
  <2> PICK o \in run.olds : run' = [run EXCEPT !.pc = "remove", !.old = o]
    BY <1>5 DEF DeletesOldContents
  <2>1. stored' \in [Storages -> SUBSET Contents]
    BY <1>5 DEF DeletesOldContents, Types
  <2> QED
    BY <1>5, <2>1 DEF DeletesOldContents, Types, Pcs
<1>6. CASE RemovesOldRecord
  BY <1>6 DEF RemovesOldRecord, Types, Pcs
<1>7. CASE SetsRecord
  <2>1. Filing \in Metas
    BY <1>7, FirstIsIn DEF SetsRecord, Types, AtHand, Filings, Filing
  <2> QED
    BY <1>7, <2>1 DEF SetsRecord, Fails, Types, Pcs
<1>8. CASE CommitsRecord \/ ClearsOwnTile \/ PushesLaunchVersion
  BY <1>8 DEF CommitsRecord, ClearsOwnTile, PushesLaunchVersion, Committed, Fails, Types, Pcs
<1>9. CASE PushesRecord
  <2>1. run' = [run EXCEPT !.pc = "failed"]
        \/ run' = [run EXCEPT !.pc = "launch", !.left = @ \ {Filing}]
        \/ run' = [run EXCEPT !.pc = "list", !.left = @ \ {Filing}]
    BY <1>9 DEF PushesRecord, Fails
  <2>2. run.pc = "push" /\ UNCHANGED <<stored, mem, disk>>
    BY <1>9 DEF PushesRecord
  <2>3. CASE run' = [run EXCEPT !.pc = "failed"]
    BY <2>2, <2>3 DEF Types, Pcs
  <2>4. CASE \/ run' = [run EXCEPT !.pc = "launch", !.left = @ \ {Filing}]
             \/ run' = [run EXCEPT !.pc = "list", !.left = @ \ {Filing}]
    <3>1. PICK pc \in {"launch", "list"} :
            run' = [run EXCEPT !.pc = pc, !.left = run.left \ {Filing}]
      BY <2>4
    <3>2. run.left \ {Filing} \in SUBSET Metas
      BY DEF Types
    <3> QED
      BY <2>2, <3>1, <3>2 DEF Types, Pcs
  <2> QED
    BY <2>1, <2>3, <2>4
<1>10. CASE InvalidatesCache \/ Abandons \/ DiscardsContents \/ Dies
  <2>1. /\ stored' \in [Storages -> SUBSET Contents]
        /\ mem' \in [Storages -> SUBSET Metas] /\ disk' \in [Storages -> SUBSET Metas]
    BY <1>10 DEF InvalidatesCache, Abandons, DiscardsContents, Discarded, Dies, console, Types
  <2>2. /\ run.pkg \in Packages \cup {{}} /\ run.target \in Storages /\ run.runs \in Int
        /\ run.seen \in SUBSET Storages
    BY DEF Types
  <2>3. CASE Ends("done") \/ Ends("failed") \/ Ends("cut")
    <3>1. ASSUME NEW outcome, Ends(outcome)
          PROVE  run' = Between(run.pkg, run.target, outcome, run.seen, run.runs)
      BY <3>1 DEF Ends, Idle, Between
    <3>2. PICK outcome \in {"already", "newer", "done", "failed", "cut"} : Ends(outcome)
      BY <2>3
    <3>3. run' = Between(run.pkg, run.target, outcome, run.seen, run.runs)
      BY <3>1, <3>2
    <3>4. /\ run' \in [pc : Pcs, pkg : Packages \cup {{}}, target : Storages,
                       toRegister : SUBSET Contents, left : SUBSET Metas, olds : SUBSET Metas,
                       old : Metas \cup {NoMeta}, modified : BOOLEAN, launch : {run'.launch},
                       seen : SUBSET Storages,
                       outcome : {"none", "already", "newer", "done", "failed", "cut"}, runs : Int]
          /\ run'.pc = "idle"
      BY <2>2, <3>2, <3>3, IdleType
    <3> QED
      BY <2>1, <3>4 DEF Types
  <2>4. CASE /\ run' = [run EXCEPT !.pc = "failed"] \/ run' = [run EXCEPT !.pc = "rollback"]
             /\ run.pc # "idle"
    BY <2>1, <2>4 DEF Types, Pcs
  <2> QED
    BY <1>10, <2>3, <2>4 DEF InvalidatesCache, Abandons, DiscardsContents, Dies, Fails
<1>11. CASE RollsRecordBack
  BY <1>11 DEF RollsRecordBack, Types, Pcs
<1>12. CASE UNCHANGED vars
  BY <1>12 DEF vars, Types
<1> QED
  BY <1>1, <1>2, <1>3, <1>4, <1>5, <1>6, <1>7, <1>8, <1>9, <1>10, <1>11, <1>12 DEF Next
(* The meta at hand is one of the package. *)
LEMMA FilingIsLeft ==
  ASSUME Types, AtHand, Progress, run.pc \in Filings
  PROVE  /\ run.pkg \in Packages /\ run.pkg \subseteq Metas
         /\ Filing \in run.left /\ Filing \in run.pkg /\ Filing \in Metas
<1>1. run.pkg \in Packages
  BY DEF Types, Filings
<1>2. Filing \in run.left
  BY FirstIsIn DEF Types, AtHand, Filing
<1>3. run.left \subseteq run.pkg
  BY DEF Progress, Finishings
<1> QED
  BY <1>1, <1>2, <1>3, OneOfATitle

(* Every step keeps what the meta at hand has been through. *)
LEMMA StepAtHand ==
  ASSUME IInv, [Next]_vars
  PROVE  AtHand'
<1> USE DEF IInv
<1>1. CASE Prepare \/ InvalidatesCache \/ Abandons \/ DiscardsContents \/ Dies
  <2>1. CASE run'.pc = "register" /\ run'.olds = {}
    BY <2>1 DEF AtHand, Filings
  <2>2. CASE run'.pc \in {"idle", "failed", "rollback"}
    BY <2>2 DEF AtHand, Filings
  <2>3. CASE Prepare
    <3>1. (run'.pc = "register" /\ run'.olds = {}) \/ run'.pc = "idle"
      BY <2>3 DEF Prepare, Starts, Idle
    <3> QED
      BY <2>1, <2>2, <3>1
  <2>4. CASE InvalidatesCache \/ Abandons \/ DiscardsContents \/ Dies
    <3>1. CASE \E outcome : Ends(outcome)
      BY <2>2, <3>1 DEF Ends, Idle
    <3>2. CASE Fails \/ run' = [run EXCEPT !.pc = "rollback"]
      BY <2>2, <3>2 DEF Fails, Types
    <3> QED
      BY <2>4, <3>1, <3>2 DEF InvalidatesCache, Abandons, DiscardsContents, Dies
  <2> QED
    BY <1>1, <2>3, <2>4
<1>2. CASE Registers \/ RollsRecordBack \/ PushesLaunchVersion
  BY <1>2 DEF Registers, RollsRecordBack, PushesLaunchVersion, Fails, AtHand, Filings, Types
<1>3. CASE ImportsTickets
  <2>1. run.pkg # {}
    BY <1>3, OneOfATitle DEF ImportsTickets, Types
  <2> QED
    BY <1>3, <2>1 DEF ImportsTickets, Fails, AtHand, Filings, Types
<1>4. CASE ListsOldVersions
  <2>1. /\ run'.pc = "clean" /\ run'.left = run.left
        /\ run'.olds = {} \/ run'.olds = OldVersions(Filing)
    BY <1>4 DEF ListsOldVersions, AtHand, Types
  <2>2. \A o \in OldVersions(Filing) : o.kind = Filing.kind /\ o # Filing
    BY DEF OldVersions
  <2>3. run.left # {}
    BY <1>4 DEF ListsOldVersions, AtHand, Filings
  <2> QED
    BY <2>1, <2>2, <2>3 DEF AtHand, Filings, Filing
<1>5. CASE DeletesOldContents
  BY <1>5 DEF DeletesOldContents, Filing, AtHand, Filings, Types
<1>6. CASE RemovesOldRecord
  BY <1>6 DEF RemovesOldRecord, Filing, AtHand, Filings, Types
<1>7. CASE SetsRecord
  BY <1>7 DEF SetsRecord, Fails, Filing, AtHand, Filings, Types
<1>8. CASE CommitsRecord
  BY <1>8 DEF CommitsRecord, Committed, Fails, Filing, AtHand, Filings, Types
<1>9. CASE ClearsOwnTile
  BY <1>9 DEF ClearsOwnTile, Filing, AtHand, Filings, Types
<1>10. CASE PushesRecord
  <2>1. Filing \in run.left /\ run.olds = {}
    BY <1>10, FilingIsLeft DEF PushesRecord, Filings, AtHand
  <2>2. CASE run' = [run EXCEPT !.pc = "failed"]
    BY <2>2 DEF AtHand, Filings, Types
  <2>3. CASE run' = [run EXCEPT !.pc = IF run.left = {Filing} THEN "launch" ELSE "list",
                                !.left = @ \ {Filing}]
    <3>1. /\ run'.left = run.left \ {Filing} /\ run'.olds = {}
          /\ run'.pc = (IF run.left = {Filing} THEN "launch" ELSE "list")
      BY <2>1, <2>3 DEF Types
    <3> QED
      BY <2>1, <3>1 DEF AtHand, Filings
  <2> QED
    BY <1>10, <2>2, <2>3 DEF PushesRecord, Fails
<1>11. CASE UNCHANGED vars
  BY <1>11 DEF vars, AtHand, Filing
<1> QED
  BY <1>1, <1>2, <1>3, <1>4, <1>5, <1>6, <1>7, <1>8, <1>9, <1>10, <1>11 DEF Next

(* Every step keeps what the console has of the package. *)
LEMMA StepProgress ==
  ASSUME IInv, [Next]_vars
  PROVE  Progress'
<1> USE DEF IInv
<1>1. CASE InvalidatesCache \/ Abandons \/ DiscardsContents \/ Dies \/ RollsRecordBack
  <2>1. run'.pc \in {"idle", "failed", "rollback", "discard"}
    BY <1>1 DEF InvalidatesCache, Abandons, DiscardsContents, Dies, RollsRecordBack,
                Ends, Fails, Idle, Types
  <2> QED
    BY <2>1 DEF Progress, Finishings, Filings
<1>2. CASE Prepare
  <2>1. CASE run'.pc = "idle"
    BY <2>1 DEF Progress, Finishings, Filings
  <2>2. CASE run'.pc # "idle"
    <3>1. PICK p \in Packages, s \in Storages :
            /\ run'.pc = "register" /\ run'.pkg = p /\ run'.target = s
            /\ run'.toRegister = (ContentIds(p) \ stored[s]) \cup {MetaContent(m) : m \in p}
      BY <1>2, <2>2, Picks
    <3>2. \A m \in p : ContentsOf(m) \subseteq stored[s] \cup run'.toRegister
      BY <3>1 DEF ContentsOf, ContentIds
    <3> QED
      BY <1>2, <3>1, <3>2 DEF Prepare, console, Progress, Finishings, Filings
  <2> QED
    BY <2>1, <2>2
<1>3. CASE Registers
  BY <1>3 DEF Registers, ToRegisterNext, Fails, Progress, Finishings, Filings, Types
<1>4. CASE ImportsTickets
  <2>1. run.pc = "register" /\ run.toRegister = {} /\ UNCHANGED <<stored, mem, disk, listed>>
    BY <1>4 DEF ImportsTickets, console
  <2>2. \A m \in run.pkg : ContentsOf(m) \subseteq stored[run.target]
    BY <2>1 DEF Progress
  <2>3. \/ \E seen, launched : run' = [run EXCEPT !.pc = "list", !.left = run.pkg,
                                                    !.launch = launched, !.seen = seen]
        \/ run' = [run EXCEPT !.pc = "failed"]
    BY <1>4, Tickets DEF IInv, Fails
  <2>4. \/ run'.pc = "list" /\ run'.pkg = run.pkg /\ run'.left = run.pkg /\ run'.target = run.target
        \/ run'.pc = "failed"
    BY <2>3 DEF Types
  <2> QED
    BY <2>1, <2>2, <2>4 DEF Progress, Finishings, Filings
<1>5. CASE ListsOldVersions
  <2>1. run.pc = "list" /\ UNCHANGED <<stored, mem, disk, listed>>
    BY <1>5 DEF ListsOldVersions, console
  <2>2. /\ run'.pc = "clean" /\ run'.pkg = run.pkg /\ run'.left = run.left
        /\ run'.target = run.target
    BY <1>5 DEF ListsOldVersions, Types
  <2> QED
    BY <2>1, <2>2 DEF Progress, Finishings, Filings, Filed
<1>6. CASE DeletesOldContents
  <2>1. PICK o \in run.olds : /\ run' = [run EXCEPT !.pc = "remove", !.old = o]
                              /\ \E some \in SUBSET Doomed(o) :
                                   stored' = [stored EXCEPT ![run.target] = @ \ some]
    BY <1>6 DEF DeletesOldContents
  <2>2. \A m \in run.pkg : ContentsOf(m) \cap Doomed(o) = {}
    <3> TAKE m \in run.pkg
    <3>1. o.kind = Filing.kind /\ o # Filing /\ o \in Metas
      BY <1>6, <2>1 DEF DeletesOldContents, AtHand, Types
    <3>2. m \in Metas /\ (m.kind = Filing.kind => m = Filing)
      BY <1>6, FilingIsLeft, OneOfATitle DEF DeletesOldContents, Filings
    <3> QED
      BY <3>1, <3>2, DoomedSpares
  <2>3. \A m \in run.pkg : ContentsOf(m) \subseteq stored[run.target]
    BY <1>6 DEF DeletesOldContents, Progress, Finishings, Filings
  <2>4. \A m \in run.pkg : ContentsOf(m) \subseteq stored'[run.target]
    BY <2>1, <2>2, <2>3 DEF Types
  <2>5. /\ run'.pc = "remove" /\ run'.left = run.left
        /\ run'.pkg = run.pkg /\ run'.target = run.target
    BY <2>1 DEF Types
  <2> QED
    BY <1>6, <2>4, <2>5 DEF DeletesOldContents, Progress, Finishings, Filings, Filed
<1>7. CASE RemovesOldRecord
  <2>1. \A m \in run.pkg \ run.left : m # run.old
    <3> TAKE m \in run.pkg \ run.left
    <3>1. run.old.kind = Filing.kind /\ run.old # Filing
      BY <1>7 DEF RemovesOldRecord, AtHand
    <3>2. m # Filing /\ (m.kind = Filing.kind => m = Filing)
      BY <1>7, FilingIsLeft, OneOfATitle DEF RemovesOldRecord, Filings
    <3> QED
      BY <3>1, <3>2
  <2> QED
    BY <1>7, <2>1 DEF RemovesOldRecord, Progress, Finishings, Filings, Filed, Types
<1>8. CASE SetsRecord
  BY <1>8 DEF SetsRecord, Fails, Progress, Finishings, Filings, Filed, Types
<1>9. CASE CommitsRecord
  BY <1>9 DEF CommitsRecord, Committed, Fails, Progress, Finishings, Filings, Filed, Types
<1>10. CASE ClearsOwnTile \/ PushesLaunchVersion
  BY <1>10 DEF ClearsOwnTile, PushesLaunchVersion, Fails, Progress, Finishings, Filings, Filed,
               Types
<1>11. CASE PushesRecord
  <2>1. Filing \in mem[run.target] /\ Filing \in disk[run.target]
    BY <1>11 DEF PushesRecord, AtHand
  <2>2. /\ run.left \subseteq run.pkg
        /\ \A m \in run.pkg : ContentsOf(m) \subseteq stored[run.target]
        /\ \A m \in run.pkg \ run.left : Filed(m)
    BY <1>11 DEF PushesRecord, Progress, Finishings, Filings
  <2>3. CASE run' = [run EXCEPT !.pc = "failed"]
    BY <2>3 DEF Progress, Finishings, Filings, Types
  <2>4. CASE /\ listed' = listed \cup {[meta |-> Filing, storage |-> run.target]}
             /\ run' = [run EXCEPT !.pc = IF run.left = {Filing} THEN "launch" ELSE "list",
                                   !.left = @ \ {Filing}]
    <3>1. /\ run'.left = run.left \ {Filing} /\ run'.pkg = run.pkg /\ run'.target = run.target
          /\ run'.pc = (IF run.left = {Filing} THEN "launch" ELSE "list")
      BY <2>4 DEF Types
    <3>2. \A m \in run.pkg \ run'.left : Filed(m)'
      BY <1>11, <2>1, <2>2, <2>4, <3>1 DEF PushesRecord, Filed
    <3> QED
      BY <1>11, <2>2, <3>1, <3>2 DEF PushesRecord, Progress, Finishings, Filings
  <2> QED
    BY <1>11, <2>3, <2>4 DEF PushesRecord, Fails
<1>12. CASE UNCHANGED vars
  BY <1>12 DEF vars, Progress, Filed
<1> QED
  BY <1>1, <1>2, <1>3, <1>4, <1>5, <1>6, <1>7, <1>8, <1>9, <1>10, <1>11, <1>12 DEF Next
(* A run that says it is done has filed all of its package. *)
LEMMA StepDone ==
  ASSUME IInv, [Next]_vars
  PROVE  DoneIsUsable'
<1> USE DEF IInv
<1>1. CASE run'.pc # "idle"
  BY <1>1 DEF DoneIsUsable, Finished
<1>2. CASE Prepare
  <2>1. PICK p \in Packages, s \in Storages, seen \in SUBSET Storages :
          run'.pc = "idle" => run'.outcome = DecideSkip(First(p), seen)
    BY <1>2 DEF Prepare, Starts, Idle
  <2>2. DecideSkip(First(p), seen) # "done"
    BY DEF DecideSkip
  <2> QED
    BY <2>1, <2>2 DEF DoneIsUsable, Finished
<1>3. CASE InvalidatesCache /\ Ends("done")
  <2>1. \A m \in run.pkg : Filed(m)
    BY <1>3 DEF InvalidatesCache, Progress, Finishings
  <2>2. run'.pkg = run.pkg /\ run'.target = run.target
    BY <1>3 DEF Ends, Idle
  <2> QED
    BY <1>3, <2>1, <2>2 DEF InvalidatesCache, console, DoneIsUsable, Filed
<1>4. CASE Ends("failed") \/ Ends("cut")
  BY <1>4 DEF Ends, Idle, DoneIsUsable, Finished
<1>5. CASE UNCHANGED vars
  BY <1>5 DEF vars, DoneIsUsable, Finished
<1>6. ASSUME Next, ~Prepare, run'.pc = "idle"
      PROVE  (InvalidatesCache /\ Ends("done")) \/ Ends("failed") \/ Ends("cut")
  BY <1>6 DEF Next, Registers, ImportsTickets, ListsOldVersions, DeletesOldContents,
              RemovesOldRecord, SetsRecord, CommitsRecord, ClearsOwnTile, PushesRecord,
              PushesLaunchVersion, InvalidatesCache, Abandons, RollsRecordBack,
              DiscardsContents, Dies, Fails, Types
<1> QED
  BY <1>1, <1>2, <1>3, <1>4, <1>5, <1>6

-----------------------------------------------------------------------------
(* Theorems. *)

(* The inductive invariant: the types, how far the run has come, what the meta *)
(* at hand has been through, and what a run that is done has left.             *)
THEOREM FinishInvariant == Spec => []IInv
<1>1. Init => IInv
  <2> SUFFICES ASSUME Init PROVE IInv
    OBVIOUS
  <2>1. run.pc = "idle" /\ run.outcome = "none" /\ run.pkg = {}
    BY DEF Init, Idle
  <2>2. Types
    BY DEF Init, Idle, Types, Pcs, Storages
  <2> QED
    BY <2>1, <2>2 DEF IInv, Progress, AtHand, DoneIsUsable, Finished, Finishings, Filings
<1>2. IInv /\ [Next]_vars => IInv'
  BY StepTypes, StepAtHand, StepProgress, StepDone DEF IInv
<1> QED
  BY <1>1, <1>2, PTL DEF Spec

(* GameInstall::Finish: whatever packages were installed before, whichever of  *)
(* their calls failed and whenever the app or the power went, a run that says  *)
(* it is done left every meta of its package in a committed record, in the     *)
(* application's list, with all its contents.                                 *)
THEOREM DoneIsAlwaysUsable == Spec => []DoneIsUsable
<1>1. IInv => DoneIsUsable
  BY DEF IInv
<1> QED
  BY <1>1, FinishInvariant, PTL

(* The cleanup and the rollback: no step of a run takes the record, or a        *)
(* content, of another title or of the other storage.                          *)
THEOREM OthersAreAlwaysSpared == Spec => OthersAreSpared
<1> DEFINE Exempt(s, m) == s = run.target /\ \E n \in run.pkg : n.kind = m.kind
           Kept(s, m) == m \in mem'[s] /\ stored[s] \cap ContentsOf(m) \subseteq stored'[s]
<1>1. IInv /\ [Next]_vars =>
        [run.pc # "idle" =>
           \A s \in Storages : \A m \in mem[s] \cap disk[s] :
             \/ s = run.target /\ \E n \in run.pkg : n.kind = m.kind
             \/ m \in mem'[s] /\ stored[s] \cap ContentsOf(m) \subseteq stored'[s]]_vars
  <2> SUFFICES ASSUME IInv, [Next]_vars, run.pc # "idle",
                      NEW s \in Storages, NEW m \in mem[s] \cap disk[s], ~Exempt(s, m)
               PROVE  Kept(s, m)
    OBVIOUS
  <2>1. /\ m \in Metas /\ run.pkg \in Packages /\ run.pkg \subseteq Metas
        /\ stored \in [Storages -> SUBSET Contents] /\ run.target \in Storages
        /\ mem \in [Storages -> SUBSET Metas]
    BY OneOfATitle DEF IInv, Types
  <2>2. s = run.target => \A n \in run.pkg : n.kind # m.kind /\ n # m
    OBVIOUS
  <2>3. CASE DeletesOldContents
    <3>1. PICK o \in run.olds : \E some \in SUBSET Doomed(o) :
                                  stored' = [stored EXCEPT ![run.target] = @ \ some]
      BY <2>3 DEF DeletesOldContents
    <3>2. o \in Metas /\ o.kind = Filing.kind /\ Filing \in run.pkg
      BY <2>3, FilingIsLeft DEF DeletesOldContents, IInv, Types, AtHand, Filings
    <3>3. s = run.target => ContentsOf(m) \cap Doomed(o) = {}
      BY <2>1, <2>2, <3>2, TitlesAreApart DEF Doomed
    <3> QED
      BY <2>1, <2>3, <3>1, <3>3 DEF DeletesOldContents
  <2>4. CASE RemovesOldRecord
    <3>1. run.old.kind = Filing.kind /\ Filing \in run.pkg
      BY <2>4, FilingIsLeft DEF RemovesOldRecord, IInv, AtHand, Filings
    <3>2. s = run.target => m # run.old
      BY <2>2, <3>1
    <3> QED
      BY <2>1, <2>4, <3>2 DEF RemovesOldRecord
  <2>5. CASE RollsRecordBack
    <3>1. First(run.pkg) \in run.pkg
      BY <2>1, FirstIsIn, OneOfATitle
    <3> QED
      BY <2>1, <2>2, <2>5, <3>1 DEF RollsRecordBack
  <2>6. CASE DiscardsContents
    <3>1. s = run.target => ContentsOf(m) \cap ContentIds(run.pkg) = {}
      <4>1. s = run.target => \A n \in run.pkg : ContentsOf(m) \cap DataContents(n) = {}
        BY <2>1, <2>2, TitlesAreApart DEF ContentsOf
      <4> QED
        BY <4>1 DEF ContentIds
    <3> QED
      BY <2>1, <2>6, <3>1 DEF DiscardsContents, Discarded
  <2>7. CASE Dies
    BY <2>7 DEF Dies
  <2>8. CASE Registers \/ SetsRecord
    BY <2>1, <2>8 DEF Registers, SetsRecord
  <2>9. CASE UNCHANGED <<stored, mem>>
    BY <2>9
  <2> QED
    BY <2>3, <2>4, <2>5, <2>6, <2>7, <2>8, <2>9
       DEF Next, vars, console, Prepare, ImportsTickets, ListsOldVersions, CommitsRecord,
           ClearsOwnTile, PushesRecord, PushesLaunchVersion, InvalidatesCache, Abandons
<1> QED
  BY <1>1, FinishInvariant, PTL DEF Spec, OthersAreSpared

-----------------------------------------------------------------------------
(* The other ranges, on top of the invariant above: versions are versions, and *)
(* what is to be removed is an old version of what is filed.                   *)
Ranges ==
  /\ listed \subseteq [meta : Metas, storage : Storages]
  /\ tiles \subseteq Kinds \ {"game"}
  /\ launch \in Versions \cup {0} /\ run.launch \in Versions \cup {0}
  /\ faults \in 0 .. MaxFaults /\ run.runs \in 0 .. MaxRuns
  /\ run.olds \subseteq mem[run.target]
  /\ run.pc \notin {"clean", "remove"} => run.olds = {}

(* The version an application may be launched at is one of those there are. *)
LEMMA InstalledIsVersion ==
  ASSUME Types, NEW kind, NEW seen \in SUBSET Storages
  PROVE  /\ Installed(kind, seen) \in Versions \cup {0} /\ Installed(kind, seen) \in Nat
         /\ \A s \in seen : \A m \in mem[s] : m.kind = kind => m.version <= Installed(kind, seen)
<1> DEFINE vs == UNION {VersionsIn(s, kind) : s \in seen}
<1>1. \A s \in Storages : VersionsIn(s, kind) \subseteq Versions
  BY DEF Types, VersionsIn, Metas
<1>2. vs \in SUBSET (Versions \cup {0})
  BY <1>1
<1>3. \A s \in seen : \A m \in mem[s] : m.kind = kind => m.version \in vs
  BY DEF VersionsIn
<1>4. Installed(kind, seen) = Latest(vs)
  BY DEF Installed
<1> HIDE DEF vs
<1>5. Latest(vs) \in vs \cup {0} /\ Latest(vs) \in Nat /\ \A v \in vs : v <= Latest(vs)
  BY <1>2, LatestIsNewest
<1> QED
  BY <1>2, <1>3, <1>4, <1>5

LEMMA LaunchIsVersion ==
  ASSUME Types, NEW p \in Packages, NEW games \in SUBSET Storages, NEW updates \in SUBSET Storages
  PROVE  /\ LaunchVersion(p, games, updates) \in Versions \cup {0}
         /\ LaunchVersion(p, games, updates) \in Nat
         /\ \A m \in p : m.version <= LaunchVersion(p, games, updates)
         /\ First(p).kind # "update" =>
              Installed("update", updates) <= LaunchVersion(p, games, updates)
<1> DEFINE own == {m.version : m \in p}
           old == IF First(p).kind = "update" THEN {}
                  ELSE {Installed("game", games), Installed("update", updates)}
           vs == own \cup old
<1>1. Installed("game", games) \in Versions \cup {0} /\ Installed("update", updates) \in Versions \cup {0}
  BY InstalledIsVersion
<1>2. own \subseteq Versions
  BY OneOfATitle DEF Metas
<1>3. vs \in SUBSET (Versions \cup {0})
  BY <1>1, <1>2
<1>4. LaunchVersion(p, games, updates) = Latest(vs)
  BY DEF LaunchVersion
<1>5. /\ \A m \in p : m.version \in vs
      /\ First(p).kind # "update" => Installed("update", updates) \in vs
  OBVIOUS
<1> HIDE DEF own, old, vs
<1>6. Latest(vs) \in vs \cup {0} /\ Latest(vs) \in Nat /\ \A v \in vs : v <= Latest(vs)
  BY <1>3, LatestIsNewest
<1> QED
  BY <1>3, <1>4, <1>5, <1>6

LEMMA StepRanges ==
  ASSUME IInv, Ranges, [Next]_vars
  PROVE  Ranges'
<1>t. Types
  BY DEF IInv
<1>n. faults \in Nat /\ MaxFaults \in Nat /\ run.runs \in Nat /\ MaxRuns \in Nat
  BY FinishAssumption DEF Ranges
<1>f. ASSUME NEW call, Fault(call) PROVE faults' \in 0 .. MaxFaults
  BY <1>f, <1>n DEF Fault
<1>o. ASSUME NEW seen, Sees(seen) PROVE faults' \in 0 .. MaxFaults
  BY <1>o, <1>f DEF Sees, Ranges
<1>s. ASSUME run' = [run EXCEPT !.pc = "failed"], run.pc \notin {"clean", "remove"},
             UNCHANGED <<mem, listed, tiles, launch>>, faults' \in 0 .. MaxFaults
      PROVE  Ranges'
  BY <1>s, <1>t DEF Ranges, Types
<1>e. ASSUME NEW outcome, Ends(outcome), UNCHANGED <<listed, tiles, launch>>,
             faults' \in 0 .. MaxFaults
      PROVE  Ranges'
  <2>1. run' = [Idle(run.pkg, run.target, outcome) EXCEPT !.runs = run.runs, !.seen = run.seen]
    BY <1>e DEF Ends
  <2>2. /\ run'.launch = 0 /\ run'.runs = run.runs /\ run'.olds = {}
    BY <2>1 DEF Idle
  <2> QED
    BY <1>e, <2>2 DEF Ranges
<1>1. CASE Prepare
  <2>1. /\ run'.launch = 0 /\ run'.olds = {} /\ run'.runs = run.runs + 1
    BY <1>1 DEF Prepare, Starts, Idle
  <2>2. run'.runs \in 0 .. MaxRuns
    <3>1. run.runs < MaxRuns
      BY <1>1 DEF Prepare
    <3> QED
      BY <1>n, <2>1, <3>1
  <2>3. UNCHANGED <<mem, listed, tiles, launch>>
    BY <1>1 DEF Prepare, console
  <2>4. faults' \in 0 .. MaxFaults
    BY <1>1, <1>o DEF Prepare
  <2> QED
    BY <2>1, <2>2, <2>3, <2>4 DEF Ranges
<1>2. CASE Registers
  <2>1. UNCHANGED <<mem, listed, tiles, launch>> /\ run.pc = "register"
    BY <1>2 DEF Registers
  <2>2. CASE Fault("register") /\ Fails
    BY <1>f, <1>s, <2>1, <2>2 DEF Fails
  <2>3. CASE (\E c \in ToRegisterNext : run' = [run EXCEPT !.toRegister = @ \ {c}]) /\ UNCHANGED faults
    BY <1>t, <2>1, <2>3 DEF Ranges, Types
  <2> QED
    BY <1>2, <2>2, <2>3 DEF Registers
<1>3. CASE ImportsTickets
  <2>1. UNCHANGED <<mem, listed, tiles, launch>> /\ run.pc = "register" /\ run.pkg \in Packages
    BY <1>3, <1>t DEF ImportsTickets, console, Types
  <2>2. CASE Fault("ticket") /\ Fails
    BY <1>f, <1>s, <2>1, <2>2 DEF Fails
  <2>3. ASSUME NEW games \in SUBSET Storages, NEW updates \in SUBSET Storages,
               NEW seen \in SUBSET Storages, Sees(games \cap updates),
               run' = [run EXCEPT !.pc = "list", !.left = run.pkg,
                                  !.launch = LaunchVersion(run.pkg, games, updates), !.seen = seen]
        PROVE  Ranges'
    <3>1. LaunchVersion(run.pkg, games, updates) \in Versions \cup {0}
      BY <1>t, <2>1, LaunchIsVersion
    <3>2. /\ run'.launch \in Versions \cup {0} /\ run'.runs = run.runs
          /\ run'.olds = run.olds /\ run'.target = run.target /\ run.olds = {}
      BY <1>t, <2>1, <2>3, <3>1 DEF Ranges, Types
    <3>3. faults' \in 0 .. MaxFaults
      BY <1>o, <2>3
    <3> QED
      BY <2>1, <3>2, <3>3 DEF Ranges
  <2> QED
    BY <1>t, <1>3, <2>2, <2>3, Tickets
<1>4. CASE ListsOldVersions
  <2>1. UNCHANGED <<mem, listed, tiles, launch>> /\ run.pc = "list"
    BY <1>4 DEF ListsOldVersions, console
  <2>2. faults' \in 0 .. MaxFaults
    BY <1>4, <1>f DEF ListsOldVersions, Ranges
  <2>3. PICK olds : olds \subseteq mem[run.target] /\ run' = [run EXCEPT !.pc = "clean", !.olds = olds]
    <3>1. CASE run' = [run EXCEPT !.pc = "clean", !.olds = OldVersions(Filing)]
      BY <3>1 DEF OldVersions
    <3>2. CASE run' = [run EXCEPT !.pc = "clean"]
      <4>1. run.olds = {} /\ run' = [run EXCEPT !.pc = "clean", !.olds = {}]
        BY <1>t, <2>1, <3>2 DEF Ranges, Types
      <4> QED
        BY <4>1
    <3> QED
      BY <1>4, <3>1, <3>2 DEF ListsOldVersions
  <2> QED
    BY <1>t, <2>1, <2>2, <2>3 DEF Ranges, Types
<1>5. CASE DeletesOldContents
  <2>1. UNCHANGED <<mem, listed, tiles, launch>> /\ \E o : run' = [run EXCEPT !.pc = "remove", !.old = o]
    BY <1>5 DEF DeletesOldContents
  <2>2. faults' \in 0 .. MaxFaults
    BY <1>5, <1>f DEF DeletesOldContents, Ranges
  <2> QED
    BY <1>t, <2>1, <2>2 DEF Ranges, Types
<1>6. CASE RemovesOldRecord
  <2>1. UNCHANGED <<listed, tiles, launch>> /\ faults' \in 0 .. MaxFaults
    BY <1>6, <1>f DEF RemovesOldRecord, Ranges
  <2>2. mem[run.target] \ {run.old} \subseteq mem'[run.target]
    BY <1>6, <1>t DEF RemovesOldRecord, Types
  <2>3. /\ run'.pc = "clean" /\ run'.olds = run.olds \ {run.old} /\ run'.target = run.target
        /\ run'.launch = run.launch /\ run'.runs = run.runs
    BY <1>6, <1>t DEF RemovesOldRecord, Types
  <2> QED
    BY <2>1, <2>2, <2>3 DEF Ranges
<1>7. CASE SetsRecord
  <2>1. UNCHANGED <<listed, tiles, launch>> /\ run.olds = {}
    BY <1>7 DEF SetsRecord
  <2>2. faults' \in 0 .. MaxFaults
    BY <1>7, <1>f DEF SetsRecord, Ranges
  <2>3. \E pc : run' = [run EXCEPT !.pc = pc]
    BY <1>7 DEF SetsRecord, Fails
  <2> QED
    BY <1>t, <2>1, <2>2, <2>3 DEF Ranges, Types
<1>8. CASE CommitsRecord
  <2>1. UNCHANGED <<mem, listed, tiles, launch>> /\ run.olds = {}
    BY <1>8 DEF CommitsRecord, Ranges
  <2>2. faults' \in 0 .. MaxFaults
    BY <1>8, <1>f DEF CommitsRecord, Ranges
  <2>3. \E pc : run' = [run EXCEPT !.pc = pc]
    BY <1>8 DEF CommitsRecord, Fails
  <2> QED
    BY <1>t, <2>1, <2>2, <2>3 DEF Ranges, Types
<1>9. CASE ClearsOwnTile
  <2>1. UNCHANGED <<mem, listed, launch>> /\ tiles' \subseteq tiles /\ run.olds = {}
    BY <1>9 DEF ClearsOwnTile, Ranges
  <2>2. faults' \in 0 .. MaxFaults
    BY <1>9, <1>f DEF ClearsOwnTile, Ranges
  <2>3. run' = [run EXCEPT !.pc = "push"]
    BY <1>9 DEF ClearsOwnTile
  <2> QED
    BY <1>t, <2>1, <2>2, <2>3 DEF Ranges, Types
<1>10. CASE PushesRecord
  <2>1. UNCHANGED <<mem, tiles, launch>> /\ run.olds = {} /\ run.pc = "push"
    BY <1>10 DEF PushesRecord, Ranges
  <2>2. faults' \in 0 .. MaxFaults
    BY <1>10, <1>f DEF PushesRecord, Ranges
  <2>3. listed' \subseteq [meta : Metas, storage : Storages]
    <3>1. Filing \in Metas /\ run.target \in Storages
      BY <1>t, <2>1, FilingIsLeft DEF IInv, Filings, Types
    <3> QED
      BY <1>10, <3>1 DEF PushesRecord, Ranges
  <2>4. \E pc, left : run' = [run EXCEPT !.pc = pc, !.left = left]
    <3>1. CASE Fails
      <4>1. run' = [run EXCEPT !.pc = "failed", !.left = run.left]
        BY <1>t, <3>1 DEF Fails, Types
      <4> QED
        BY <4>1
    <3>2. CASE run' = [run EXCEPT !.pc = IF run.left = {Filing} THEN "launch" ELSE "list",
                                  !.left = @ \ {Filing}]
      BY <3>2
    <3> QED
      BY <1>10, <3>1, <3>2 DEF PushesRecord
  <2>5. run'.olds = {} /\ run'.target = run.target /\ run'.launch = run.launch /\ run'.runs = run.runs
    BY <1>t, <2>1, <2>4 DEF Types
  <2> QED
    BY <2>1, <2>2, <2>3, <2>5 DEF Ranges
<1>11. CASE PushesLaunchVersion
  <2>1. UNCHANGED <<mem, listed, tiles>> /\ run.olds = {} /\ launch' \in {launch, run.launch}
    BY <1>11 DEF PushesLaunchVersion, Ranges
  <2>2. faults' \in 0 .. MaxFaults
    BY <1>11, <1>f DEF PushesLaunchVersion, Ranges
  <2>3. \E pc : run' = [run EXCEPT !.pc = pc]
    BY <1>11 DEF PushesLaunchVersion, Fails
  <2> QED
    BY <1>t, <2>1, <2>2, <2>3 DEF Ranges, Types
<1>12. CASE InvalidatesCache
  <2>1. UNCHANGED <<mem, listed, tiles, launch>> /\ run.pc = "invalidate"
    BY <1>12 DEF InvalidatesCache, console
  <2>2. faults' \in 0 .. MaxFaults
    BY <1>12, <1>f DEF InvalidatesCache, Ranges
  <2> QED
    BY <1>12, <1>s, <1>e, <2>1, <2>2 DEF InvalidatesCache, Fails
<1>13. CASE Abandons
  <2>1. UNCHANGED <<mem, listed, tiles, launch, faults>> /\ run.pc = "failed"
    BY <1>13 DEF Abandons, console
  <2>2. CASE run' = [run EXCEPT !.pc = "rollback"]
    BY <1>t, <2>1, <2>2 DEF Ranges, Types
  <2>3. CASE Ends("failed")
    BY <1>e, <2>1, <2>3 DEF Ranges
  <2> QED
    BY <1>13, <2>2, <2>3 DEF Abandons
<1>14. CASE RollsRecordBack
  <2>1. UNCHANGED <<listed, tiles, launch>> /\ run.olds = {} /\ run' = [run EXCEPT !.pc = "discard"]
    BY <1>14 DEF RollsRecordBack, Ranges
  <2>2. faults' \in 0 .. MaxFaults
    BY <1>14, <1>f DEF RollsRecordBack, Ranges
  <2> QED
    BY <1>t, <2>1, <2>2 DEF Ranges, Types
<1>15. CASE DiscardsContents \/ Dies
  <2>1. UNCHANGED <<listed, tiles, launch>> /\ (Ends("failed") \/ Ends("cut"))
    BY <1>15 DEF DiscardsContents, Dies
  <2>2. faults' \in 0 .. MaxFaults
    BY <1>15, <1>f DEF DiscardsContents, Dies, Ranges
  <2> QED
    BY <1>e, <2>1, <2>2
<1>16. CASE UNCHANGED vars
  BY <1>16 DEF vars, Ranges
<1> QED
  BY <1>1, <1>2, <1>3, <1>4, <1>5, <1>6, <1>7, <1>8, <1>9, <1>10, <1>11, <1>12, <1>13, <1>14,
     <1>15, <1>16 DEF Next

LEMMA RangesInvariant == Spec => []Ranges
<1>1. Init => Ranges
  BY FinishAssumption DEF Init, Idle, Ranges, Storages
<1>2. IInv /\ Ranges /\ [Next]_vars => Ranges'
  BY StepRanges
<1> QED
  BY <1>1, <1>2, FinishInvariant, PTL DEF Spec

(* The state of ContentInstaller::Finish and of the console keeps its ranges,   *)
(* and the records that a run is about to remove are in the target's database:  *)
(* older or newer versions of what it is filing, never a record of the package. *)
THEOREM FinishIsTyped == Spec => []TypeOK
<1>1. IInv /\ Ranges => TypeOK
  <2> SUFFICES ASSUME IInv, Ranges PROVE TypeOK
    OBVIOUS
  <2>t. Types
    BY DEF IInv
  <2>1. run \in [pc : Pcs, pkg : Packages \cup {{}}, target : Storages,
                 toRegister : SUBSET Contents, left : SUBSET Metas, olds : SUBSET Metas,
                 old : Metas \cup {NoMeta}, modified : BOOLEAN, launch : Versions \cup {0},
                 seen : SUBSET Storages,
                 outcome : {"none", "already", "newer", "done", "failed", "cut"},
                 runs : 0 .. MaxRuns]
    BY <2>t DEF Types, Ranges
  <2>2. run.olds \subseteq {o \in mem[run.target] : \E m \in run.pkg : m.kind = o.kind /\ m # o}
    <3> SUFFICES ASSUME NEW o \in run.olds
                 PROVE  o \in mem[run.target] /\ \E m \in run.pkg : m.kind = o.kind /\ m # o
      OBVIOUS
    <3>1. run.pc \in {"clean", "remove"} /\ o \in mem[run.target]
      BY DEF Ranges
    <3>2. Filing \in run.pkg /\ o.kind = Filing.kind /\ o # Filing
      BY <3>1, FilingIsLeft DEF IInv, AtHand, Filings
    <3> QED
      BY <3>1, <3>2
  <2> QED
    BY <2>t, <2>1, <2>2 DEF TypeOK, Types, Ranges, Pcs
<1> QED
  BY <1>1, FinishInvariant, RangesInvariant, PTL

-----------------------------------------------------------------------------
(* As long as nothing goes wrong. *)

(* What a set of metas names. *)
NamedBy(ms) == UNION {ContentsOf(m) : m \in ms}

(* Before the first fault of all, each storage holds what its records name,    *)
(* and the target of a run also what the run has brought, or not yet removed.  *)
Exact ==
  faults = 0 =>
    /\ run.pc \notin {"failed", "rollback", "discard"}
    /\ \A s \in Storages : \A m, n \in mem[s] : m.kind = n.kind => m = n
    /\ \A s \in Storages :
         run.pc = "idle" \/ s # run.target => stored[s] = NamedBy(mem[s])
    /\ run.pc = "register" =>
         /\ run.toRegister \subseteq NamedBy(run.pkg)
         /\ NamedBy(mem[run.target]) \subseteq stored[run.target]
         /\ stored[run.target] \subseteq NamedBy(mem[run.target] \cup run.pkg)
    /\ run.pc \in Finishings \ {"remove"} =>
         stored[run.target] = NamedBy(mem[run.target] \cup run.pkg)
    /\ run.pc = "remove" =>
         stored[run.target] = NamedBy((mem[run.target] \ {run.old}) \cup run.pkg)
    /\ run.pc \in {"clean", "remove"} => run.olds = OldVersions(Filing)
    /\ \A r \in listed : r.meta.kind \notin tiles
    /\ run.pc = "push" => Filing.kind \notin tiles

(* Deleting what an old version alone names leaves what the others name. *)
LEMMA DoomedIsTheRest ==
  ASSUME NEW ms \in SUBSET Metas, \A m, n \in ms : m.kind = n.kind => m = n,
         run.pkg \in Packages, NEW o \in ms, o \notin run.pkg
  PROVE  NamedBy(ms \cup run.pkg) \ Doomed(o) = NamedBy((ms \ {o}) \cup run.pkg)
<1>1. \A m \in run.pkg : m \in Metas /\ m # o
  BY OneOfATitle
<1>2. ASSUME NEW m \in (ms \ {o}) \cup run.pkg PROVE ContentsOf(m) \cap Doomed(o) = {}
  <2>1. CASE m \in run.pkg
    BY <1>1, <2>1, DoomedSpares
  <2>2. CASE m \in ms \ {o}
    BY <2>2, TitlesAreApart DEF Doomed
  <2> QED
    BY <2>1, <2>2
<1>3. ASSUME NEW c \in NamedBy(ms \cup run.pkg), c \notin Doomed(o)
      PROVE  c \in NamedBy((ms \ {o}) \cup run.pkg)
  <2>1. PICK m \in ms \cup run.pkg : c \in ContentsOf(m)
    BY DEF NamedBy
  <2>2. CASE m # o
    BY <2>1, <2>2 DEF NamedBy
  <2>3. CASE m = o
    <3>1. c \in ContentIds(run.pkg)
      BY <1>3, <2>1, <2>3 DEF Doomed
    <3>2. PICK n \in run.pkg : c \in ContentsOf(n)
      BY <3>1 DEF ContentIds, ContentsOf
    <3> QED
      BY <3>2 DEF NamedBy
  <2> QED
    BY <2>2, <2>3
<1>4. ASSUME NEW c \in NamedBy((ms \ {o}) \cup run.pkg)
      PROVE  c \in NamedBy(ms \cup run.pkg) /\ c \notin Doomed(o)
  <2>1. PICK m \in (ms \ {o}) \cup run.pkg : c \in ContentsOf(m)
    BY DEF NamedBy
  <2> QED
    BY <1>2, <2>1 DEF NamedBy
<1> QED
  BY <1>3, <1>4

LEMMA StepExact ==
  ASSUME IInv, Ranges, Exact, [Next]_vars
  PROVE  Exact'
<1> SUFFICES ASSUME faults' = 0 PROVE Exact'
  BY DEF Exact
<1>t. Types
  BY DEF IInv
<1>f. ASSUME NEW call, Fault(call) PROVE FALSE
  BY <1>f DEF Fault, Ranges
<1>o. ASSUME NEW seen, Sees(seen) PROVE UNCHANGED faults
  BY <1>o, <1>f DEF Sees
<1>k. /\ run \in [pc : Pcs, pkg : Packages \cup {{}}, target : Storages,
                  toRegister : SUBSET Contents, left : SUBSET Metas, olds : SUBSET Metas,
                  old : Metas \cup {NoMeta}, modified : BOOLEAN, launch : {run.launch},
                  seen : SUBSET Storages,
                  outcome : {"none", "already", "newer", "done", "failed", "cut"}, runs : Int]
      /\ run.target \in Storages /\ mem \in [Storages -> SUBSET Metas]
      /\ stored \in [Storages -> SUBSET Contents]
  BY <1>t DEF Types
<1>0. ASSUME faults = 0
      PROVE  /\ run.pc \notin {"failed", "rollback", "discard"}
             /\ \A s \in Storages : \A m, n \in mem[s] : m.kind = n.kind => m = n
             /\ \A s \in Storages :
                  run.pc = "idle" \/ s # run.target => stored[s] = NamedBy(mem[s])
             /\ \A r \in listed : r.meta.kind \notin tiles
             /\ run.pc \in Finishings \ {"remove"} =>
                  stored[run.target] = NamedBy(mem[run.target] \cup run.pkg)
  BY <1>0 DEF Exact
<1>1. CASE Prepare
  <2>1. /\ UNCHANGED <<stored, mem, listed, tiles, faults>> /\ run.pc = "idle" /\ faults = 0
    BY <1>1, <1>o DEF Prepare, console
  <2>2. \A s \in Storages : stored[s] = NamedBy(mem[s])
    BY <1>0, <2>1
  <2>3. CASE run'.pc = "idle"
    BY <1>0, <2>1, <2>2, <2>3 DEF Exact, Finishings, Filings
  <2>4. CASE run'.pc # "idle"
    <3>1. PICK p \in Packages, s \in Storages :
            /\ run'.pc = "register" /\ run'.pkg = p /\ run'.target = s
            /\ run'.toRegister = (ContentIds(p) \ stored[s]) \cup {MetaContent(m) : m \in p}
      BY <1>1, <2>4, Picks
    <3>2. run'.toRegister \subseteq NamedBy(p)
      BY <3>1 DEF NamedBy, ContentIds, ContentsOf
    <3>3. stored[s] = NamedBy(mem[s]) /\ NamedBy(mem[s]) \subseteq NamedBy(mem[s] \cup p)
      BY <2>2 DEF NamedBy
    <3> QED
      BY <1>0, <2>1, <2>2, <3>1, <3>2, <3>3 DEF Exact, Finishings, Filings
  <2> QED
    BY <2>3, <2>4
<1>2. CASE Registers
  <2>1. PICK c \in run.toRegister :
          /\ stored' = [stored EXCEPT ![run.target] = @ \cup {c}]
          /\ run' = [run EXCEPT !.toRegister = @ \ {c}]
          /\ UNCHANGED <<mem, listed, tiles, faults>> /\ run.pc = "register" /\ faults = 0
    BY <1>2, <1>f DEF Registers, ToRegisterNext
  <2>2. /\ run'.pc = "register" /\ run'.pkg = run.pkg /\ run'.target = run.target
        /\ run'.toRegister = run.toRegister \ {c}
    BY <1>k, <2>1
  <2>3. /\ stored'[run.target] = stored[run.target] \cup {c}
        /\ \A s \in Storages : s # run.target => stored'[s] = stored[s]
    BY <1>k, <2>1
  <2>4. /\ run.toRegister \subseteq NamedBy(run.pkg)
        /\ NamedBy(mem[run.target]) \subseteq stored[run.target]
        /\ stored[run.target] \subseteq NamedBy(mem[run.target] \cup run.pkg)
    BY <2>1 DEF Exact
  <2>5. stored'[run.target] \subseteq NamedBy(mem[run.target] \cup run.pkg)
    BY <2>3, <2>4 DEF NamedBy
  <2> QED
    BY <1>0, <2>1, <2>2, <2>3, <2>4, <2>5 DEF Exact, Finishings, Filings
<1>3. CASE ImportsTickets
  <2>1. /\ UNCHANGED <<stored, mem, listed, tiles, faults>> /\ run.pc = "register" /\ faults = 0
        /\ run.toRegister = {}
    BY <1>3, <1>f, <1>o DEF ImportsTickets, console
  <2>2. run'.pc = "list" /\ run'.pkg = run.pkg /\ run'.target = run.target
    <3>1. \E seen, launched : run' = [run EXCEPT !.pc = "list", !.left = run.pkg,
                                                 !.launch = launched, !.seen = seen]
      BY <1>t, <1>3, <1>f, Tickets
    <3> QED
      BY <1>k, <3>1
  <2>3. /\ NamedBy(mem[run.target]) \subseteq stored[run.target]
        /\ stored[run.target] \subseteq NamedBy(mem[run.target] \cup run.pkg)
    BY <2>1 DEF Exact
  <2>4. NamedBy(run.pkg) \subseteq stored[run.target]
    BY <2>1 DEF IInv, Progress, NamedBy
  <2>5. stored[run.target] = NamedBy(mem[run.target] \cup run.pkg)
    BY <2>3, <2>4 DEF NamedBy
  <2> QED
    BY <1>0, <2>1, <2>2, <2>5 DEF Exact, Finishings, Filings
<1>4. CASE ListsOldVersions
  <2>1. /\ run' = [run EXCEPT !.pc = "clean", !.olds = OldVersions(Filing)]
        /\ UNCHANGED <<stored, mem, listed, tiles, faults>> /\ run.pc = "list" /\ faults = 0
    BY <1>4, <1>f DEF ListsOldVersions, console
  <2>2. /\ run'.pc = "clean" /\ run'.pkg = run.pkg /\ run'.target = run.target
        /\ run'.left = run.left /\ run'.olds = OldVersions(Filing)
    BY <1>k, <2>1
  <2>3. OldVersions(Filing)' = OldVersions(Filing)
    BY <2>1, <2>2 DEF OldVersions, Filing
  <2> QED
    BY <1>0, <2>1, <2>2, <2>3 DEF Exact, Finishings, Filings
<1>5. CASE DeletesOldContents
  <2>1. PICK o \in run.olds :
          /\ stored' = [stored EXCEPT ![run.target] = @ \ Doomed(o)]
          /\ run' = [run EXCEPT !.pc = "remove", !.old = o]
          /\ UNCHANGED <<mem, listed, tiles, faults>> /\ run.pc = "clean" /\ faults = 0
    BY <1>5, <1>f DEF DeletesOldContents
  <2>2. /\ run'.pc = "remove" /\ run'.pkg = run.pkg /\ run'.target = run.target
        /\ run'.left = run.left /\ run'.olds = run.olds /\ run'.old = o
    BY <1>k, <2>1
  <2>3. /\ stored'[run.target] = stored[run.target] \ Doomed(o)
        /\ \A s \in Storages : s # run.target => stored'[s] = stored[s]
    BY <1>k, <2>1
  <2>4. /\ stored[run.target] = NamedBy(mem[run.target] \cup run.pkg)
        /\ run.olds = OldVersions(Filing)
    BY <2>1 DEF Exact, Finishings, Filings
  <2>5. run.pkg \in Packages /\ o \in mem[run.target] /\ o \notin run.pkg
    <3>1. run.pkg \in Packages /\ Filing \in run.pkg
      BY <1>t, <2>1, FilingIsLeft DEF IInv, Filings
    <3>2. o \in mem[run.target] /\ o.kind = Filing.kind /\ o # Filing
      BY <2>4 DEF OldVersions
    <3> QED
      BY <3>1, <3>2, OneOfATitle
  <2>6. stored'[run.target] = NamedBy((mem[run.target] \ {o}) \cup run.pkg)
    BY <1>0, <1>k, <2>1, <2>3, <2>4, <2>5, DoomedIsTheRest
  <2>7. OldVersions(Filing)' = OldVersions(Filing)
    BY <2>1, <2>2 DEF OldVersions, Filing
  <2> QED
    BY <1>0, <2>1, <2>2, <2>3, <2>4, <2>6, <2>7 DEF Exact, Finishings, Filings
<1>6. CASE RemovesOldRecord
  <2>1. /\ mem' = [mem EXCEPT ![run.target] = @ \ {run.old}]
        /\ run' = [run EXCEPT !.pc = "clean", !.olds = @ \ {run.old}, !.old = NoMeta]
        /\ UNCHANGED <<stored, listed, tiles, faults>> /\ run.pc = "remove" /\ faults = 0
    BY <1>6, <1>f DEF RemovesOldRecord
  <2>2. /\ run'.pc = "clean" /\ run'.pkg = run.pkg /\ run'.target = run.target
        /\ run'.left = run.left /\ run'.olds = run.olds \ {run.old}
    BY <1>k, <2>1
  <2>3. /\ mem'[run.target] = mem[run.target] \ {run.old}
        /\ \A s \in Storages : s # run.target => mem'[s] = mem[s]
        /\ \A s \in Storages : mem'[s] \subseteq mem[s]
    BY <1>k, <2>1
  <2>4. /\ stored[run.target] = NamedBy((mem[run.target] \ {run.old}) \cup run.pkg)
        /\ run.olds = OldVersions(Filing)
    BY <2>1 DEF Exact
  <2>5. run'.olds = OldVersions(Filing)'
    BY <2>2, <2>3, <2>4 DEF OldVersions, Filing
  <2> QED
    BY <1>0, <2>1, <2>2, <2>3, <2>4, <2>5 DEF Exact, Finishings, Filings
<1>7. CASE SetsRecord
  <2>1. /\ mem' = [mem EXCEPT ![run.target] = @ \cup {Filing}]
        /\ run' = [run EXCEPT !.pc = "commit"]
        /\ UNCHANGED <<stored, listed, tiles, faults>> /\ run.pc = "clean" /\ faults = 0
        /\ run.olds = {}
    BY <1>7, <1>f DEF SetsRecord
  <2>2. run'.pc = "commit" /\ run'.pkg = run.pkg /\ run'.target = run.target
    BY <1>k, <2>1
  <2>3. /\ mem'[run.target] = mem[run.target] \cup {Filing}
        /\ \A s \in Storages : s # run.target => mem'[s] = mem[s]
    BY <1>k, <2>1
  <2>4. /\ stored[run.target] = NamedBy(mem[run.target] \cup run.pkg)
        /\ OldVersions(Filing) = {}
    BY <2>1 DEF Exact, Finishings, Filings
  <2>5. Filing \in run.pkg
    BY <1>t, <2>1, FilingIsLeft DEF IInv, Filings
  <2>6. mem'[run.target] \cup run.pkg = mem[run.target] \cup run.pkg
    BY <2>3, <2>5
  <2>7. \A s \in Storages : \A m, n \in mem'[s] : m.kind = n.kind => m = n
    <3> SUFFICES ASSUME NEW m \in mem'[run.target], NEW n \in mem'[run.target], m.kind = n.kind
                 PROVE  m = n
      BY <1>0, <2>1, <2>3
    <3>1. \A o \in mem[run.target] : o.kind = Filing.kind => o = Filing
      BY <2>4 DEF OldVersions
    <3> QED
      BY <1>0, <1>k, <2>1, <2>3, <3>1
  <2> QED
    BY <1>0, <2>1, <2>2, <2>3, <2>4, <2>6, <2>7 DEF Exact, Finishings, Filings
<1>8. CASE CommitsRecord
  <2>1. /\ run' = [run EXCEPT !.pc = "clear"]
        /\ UNCHANGED <<stored, mem, listed, tiles, faults>> /\ run.pc = "commit" /\ faults = 0
    BY <1>8, <1>f DEF CommitsRecord
  <2>2. run'.pc = "clear" /\ run'.pkg = run.pkg /\ run'.target = run.target
    BY <1>k, <2>1
  <2> QED
    BY <1>0, <2>1, <2>2 DEF Exact, Finishings, Filings
<1>9. CASE ClearsOwnTile
  <2>1. /\ run' = [run EXCEPT !.pc = "push"] /\ tiles' = tiles \ {Filing.kind}
        /\ UNCHANGED <<stored, mem, listed, faults>> /\ run.pc = "clear" /\ faults = 0
    BY <1>9, <1>f DEF ClearsOwnTile
  <2>2. /\ run'.pc = "push" /\ run'.pkg = run.pkg /\ run'.target = run.target
        /\ run'.left = run.left
    BY <1>k, <2>1
  <2>3. Filing.kind' \notin tiles' /\ \A r \in listed' : r.meta.kind \notin tiles'
    BY <1>0, <2>1, <2>2 DEF Filing
  <2> QED
    BY <1>0, <2>1, <2>2, <2>3 DEF Exact, Finishings, Filings
<1>10. CASE PushesRecord
  <2>1. /\ listed' = listed \cup {[meta |-> Filing, storage |-> run.target]}
        /\ run' = [run EXCEPT !.pc = IF run.left = {Filing} THEN "launch" ELSE "list",
                              !.left = @ \ {Filing}]
        /\ UNCHANGED <<stored, mem, tiles, faults>> /\ run.pc = "push" /\ faults = 0
    BY <1>10, <1>f DEF PushesRecord
  <2>2. /\ run'.pc \in {"launch", "list"} /\ run'.pkg = run.pkg /\ run'.target = run.target
    BY <1>k, <2>1
  <2>3. \A r \in listed' : r.meta.kind \notin tiles'
    <3>1. Filing.kind \notin tiles
      BY <2>1 DEF Exact
    <3> QED
      BY <1>0, <2>1, <3>1
  <2> QED
    BY <1>0, <2>1, <2>2, <2>3 DEF Exact, Finishings, Filings
<1>11. CASE PushesLaunchVersion
  <2>1. /\ run' = [run EXCEPT !.pc = "invalidate"]
        /\ UNCHANGED <<stored, mem, listed, tiles, faults>> /\ run.pc = "launch" /\ faults = 0
    BY <1>11, <1>f DEF PushesLaunchVersion
  <2>2. run'.pc = "invalidate" /\ run'.pkg = run.pkg /\ run'.target = run.target
    BY <1>k, <2>1
  <2> QED
    BY <1>0, <2>1, <2>2 DEF Exact, Finishings, Filings
<1>12. CASE InvalidatesCache
  <2>1. /\ Ends("done")
        /\ UNCHANGED <<stored, mem, listed, tiles, faults>> /\ run.pc = "invalidate" /\ faults = 0
    BY <1>12, <1>f DEF InvalidatesCache, console
  <2>2. run'.pc = "idle" /\ run'.target = run.target
    BY <2>1 DEF Ends, Idle
  <2>3. run.pkg \subseteq mem[run.target]
    BY <2>1 DEF IInv, Progress, Finishings, Filed
  <2>4. stored[run.target] = NamedBy(mem[run.target])
    <3>1. mem[run.target] \cup run.pkg = mem[run.target]
      BY <2>3
    <3> QED
      BY <1>0, <2>1, <3>1 DEF Finishings
  <2> QED
    BY <1>0, <2>1, <2>2, <2>4 DEF Exact, Finishings, Filings
<1>13. CASE Abandons \/ DiscardsContents
  BY <1>0, <1>13 DEF Abandons, DiscardsContents
<1>14. CASE RollsRecordBack
  <2>1. run.pc = "rollback" /\ faults = 0
    BY <1>14, <1>f DEF RollsRecordBack
  <2> QED
    BY <1>0, <2>1
<1>15. CASE Dies
  BY <1>15, <1>f DEF Dies
<1>16. CASE UNCHANGED vars
  BY <1>16 DEF vars, Exact, OldVersions, Filing
<1> QED
  BY <1>1, <1>2, <1>3, <1>4, <1>5, <1>6, <1>7, <1>8, <1>9, <1>10, <1>11, <1>12, <1>13, <1>14,
     <1>15, <1>16 DEF Next

(* ContentInstaller::Finish, its cleanup included: as long as no call failed   *)
(* and the app was not cut off, each storage holds between two runs exactly     *)
(* what its records name, in one version of a title, and nothing that was filed *)
(* keeps a tile of its own.                                                    *)
THEOREM RestIsAlwaysExact == Spec => []RestIsExact
<1>1. Init => Exact
  <2> SUFFICES ASSUME Init PROVE Exact
    OBVIOUS
  <2>1. /\ run.pc = "idle" /\ listed = {}
        /\ \A s \in Storages : stored[s] = {} /\ mem[s] = {}
    BY DEF Init, Idle
  <2>2. \A s \in Storages : stored[s] = NamedBy(mem[s])
    BY <2>1 DEF NamedBy
  <2> QED
    BY <2>1, <2>2 DEF Exact, Finishings, Filings
<1>2. IInv /\ Ranges /\ Exact /\ [Next]_vars => Exact'
  BY StepExact
<1>3. Exact => RestIsExact
  BY DEF Exact, RestIsExact, NamedBy
<1> QED
  BY <1>1, <1>2, <1>3, FinishInvariant, RangesInvariant, PTL DEF Spec
-----------------------------------------------------------------------------
(* What may be launched. *)

(* No update in these storages is newer than this version. *)
UpdatesUpTo(v, seen) == \A s \in seen : \A m \in mem[s] : m.kind = "update" => m.version <= v

(* From where Prepare let an update lead the package to where the run is done. *)
Covered ==
  /\ run.pc = "register" /\ First(run.pkg).kind = "update" =>
       UpdatesUpTo(First(run.pkg).version, run.seen)
  /\ run.pc \in Finishings =>
       /\ UpdatesUpTo(run.launch, run.seen)
       /\ \A m \in run.pkg : m.version <= run.launch
  /\ run.pc = "invalidate" => launch = run.launch
  /\ Finished => UpdatesUpTo(launch, run.seen) /\ \A m \in run.pkg : m.version <= launch

(* A version that no update is newer than is not less than the newest update's. *)
LEMMA NewestUpdate ==
  ASSUME Types, NEW v \in Nat, NEW seen \in SUBSET Storages, UpdatesUpTo(v, seen)
  PROVE  Installed("update", seen) <= v
<1> DEFINE vs == UNION {VersionsIn(s, "update") : s \in seen}
<1>1. vs \in SUBSET (Versions \cup {0})
  BY DEF Types, VersionsIn, Metas
<1>2. \A n \in vs : n <= v
  BY DEF UpdatesUpTo, VersionsIn
<1>3. Installed("update", seen) = Latest(vs)
  BY DEF Installed
<1> HIDE DEF vs
<1>4. Latest(vs) \in vs \cup {0}
  BY <1>1, LatestIsNewest
<1> QED
  BY <1>2, <1>3, <1>4

LEMMA VersionOfFirst ==
  ASSUME NEW p \in Packages
  PROVE  First(p) \in p /\ First(p).version \in Nat
<1>1. p \in SUBSET Metas /\ p # {}
  BY OneOfATitle
<1>2. First(p) \in p
  BY <1>1, FirstIsIn
<1> QED
  BY <1>1, <1>2, FinishAssumption DEF Metas

LEMMA StepCovered ==
  ASSUME IInv, Ranges, Covered, [Next]_vars
  PROVE  Covered'
<1>t. Types
  BY DEF IInv
<1>k. /\ run \in [pc : Pcs, pkg : Packages \cup {{}}, target : Storages,
                  toRegister : SUBSET Contents, left : SUBSET Metas, olds : SUBSET Metas,
                  old : Metas \cup {NoMeta}, modified : BOOLEAN, launch : {run.launch},
                  seen : SUBSET Storages,
                  outcome : {"none", "already", "newer", "done", "failed", "cut"}, runs : Int]
      /\ run.target \in Storages /\ run.seen \in SUBSET Storages
      /\ mem \in [Storages -> SUBSET Metas]
  BY <1>t DEF Types
<1>v. ASSUME NEW v, UpdatesUpTo(v, run.seen), \A s \in Storages : mem'[s] \subseteq mem[s]
      PROVE  \A s \in run.seen : \A m \in mem'[s] : m.kind = "update" => m.version <= v
  BY <1>k, <1>v DEF UpdatesUpTo
<1>d. ASSUME run'.pc \in {"failed", "rollback", "discard"} PROVE Covered'
  BY <1>d DEF Covered, Finishings, Filings, Finished
<1>e. ASSUME run'.pc = "idle", run'.outcome # "done" PROVE Covered'
  BY <1>e DEF Covered, Finishings, Filings, Finished
<1>m. ASSUME run.pc \in Finishings, run'.pc \in Finishings \ {"invalidate"},
             run'.launch = run.launch, run'.pkg = run.pkg, run'.seen = run.seen,
             \A s \in Storages : mem'[s] \subseteq mem[s]
      PROVE  Covered'
  <2>1. UpdatesUpTo(run.launch, run.seen) /\ \A m \in run.pkg : m.version <= run.launch
    BY <1>m DEF Covered
  <2>2. \A s \in run.seen : \A m \in mem'[s] : m.kind = "update" => m.version <= run.launch
    BY <1>m, <1>v, <2>1
  <2> QED
    BY <1>m, <2>1, <2>2 DEF Covered, Finishings, Filings, Finished, UpdatesUpTo
<1>1. CASE Prepare
  <2>1. CASE run'.pc = "idle" /\ run'.outcome # "done"
    BY <2>1, <1>e
  <2>2. CASE run'.pc # "idle"
    <3>1. PICK p \in Packages, seen \in SUBSET Storages :
            /\ run'.pc = "register" /\ run'.pkg = p /\ run'.seen = seen
            /\ DecideSkip(First(p), seen) = "install"
      BY <1>1, <2>2, Picks
    <3>2. UNCHANGED mem
      BY <1>1 DEF Prepare, console
    <3>3. ASSUME First(p).kind = "update"
          PROVE  UpdatesUpTo(First(p).version, seen)
      <4>1. ~(Installed("update", seen) > First(p).version)
        BY <3>1, <3>3 DEF DecideSkip
      <4>2. First(p).version \in Nat
        BY VersionOfFirst
      <4>3. /\ Installed("update", seen) \in Nat
            /\ \A s \in seen : \A m \in mem[s] :
                 m.kind = "update" => m.version <= Installed("update", seen)
        BY <1>t, InstalledIsVersion
      <4>4. \A s \in Storages : \A m \in mem[s] : m.version \in Nat
        BY <1>k, FinishAssumption DEF Metas
      <4>5. Installed("update", seen) <= First(p).version
        BY <4>1, <4>2, <4>3
      <4> HIDE DEF Installed, First
      <4> QED
        BY <4>2, <4>3, <4>4, <4>5 DEF UpdatesUpTo
    <3> QED
      BY <3>1, <3>2, <3>3 DEF Covered, Finishings, Filings, Finished, UpdatesUpTo
  <2>3. run'.pc = "idle" => run'.outcome \in {"already", "newer"}
    <3>1. \A m, seen : DecideSkip(m, seen) \in {"already", "newer", "install"}
      BY DEF DecideSkip
    <3> QED
      BY <1>1, <3>1 DEF Prepare, Starts, Idle
  <2> QED
    BY <2>1, <2>2, <2>3
<1>2. CASE Registers
  <2>1. CASE Fails
    BY <1>k, <2>1, <1>d DEF Fails
  <2>2. CASE run'.pc = "register" /\ run'.pkg = run.pkg /\ run'.seen = run.seen
    <3>1. UNCHANGED mem /\ run.pc = "register"
      BY <1>2 DEF Registers
    <3> QED
      BY <2>2, <3>1 DEF Covered, Finishings, Filings, Finished, UpdatesUpTo
  <2> QED
    BY <1>2, <1>k, <2>1, <2>2 DEF Registers
<1>3. CASE ImportsTickets
  <2>1. CASE Fails
    BY <1>k, <2>1, <1>d DEF Fails
  <2>2. ASSUME NEW games \in SUBSET Storages, NEW updates \in SUBSET Storages,
               NEW seen \in SUBSET Storages,
               seen = IF First(run.pkg).kind = "update" THEN run.seen ELSE updates,
               run' = [run EXCEPT !.pc = "list", !.left = run.pkg,
                                  !.launch = LaunchVersion(run.pkg, games, updates), !.seen = seen]
        PROVE  Covered'
    <3> DEFINE v == LaunchVersion(run.pkg, games, updates)
    <3> HIDE DEF v
    <3>1. run'.pc = "list" /\ run'.pkg = run.pkg /\ run'.launch = v /\ run'.seen = seen
      BY <1>k, <2>2 DEF v
    <3>2. run.pkg \in Packages /\ run.pc = "register" /\ UNCHANGED mem
      BY <1>t, <1>3 DEF ImportsTickets, console, Types
    <3>3. /\ v \in Nat /\ \A m \in run.pkg : m.version <= v
          /\ First(run.pkg).kind # "update" => Installed("update", updates) <= v
      BY <1>t, <3>2, LaunchIsVersion DEF v
    <3>4. \A s \in Storages : \A m \in mem[s] : m.version \in Nat
      BY <1>k, FinishAssumption DEF Metas
    <3>5. PICK top \in Nat : top <= v /\ UpdatesUpTo(top, seen)
      <4>1. CASE First(run.pkg).kind = "update"
        <5>1. First(run.pkg) \in run.pkg /\ First(run.pkg).version \in Nat
          BY <3>2, VersionOfFirst
        <5>2. UpdatesUpTo(First(run.pkg).version, seen)
          BY <2>2, <3>2, <4>1 DEF Covered
        <5> QED
          BY <3>3, <5>1, <5>2
      <4>2. CASE First(run.pkg).kind # "update"
        <5>1. /\ Installed("update", updates) \in Nat /\ seen = updates
              /\ UpdatesUpTo(Installed("update", updates), seen)
          BY <1>t, <2>2, <4>2, InstalledIsVersion DEF UpdatesUpTo
        <5> QED
          BY <3>3, <4>2, <5>1
      <4> QED
        BY <4>1, <4>2
    <3>6. ASSUME NEW s \in seen, NEW m \in mem[s], m.kind = "update"
          PROVE  m.version <= v
      <4>1. m.version <= top /\ m.version \in Nat
        BY <3>4, <3>5, <3>6 DEF UpdatesUpTo
      <4> QED
        BY <3>3, <3>5, <4>1
    <3> QED
      BY <3>1, <3>2, <3>3, <3>6 DEF Covered, Finishings, Filings, Finished, UpdatesUpTo
  <2> QED
    BY <1>t, <1>3, <2>1, <2>2, Tickets
<1>4. CASE ListsOldVersions \/ DeletesOldContents \/ CommitsRecord \/ ClearsOwnTile \/ PushesRecord
  <2>1. CASE Fails
    BY <1>k, <2>1, <1>d DEF Fails
  <2>2. CASE ~Fails
    <3>1. /\ run.pc \in Finishings /\ run'.pc \in Finishings \ {"invalidate"}
          /\ run'.launch = run.launch /\ run'.pkg = run.pkg /\ run'.seen = run.seen
      BY <1>4, <1>k, <2>2 DEF ListsOldVersions, DeletesOldContents, CommitsRecord, ClearsOwnTile,
         PushesRecord, Finishings, Filings
    <3>2. UNCHANGED mem
      BY <1>4 DEF ListsOldVersions, DeletesOldContents, CommitsRecord, ClearsOwnTile,
         PushesRecord, console
    <3> QED
      BY <3>1, <3>2, <1>m
  <2> QED
    BY <2>1, <2>2
<1>5. CASE RemovesOldRecord
  <2>1. /\ run.pc \in Finishings /\ run'.pc \in Finishings \ {"invalidate"}
        /\ run'.launch = run.launch /\ run'.pkg = run.pkg /\ run'.seen = run.seen
    BY <1>5, <1>k DEF RemovesOldRecord, Finishings, Filings
  <2>2. \A s \in Storages : mem'[s] \subseteq mem[s]
    BY <1>5, <1>k DEF RemovesOldRecord
  <2> QED
    BY <2>1, <2>2, <1>m
<1>6. CASE SetsRecord
  <2>1. CASE Fails
    BY <1>k, <2>1, <1>d DEF Fails
  <2>2. CASE ~Fails
    <3>1. /\ run.pc = "clean" /\ run'.pc = "commit"
          /\ run'.launch = run.launch /\ run'.pkg = run.pkg /\ run'.seen = run.seen
          /\ mem' = [mem EXCEPT ![run.target] = @ \cup {Filing}]
      BY <1>6, <1>k, <2>2 DEF SetsRecord
    <3>2. Filing \in run.pkg
      BY <1>t, <3>1, FilingIsLeft DEF IInv, Filings
    <3>3. UpdatesUpTo(run.launch, run.seen) /\ \A m \in run.pkg : m.version <= run.launch
      BY <3>1 DEF Covered, Finishings, Filings
    <3>4. \A s \in run.seen : \A m \in mem'[s] : m.kind = "update" => m.version <= run.launch
      BY <1>k, <3>1, <3>2, <3>3 DEF UpdatesUpTo
    <3> QED
      BY <3>1, <3>3, <3>4 DEF Covered, Finishings, Filings, Finished, UpdatesUpTo
  <2> QED
    BY <2>1, <2>2
<1>7. CASE PushesLaunchVersion
  <2>1. CASE Fails
    BY <1>k, <2>1, <1>d DEF Fails
  <2>2. CASE ~Fails
    <3>1. /\ run.pc = "launch" /\ run'.pc = "invalidate" /\ launch' = run.launch
          /\ run'.launch = run.launch /\ run'.pkg = run.pkg /\ run'.seen = run.seen
          /\ UNCHANGED mem
      BY <1>7, <1>k, <2>2 DEF PushesLaunchVersion
    <3>2. UpdatesUpTo(run.launch, run.seen) /\ \A m \in run.pkg : m.version <= run.launch
      BY <3>1 DEF Covered, Finishings
    <3> QED
      BY <3>1, <3>2 DEF Covered, Finishings, Filings, Finished, UpdatesUpTo
  <2> QED
    BY <2>1, <2>2
<1>8. CASE InvalidatesCache
  <2>1. CASE Fails
    BY <1>k, <2>1, <1>d DEF Fails
  <2>2. CASE ~Fails
    <3>1. /\ run.pc = "invalidate" /\ run'.pc = "idle" /\ UNCHANGED <<mem, launch>>
          /\ run'.pkg = run.pkg /\ run'.seen = run.seen
      BY <1>8, <2>2 DEF InvalidatesCache, Ends, Idle, console
    <3>2. UpdatesUpTo(launch, run.seen) /\ \A m \in run.pkg : m.version <= launch
      BY <3>1 DEF Covered, Finishings
    <3> QED
      BY <3>1, <3>2 DEF Covered, Finishings, Filings, Finished, UpdatesUpTo
  <2> QED
    BY <2>1, <2>2
<1>9. CASE Abandons \/ RollsRecordBack \/ DiscardsContents \/ Dies
  <2>1. \/ run'.pc \in {"rollback", "discard"}
        \/ run'.pc = "idle" /\ run'.outcome # "done"
    BY <1>9, <1>k DEF Abandons, RollsRecordBack, DiscardsContents, Dies, Ends, Idle
  <2> QED
    BY <2>1, <1>d, <1>e
<1>10. CASE UNCHANGED vars
  BY <1>10 DEF vars, Covered, UpdatesUpTo, Finished
<1> QED
  BY <1>1, <1>2, <1>3, <1>4, <1>5, <1>6, <1>7, <1>8, <1>9, <1>10 DEF Next

(* LaunchVersion and DecideSkip: when a run says it is done, the application may be *)
(* launched at no less than what the run has put in place, and no less than the     *)
(* newest update in the storages that could be opened when the run asked for the     *)
(* updates, whatever else went wrong in this run or before.  An update in a storage  *)
(* that could not be opened at that moment may be above it.                          *)
THEOREM LaunchAlwaysCoversUpdates == Spec => []LaunchCoversUpdates
<1>1. Init => Covered
  BY DEF Init, Idle, Covered, Finishings, Filings, Finished
<1>2. IInv /\ Ranges /\ Covered /\ [Next]_vars => Covered'
  BY StepCovered
<1>3. IInv /\ Ranges /\ Covered => LaunchCoversUpdates
  <2> SUFFICES ASSUME IInv, Ranges, Covered, Finished
               PROVE  /\ \A m \in run.pkg : launch >= m.version
                      /\ launch >= Installed("update", run.seen)
    BY DEF LaunchCoversUpdates
  <2>1. launch \in Nat /\ Types /\ UpdatesUpTo(launch, run.seen) /\ run.seen \in SUBSET Storages
    BY FinishAssumption DEF Ranges, IInv, Covered, Types
  <2>2. Installed("update", run.seen) \in Nat
    BY <2>1, InstalledIsVersion
  <2>3. Installed("update", run.seen) <= launch
    BY <2>1, NewestUpdate
  <2>4. \A m \in run.pkg : m.version <= launch /\ m.version \in Nat
    BY <2>1, FinishAssumption DEF Covered, Types, Packages, Metas
  <2> QED
    BY <2>1, <2>2, <2>3, <2>4
<1> QED
  BY <1>1, <1>2, <1>3, FinishInvariant, RangesInvariant, PTL DEF Spec
=============================================================================
