----------------------------- MODULE MediaProofs -----------------------------
(***************************************************************************)
(* MediaSound from one terminal, for any levels of MQ, any number of verbs *)
(* and of kills, resets, decayed files and bumps of the pin.  MediaInv is  *)
(* inductive: a step changes one tarball's files and the terminal's state. *)
(***************************************************************************)
EXTENDS Media, TLAPS

LEMMA Contents_ ==
  /\ Absent # Whole /\ Blank # Whole /\ {1} # Whole /\ Blank # Absent /\ {1} # Absent /\ {1} # Blank
  /\ {} # Absent /\ {} \cup {1} = {1} /\ {1} \cup {2} = Whole
  /\ Absent \in Contents /\ Whole \in Contents /\ {} \in Contents /\ {1} \in Contents
BY DEF Absent, Blank, Whole, Contents

LEMMA Members_ ==
  /\ 0 \in Halves /\ 1 \in Halves /\ 2 \in Halves /\ 0 \in Positions /\ 1 \in Positions
  /\ "none" \in Places /\ "part" \in Places /\ "dest" \in Places
  /\ \A v \in AllVerbs : v \in {"bootstrap", "commons", "fetch"}
  /\ "bootstrap" \in AllVerbs /\ "commons" \in AllVerbs /\ "fetch" \in AllVerbs
BY DEF Halves, Places, AllVerbs, Positions

LEMMA NamesType ==
  ASSUME MediaAssumption, TypeOK
  PROVE  /\ \A p \in Pins : \A b : tarball_name(p, b) \in Names
         /\ \A p \in Pins : <<p, "UbuntuLinux", host>> \in Names
         /\ \A p \in Pins, v \in {"bootstrap", "commons", "fetch"} : Wanted(v, p) \subseteq Names
<1>1. \A p \in Pins : \A b : tarball_name(p, b) \in Names
  BY DEF tarball_name, Names, TypeOK
<1>2. \A p \in Pins : <<p, "UbuntuLinux", host>> \in Names /\ <<p, "Linux", "x64">> \in Names
  BY DEF Names, TypeOK
<1> QED BY <1>1, <1>2 DEF Wanted

LEMMA IdleType ==
  ASSUME MediaAssumption
  PROVE  /\ Idle \in Jobs /\ Idle.pc = "idle" /\ Idle.why = "none" /\ Idle.verb = "fetch"
         /\ Idle.own = 1
BY Contents_, Members_ DEF MediaAssumption, Idle, Jobs, Pcs, Whys, Names

(***************************************************************************)
(* What the helpers do to the terminal's state.                            *)
(***************************************************************************)
LEMMA GoFields ==
  ASSUME t \in [Terminals -> Jobs], NEW x \in Terminals, NEW pc \in Pcs, t' = Go(x, pc)
  PROVE  t' \in [Terminals -> Jobs] /\ t'[x] = [t[x] EXCEPT !.pc = pc]
<1>1. [t[x] EXCEPT !.pc = pc] \in Jobs
  BY DEF Jobs
<1>2. t' = [t EXCEPT ![x] = [t[x] EXCEPT !.pc = pc]]
  BY DEF Go
<1> QED BY <1>1, <1>2

LEMMA FailFields ==
  ASSUME t \in [Terminals -> Jobs], NEW x \in Terminals, NEW why \in Whys, Fail(x, why)
  PROVE  t' \in [Terminals -> Jobs] /\ t'[x] = [t[x] EXCEPT !.pc = "idle", !.why = why, !.fd = "none"]
<1>1. [t[x] EXCEPT !.pc = "idle", !.why = why, !.fd = "none"] \in Jobs
  BY Members_ DEF Jobs, Pcs
<1>2. t' = [t EXCEPT ![x] = [t[x] EXCEPT !.pc = "idle", !.why = why, !.fd = "none"]]
  BY DEF Fail
<1> QED BY <1>1, <1>2

LEMMA KindsAt ==
  /\ Len(Kinds("bootstrap")) = 6 /\ Len(Kinds("commons")) = 4 /\ Len(Kinds("fetch")) = 1
  /\ Kinds("bootstrap")[1] = "boxes" /\ Kinds("bootstrap")[2] = "mq" /\ Kinds("bootstrap")[3] = "mq"
  /\ Kinds("bootstrap")[4] = "galaxy" /\ Kinds("bootstrap")[5] = "verify galaxy"
  /\ Kinds("bootstrap")[6] = "provision"
  /\ Kinds("commons")[1] = "boxes" /\ Kinds("commons")[2] = "mq" /\ Kinds("commons")[3] = "galaxy"
  /\ Kinds("commons")[4] = "provision"
  /\ Kinds("fetch")[1] = "mq"
BY DEF Kinds

LEMMA AdvanceFields ==
  ASSUME t \in [Terminals -> Jobs], NEW x \in Terminals, Advance(x), t[x].k \in 1..Len(Kinds(t[x].verb))
  PROVE  /\ t' \in [Terminals -> Jobs]
         /\ \/ /\ t[x].k = Len(Kinds(t[x].verb)) /\ t'[x] = [t[x] EXCEPT !.pc = "idle"]
            \/ /\ t[x].k < Len(Kinds(t[x].verb))
               /\ t'[x] = [t[x] EXCEPT !.pc = "kind", !.k = t[x].k + 1]
<1>0. t[x] \in Jobs
  OBVIOUS
<1>1. Len(Kinds(t[x].verb)) \in {1, 4, 6}
  BY <1>0, KindsAt, Members_ DEF Jobs
<1> DEFINE last == t[x].k = Len(Kinds(t[x].verb))
           j == [t[x] EXCEPT !.pc = IF last THEN "idle" ELSE "kind", !.k = IF last THEN @ ELSE @ + 1]
<1>2. j \in Jobs
  <2>1. (IF last THEN t[x].k ELSE t[x].k + 1) \in Positions
    <3>1. PICK n \in {1, 4, 6} : n = Len(Kinds(t[x].verb))
      BY <1>1
    <3>2. t[x].k \in 1..n
      BY <3>1
    <3>3. \A k \in 1..n : k \in 0..6 /\ (k # n => k + 1 \in 0..6)
      OBVIOUS
    <3>4. CASE last
      BY <3>2, <3>3, <3>4 DEF Positions
    <3>5. CASE ~last
      BY <3>1, <3>2, <3>3, <3>5 DEF Positions
    <3> QED BY <3>4, <3>5
  <2>2. (IF last THEN "idle" ELSE "kind") \in Pcs
    BY DEF Pcs
  <2>3. j = [t[x] EXCEPT !.pc = IF last THEN "idle" ELSE "kind", !.k = IF last THEN t[x].k ELSE t[x].k + 1]
    BY <1>0 DEF Jobs
  <2> HIDE DEF j, last
  <2> QED BY <1>0, <2>1, <2>2, <2>3 DEF Jobs
<1>3. t' = [t EXCEPT ![x] = j]
  BY <1>0 DEF Advance
<1>4. t'[x] = j /\ t' \in [Terminals -> Jobs]
  BY <1>2, <1>3
<1>5. CASE last
  BY <1>0, <1>4, <1>5 DEF Jobs
<1>6. CASE ~last
  BY <1>0, <1>1, <1>4, <1>6 DEF Jobs
<1> QED BY <1>4, <1>5, <1>6

----------------------------------------------------------------------------
LEMMA InitInv == MediaAssumption /\ Init => MediaInv
<1> SUFFICES ASSUME MediaAssumption, Init PROVE MediaInv
  OBVIOUS
<1>1. PICK kept \in BOOLEAN :
         /\ bin = [p \in Pins |-> [sdk |-> IF kept /\ p = 1 THEN 1 ELSE 0, whole |-> kept /\ p = 1]]
         /\ box = [b \in Boxes |-> [mq |-> IF kept THEN 1 ELSE 0, whole |-> TRUE,
                                    sdk |-> IF kept /\ b = "mq-client" THEN 1 ELSE 0]]
  BY DEF Init
<1>2. TypeOK
  <2>1. bin \in [Pins -> [sdk : Pins \cup {0}, whole : BOOLEAN]]
    <3>1. \A p \in Pins : (kept /\ p = 1) \in BOOLEAN
      OBVIOUS
    <3> QED BY <1>1, <3>1 DEF MediaAssumption
  <2>2. box \in [Boxes -> [mq : Pins \cup {0}, sdk : Pins \cup {0}, whole : BOOLEAN]]
    BY <1>1 DEF MediaAssumption
  <2>3. t \in [Terminals -> Jobs]
    BY IdleType DEF Init
  <2>4. /\ part \in [Names -> Contents] /\ dest \in [Names -> Contents]
        /\ sidecar \in [Names -> Contents \cup {Blank}]
    BY Contents_ DEF Init
  <2>5. /\ host \in {"x64", "arm64"} /\ family \in {"ubuntu", "rhel"}
        /\ pin \in Pins /\ runs \in 0..MaxRuns /\ faults \in 0..MaxFaults
        /\ reqs \subseteq Collections /\ installed \subseteq Collections /\ short \subseteq Names
    BY DEF Init, MediaAssumption, Collections
  <2> QED BY <2>1, <2>2, <2>3, <2>4, <2>5 DEF TypeOK
<1>3. CacheInv
  BY DEF Init, CacheInv
<1>4. JobsInv
  <2> SUFFICES ASSUME NEW x \in Terminals PROVE Fetched(t[x]) /\ Gathered(t[x]) /\ Verified(t[x])
    BY DEF JobsInv
  <2>1. t[x].pc = "idle" /\ t[x].why = "none" /\ t[x].verb = "fetch" /\ t[x].own = 1 /\ pin = 1
    BY IdleType DEF Init
  <2> QED BY <2>1 DEF Fetched, Gathered, Verified, FetchPcs
<1>5. ExporterInv
  BY <1>1 DEF ExporterInv
<1>6. HandedWhole /\ OutInv
  BY DEF Init, HandedWhole, OutInv
<1>7. ExporterMatches
  <2>1. "mq-client" \in Boxes
    BY DEF Boxes, BoxOf, Nodes
  <2> QED BY <1>1, <2>1 DEF ExporterMatches
<1> QED BY <1>2, <1>3, <1>4, <1>5, <1>6, <1>7 DEF MediaInv

----------------------------------------------------------------------------
(***************************************************************************)
(* The job of the one terminal is all there is to show about the jobs.     *)
(***************************************************************************)
JobInv(j) == Fetched(j) /\ Gathered(j) /\ Verified(j)

LEMMA OneJob ==
  ASSUME OneTerminal, NEW x \in Terminals, JobInv(t[x])'
  PROVE  JobsInv'
BY DEF OneTerminal, JobsInv, JobInv

\* Nothing a step may change alters what a verb wants.
LEMMA WantedKept ==
  ASSUME UNCHANGED <<host, family>>
  PROVE  \A v, p : Wanted(v, p)' = Wanted(v, p)
BY DEF Wanted, tarball_name

Steps(v) == 1..Len(Kinds(v))

LEMMA KindsFacts ==
  ASSUME NEW v \in {"bootstrap", "commons", "fetch"}, NEW k \in Steps(v)
  PROVE  /\ Kinds(v)[k] = "provision" => MqBefore(v, k) /\ v # "fetch"
         /\ v = "bootstrap" /\ k < Len(Kinds(v)) /\ Kinds(v)[k + 1] = "provision" => Kinds(v)[k] = "verify galaxy"
         /\ ~MqBefore(v, 1)
         /\ k < Len(Kinds(v)) => k + 1 \in 1..Len(Kinds(v))
<1> USE DEF Steps
<1>0. /\ v = "bootstrap" => k \in {1, 2, 3, 4, 5, 6}
      /\ v = "commons" => k \in {1, 2, 3, 4}
      /\ v = "fetch" => k = 1
  <2>1. ASSUME v = "bootstrap" PROVE k \in {1, 2, 3, 4, 5, 6}
    <3>1. k \in 1..6
      BY <2>1, KindsAt
    <3> QED BY <3>1
  <2>2. ASSUME v = "commons" PROVE k \in {1, 2, 3, 4}
    <3>1. k \in 1..4
      BY <2>2, KindsAt
    <3> QED BY <3>1
  <2>3. ASSUME v = "fetch" PROVE k = 1
    <3>1. k \in 1..1
      BY <2>3, KindsAt
    <3> QED BY <3>1
  <2> QED BY <2>1, <2>2, <2>3
<1>1. Kinds(v)[k] = "provision" => MqBefore(v, k) /\ v # "fetch"
  <2> SUFFICES ASSUME Kinds(v)[k] = "provision" PROVE MqBefore(v, k) /\ v # "fetch"
    OBVIOUS
  <2>1. k \in {4, 6} /\ v # "fetch" /\ Kinds(v)[2] = "mq"
    BY <1>0, KindsAt
  <2>2. 2 \in 1..(k - 1)
    BY <2>1
  <2> QED BY <2>1, <2>2 DEF MqBefore
<1>2. v = "bootstrap" /\ k < Len(Kinds(v)) /\ Kinds(v)[k + 1] = "provision" => Kinds(v)[k] = "verify galaxy"
  <2> SUFFICES ASSUME v = "bootstrap", k < Len(Kinds(v)), Kinds(v)[k + 1] = "provision"
               PROVE  Kinds(v)[k] = "verify galaxy"
    OBVIOUS
  <2>1. k \in {1, 2, 3, 4, 5}
    <3>1. Len(Kinds(v)) = 6 /\ k \in {1, 2, 3, 4, 5, 6}
      BY <1>0, KindsAt
    <3> QED BY <3>1
  <2>2. k = 5
    <3>1. k = 1 => k + 1 = 2
      OBVIOUS
    <3>2. k = 2 => k + 1 = 3
      OBVIOUS
    <3>3. k = 3 => k + 1 = 4
      OBVIOUS
    <3>4. k = 4 => k + 1 = 5
      OBVIOUS
    <3> QED BY <2>1, <3>1, <3>2, <3>3, <3>4, KindsAt
  <2> QED BY <2>2, KindsAt
<1>3. ~MqBefore(v, 1)
  BY DEF MqBefore
<1>4. k < Len(Kinds(v)) => k + 1 \in 1..Len(Kinds(v))
  <2>0. Len(Kinds(v)) \in {1, 4, 6}
    BY KindsAt
  <2>1. Len(Kinds(v)) \in Int
    BY <2>0
  <2>2. \A i, n \in Int : i \in 1..n /\ i < n => i + 1 \in 1..n
    OBVIOUS
  <2> QED BY <1>0, <2>1, <2>2
<1> QED BY <1>1, <1>2, <1>3, <1>4

LEMMA KindsVerify ==
  ASSUME NEW k \in Steps("bootstrap"), k < Len(Kinds("bootstrap")), Kinds("bootstrap")[k + 1] = "provision"
  PROVE  Kinds("bootstrap")[k] = "verify galaxy"
BY KindsFacts

LEMMA KindsMq ==
  ASSUME NEW v \in {"bootstrap", "commons", "fetch"}, NEW k \in Steps(v), MqBefore(v, k + 1)
  PROVE  MqBefore(v, k) \/ Kinds(v)[k] = "mq"
<1>1. k \in Int
  BY DEF Steps
<1>2. \A i \in 1..((k + 1) - 1) : i \in 1..(k - 1) \/ i = k
  BY <1>1
<1> QED BY <1>2 DEF MqBefore

----------------------------------------------------------------------------
\* Only a terminal that is in a verb stands at one of its kinds.
LEMMA AtKind ==
  ASSUME TypeOK, JobsInv, NEW x \in Terminals
  PROVE  /\ t[x] \in Jobs /\ t[x].verb \in {"bootstrap", "commons", "fetch"} /\ t[x].own \in Pins
         /\ t[x].name \in Names
         /\ t[x].pc # "idle" => t[x].k \in 1..Len(Kinds(t[x].verb))
         /\ JobInv(t[x])
BY Members_ DEF TypeOK, JobsInv, JobInv, Gathered, Jobs

LEMMA TypeStep ==
  ASSUME MediaAssumption, TypeOK, JobsInv, [Next]_vars
  PROVE  TypeOK'
<1>0. t \in [Terminals -> Jobs]
  BY DEF TypeOK
<1>1. ASSUME NEW x \in Terminals, NEW v \in Verbs, Begin(x, v)
      PROVE  TypeOK'
  <2> DEFINE j == [Idle EXCEPT !.pc = "kind", !.verb = v, !.own = pin, !.k = 1]
  <2>1. j \in Jobs
    <3>1. pin \in Pins /\ v \in {"bootstrap", "commons", "fetch"}
      BY DEF TypeOK, MediaAssumption
    <3>2. v \in AllVerbs /\ "kind" \in Pcs
      BY <3>1, Members_ DEF Pcs
    <3> QED BY <3>1, <3>2, IdleType, Members_ DEF Jobs
  <2>2. t' = [t EXCEPT ![x] = j]
    BY <1>1 DEF Begin
  <2>3. t' \in [Terminals -> Jobs]
    BY <1>0, <2>1, <2>2
  <2> QED BY <1>1, <2>3 DEF Begin, TypeOK, MediaAssumption
<1>2. ASSUME NEW x \in Terminals, MissingNames(x)
      PROVE  TypeOK'
  <2> DEFINE w == Wanted(t[x].verb, t[x].own)
  <2>1. w \in SUBSET Names
    BY AtKind, NamesType
  <2>2. t' = [t EXCEPT ![x] = [t[x] EXCEPT !.pc = "names", !.todo = w]]
    BY <1>0, <1>2 DEF MissingNames
  <2> HIDE DEF w
  <2>3. [t[x] EXCEPT !.pc = "names", !.todo = w] \in Jobs
    BY <1>0, <2>1 DEF Jobs, Pcs
  <2>4. t' \in [Terminals -> Jobs]
    BY <1>0, <2>2, <2>3
  <2> QED BY <1>2, <2>4 DEF MissingNames, TypeOK
<1>3. ASSUME NEW x \in Terminals, Acquire(x)
      PROVE  TypeOK'
  <2>1. CASE t[x].todo = {}
    BY <1>0, <1>3, <2>1, AtKind, AdvanceFields DEF Acquire, TypeOK
  <2>2. CASE t[x].todo # {}
    <3> DEFINE n == CHOOSE m \in t[x].todo : \A o \in t[x].todo : m[2] = "Linux" \/ o[2] # "Linux"
    <3>1. n \in t[x].todo
      <4>1. \E m \in t[x].todo : \A o \in t[x].todo : m[2] = "Linux" \/ o[2] # "Linux"
        BY <2>2
      <4> QED BY <4>1
    <3> DEFINE pc == IF dest[n] = Absent THEN "open" ELSE "verify"
    <3>2. t' = [t EXCEPT ![x] = [t[x] EXCEPT !.name = n, !.todo = @ \ {n}, !.half = 0, !.pc = pc]]
      BY <1>0, <1>3, <2>2 DEF Acquire
    <3>3. pc \in Pcs
      BY DEF Pcs
    <3> HIDE DEF n, pc
    <3>4. [t[x] EXCEPT !.name = n, !.todo = @ \ {n}, !.half = 0, !.pc = pc] \in Jobs
      BY <1>0, <3>1, <3>3, Members_ DEF Jobs
    <3>5. t' \in [Terminals -> Jobs]
      BY <1>0, <3>2, <3>4
    <3> QED BY <1>3, <3>5 DEF Acquire, TypeOK
  <2> QED BY <2>1, <2>2
<1>4. ASSUME NEW x \in Terminals, Open(x)
      PROVE  TypeOK'
  <2>1. t' = [t EXCEPT ![x] = [t[x] EXCEPT !.pc = "write", !.half = 1, !.fd = "part"]]
    BY <1>0, <1>4 DEF Open
  <2>a. [t[x] EXCEPT !.pc = "write", !.half = 1, !.fd = "part"] \in Jobs
    <3>1. "write" \in Pcs /\ 1 \in Halves /\ "part" \in Places /\ t[x] \in Jobs
      BY <1>0, Members_ DEF Pcs
    <3> QED BY <3>1 DEF Jobs
  <2>2. t' \in [Terminals -> Jobs]
    BY <1>0, <2>1, <2>a
  <2>3. part' \in [Names -> Contents]
    BY <1>4, AtKind, Contents_ DEF Open, TypeOK
  <2> QED BY <1>4, <2>2, <2>3 DEF Open, TypeOK
<1>5. ASSUME NEW x \in Terminals, Write(x)
      PROVE  TypeOK'
  <2> DEFINE pc == IF t[x].half = 2 THEN "rename" ELSE "write"
  <2>1. t' = [t EXCEPT ![x] = [t[x] EXCEPT !.pc = pc, !.half = 2]]
    BY <1>0, <1>5 DEF Write
  <2>2. pc \in Pcs
    BY DEF Pcs
  <2> HIDE DEF pc
  <2>a. [t[x] EXCEPT !.pc = pc, !.half = 2] \in Jobs
    <3>1. 2 \in Halves /\ t[x] \in Jobs
      BY <1>0, Members_
    <3> QED BY <2>2, <3>1 DEF Jobs
  <2>3. t' \in [Terminals -> Jobs]
    BY <1>0, <2>1, <2>a
  <2>4. part' \in [Names -> Contents] /\ dest' = dest
    <3>1. /\ t[x].pc = "write" /\ t[x].fd = "part"
          /\ (t[x].half = 1 /\ part[t[x].name] = {}) \/ (t[x].half = 2 /\ part[t[x].name] = {1})
      BY <1>5, AtKind DEF Write, JobInv, Fetched
    <3>2. part' = [part EXCEPT ![t[x].name] = @ \cup {t[x].half}] /\ dest' = dest
      BY <1>5, <3>1 DEF Write
    <3>3. part[t[x].name] \cup {t[x].half} \in Contents
      BY <3>1, Contents_
    <3> QED BY <3>2, <3>3 DEF TypeOK
  <2> QED BY <1>5, <2>3, <2>4 DEF Write, TypeOK
<1>6. ASSUME NEW x \in Terminals, Rename(x)
      PROVE  TypeOK'
  <2>1. CASE part[t[x].name] = Absent
    <3>1. Fail(x, "lost part")
      BY <1>6, <2>1 DEF Rename
    <3>2. t' \in [Terminals -> Jobs]
      BY <1>0, <3>1, FailFields DEF Whys
    <3> QED BY <1>6, <2>1, <3>2 DEF Rename, TypeOK
  <2>2. CASE part[t[x].name] # Absent
    <3>1. dest' \in [Names -> Contents] /\ part' \in [Names -> Contents]
      BY <1>6, <2>2, AtKind, Contents_ DEF Rename, TypeOK
    <3> DEFINE moved(y) == [t[y] EXCEPT !.fd = CASE @ = "part" -> "dest" [] @ = "dest" -> "none" [] OTHER -> @]
    <3>2. [t[x] EXCEPT !.pc = "verify", !.fd = "none"] \in Jobs
      BY <1>0, Members_ DEF Jobs, Pcs
    <3>3. \A y \in Terminals : moved(y) \in Jobs
      BY <1>0 DEF Jobs, Places
    <3>4. t' = [y \in Terminals |-> IF y = x THEN [t[x] EXCEPT !.pc = "verify", !.fd = "none"]
                                     ELSE IF t[y].name # t[x].name THEN t[y] ELSE moved(y)]
      BY <1>6, <2>2 DEF Rename
    <3> HIDE DEF moved
    <3>5. t' \in [Terminals -> Jobs]
      BY <1>0, <3>2, <3>3, <3>4
    <3> QED BY <1>6, <3>1, <3>5 DEF Rename, TypeOK
  <2> QED BY <2>1, <2>2
<1>7. ASSUME NEW x \in Terminals, Verify(x)
      PROVE  TypeOK'
  <2>1. t' = Go(x, "names") \/ Fail(x, "mismatch")
    BY <1>7 DEF Verify
  <2>2. t' \in [Terminals -> Jobs]
    BY <1>0, <2>1, GoFields, FailFields DEF Pcs, Whys
  <2> QED BY <1>7, <2>2 DEF Verify, TypeOK
<1>8. ASSUME NEW x \in Terminals, Hash(x)
      PROVE  TypeOK'
  <2>1. t' = [t EXCEPT ![x] = [t[x] EXCEPT !.pc = "mark", !.digest = dest[t[x].name]]]
    BY <1>0, <1>8 DEF Hash
  <2>2. dest[t[x].name] \in Contents
    BY AtKind DEF TypeOK
  <2>a. [t[x] EXCEPT !.pc = "mark", !.digest = dest[t[x].name]] \in Jobs
    BY <1>0, <2>2 DEF Jobs, Pcs
  <2>3. t' \in [Terminals -> Jobs]
    BY <1>0, <2>1, <2>a
  <2> QED BY <1>8, <2>3 DEF Hash, TypeOK
<1>9. ASSUME NEW x \in Terminals, Mark(x)
      PROVE  TypeOK'
  <2>1. t' \in [Terminals -> Jobs]
    BY <1>0, <1>9, GoFields DEF Mark, Pcs
  <2> QED BY <1>9, <2>1, AtKind DEF Mark, TypeOK
<1>10. ASSUME NEW x \in Terminals, Record(x)
       PROVE  TypeOK'
  <2>1. t' = Go(x, "verify") \/ t' = Go(x, "names")
    BY <1>10 DEF Record, Recorded
  <2>2. t' \in [Terminals -> Jobs]
    BY <1>0, <2>1, GoFields DEF Pcs
  <2>3. sidecar' \in [Names -> Contents \cup {Blank}]
    BY <1>10, AtKind DEF Record, TypeOK, Jobs
  <2> QED BY <1>10, <2>2, <2>3 DEF Record, TypeOK
<1>11. ASSUME NEW x \in Terminals, Exporter(x)
       PROVE  TypeOK'
  <2>1. t' = Go(x, "bake") \/ Fail(x, "absent") \/ Fail(x, "torn") \/ t' = Go(x, "link")
    BY <1>11 DEF Exporter
  <2>2. t' \in [Terminals -> Jobs]
    BY <1>0, <2>1, GoFields, FailFields DEF Pcs, Whys
  <2>3. bin' = bin \/ bin' = [bin EXCEPT ![t[x].own] = [sdk |-> t[x].own, whole |-> FALSE]]
    BY <1>11 DEF Exporter, exporter_binary_path
  <2>4. bin' \in [Pins -> [sdk : Pins \cup {0}, whole : BOOLEAN]]
    <3>1. t[x].own \in Pins /\ bin \in [Pins -> [sdk : Pins \cup {0}, whole : BOOLEAN]]
      BY AtKind DEF TypeOK
    <3>2. [sdk |-> t[x].own, whole |-> FALSE] \in [sdk : Pins \cup {0}, whole : BOOLEAN]
      BY <3>1
    <3> QED BY <2>3, <3>1, <3>2
  <2> QED BY <1>11, <2>2, <2>4 DEF Exporter, TypeOK
<1>12. ASSUME NEW x \in Terminals, Link(x)
       PROVE  TypeOK'
  <2>1. t' \in [Terminals -> Jobs]
    BY <1>0, <1>12, GoFields DEF Link, Pcs
  <2>2. bin' \in [Pins -> [sdk : Pins \cup {0}, whole : BOOLEAN]]
    BY <1>12 DEF Link, TypeOK, exporter_binary_path
  <2> QED BY <1>12, <2>1, <2>2 DEF Link, TypeOK
<1>13. ASSUME NEW x \in Terminals, Bake(x)
       PROVE  TypeOK'
  <2>1. Advance(x) \/ Fail(x, "absent") \/ Fail(x, "torn") \/ t' = t
    BY <1>13 DEF Bake
  <2>2. t' \in [Terminals -> Jobs]
    <3>1. t[x].pc # "idle"
      BY <1>13 DEF Bake
    <3>2. Advance(x) => t' \in [Terminals -> Jobs]
      BY <1>0, <3>1, AtKind, AdvanceFields
    <3>3. Fail(x, "absent") \/ Fail(x, "torn") => t' \in [Terminals -> Jobs]
      BY <1>0, FailFields DEF Whys
    <3> QED BY <1>0, <2>1, <3>2, <3>3
  <2> DEFINE new(b) == IF b = "mq-client" THEN [mq |-> pin, sdk |-> bin[pin].sdk, whole |-> bin[pin].whole]
                       ELSE [mq |-> pin, sdk |-> 0, whole |-> TRUE]
  <2>3. box' = box \/ \E b \in Boxes : box' = [box EXCEPT ![b] = new(b)]
    <3>1. \A b : b \in {BoxOf(g) : g \in Guests(t[x].verb)} => b \in Boxes
      BY DEF Guests, Commons, Boxes
    <3> QED BY <1>13, <3>1 DEF Bake, exporter_binary_path
  <2>4. \A b : new(b) \in [mq : Pins \cup {0}, sdk : Pins \cup {0}, whole : BOOLEAN]
    <3>1. bin[pin] \in [sdk : Pins \cup {0}, whole : BOOLEAN] /\ pin \in Pins
      BY DEF TypeOK
    <3> QED BY <3>1
  <2> HIDE DEF new
  <2>5. box' \in [Boxes -> [mq : Pins \cup {0}, sdk : Pins \cup {0}, whole : BOOLEAN]]
    BY <2>3, <2>4 DEF TypeOK
  <2> QED BY <1>13, <2>2, <2>5 DEF Bake, TypeOK
<1>14. ASSUME NEW x \in Terminals, Galaxy(x) \/ verify_galaxy_collections(x) \/ Provision(x)
       PROVE  TypeOK'
  <2>1. t[x].pc # "idle"
    BY <1>14 DEF Galaxy, verify_galaxy_collections, Provision
  <2>2. Advance(x) \/ Fail(x, "missing collections") \/ Fail(x, "no media") \/ Fail(x, "done")
        \/ Fail(x, "done broken")
    BY <1>14 DEF Galaxy, verify_galaxy_collections, Provision
  <2>3. t' \in [Terminals -> Jobs]
    BY <1>0, <2>1, <2>2, AtKind, AdvanceFields, FailFields DEF Whys
  <2>4. installed' \subseteq Collections
    BY <1>14 DEF Galaxy, verify_galaxy_collections, Provision, TypeOK
  <2> QED BY <1>14, <2>3, <2>4 DEF Galaxy, verify_galaxy_collections, Provision, TypeOK
<1>15. ASSUME NEW x \in Terminals, Kill(x) \/ Reset(x)
       PROVE  TypeOK'
  <2>1. Fail(x, "killed") \/ Fail(x, "reset")
    BY <1>15 DEF Kill, Reset
  <2>2. t' \in [Terminals -> Jobs]
    BY <1>0, <2>1, FailFields DEF Whys
  <2> QED BY <1>15, <2>2 DEF Kill, Reset, Fault, TypeOK, MediaAssumption
<1>19. ASSUME NEW x \in Terminals, EndsShort(x)
       PROVE  TypeOK'
  <2>1. t' \in [Terminals -> Jobs]
    BY <1>0, <1>19, GoFields DEF EndsShort, Pcs
  <2>2. short' \subseteq Names
    BY <1>19, AtKind DEF EndsShort, TypeOK
  <2> QED BY <1>19, <2>1, <2>2 DEF EndsShort, Fault, TypeOK, MediaAssumption
<1>16. ASSUME NEW n \in Names, Rot(n) \/ HandPlace(n)
       PROVE  TypeOK'
  <2>1. dest' \in [Names -> Contents] /\ short' \subseteq Names
    <3>1. CASE Rot(n)
      BY <3>1, Contents_ DEF Rot, TypeOK
    <3>2. CASE HandPlace(n)
      <4>1. PICK h \in {Whole, {1}} : /\ dest' = [dest EXCEPT ![n] = h]
                                      /\ short' = IF h = Whole THEN short ELSE short \cup {n}
        BY <3>2 DEF HandPlace
      <4>2. h \in Contents
        BY Contents_
      <4> QED BY <4>1, <4>2 DEF TypeOK
    <3> QED BY <1>16, <3>1, <3>2
  <2>2. faults' \in 0..MaxFaults
    BY <1>16 DEF Rot, HandPlace, Fault, TypeOK, MediaAssumption
  <2> QED BY <1>16, <2>1, <2>2 DEF Rot, HandPlace, TypeOK
<1>17. CASE Bump \/ Require
  BY <1>17 DEF Bump, Require, Fault, TypeOK, MediaAssumption
<1>18. CASE UNCHANGED vars
  BY <1>18 DEF vars, TypeOK
<1> QED
  BY <1>1, <1>2, <1>3, <1>4, <1>5, <1>6, <1>7, <1>8, <1>9, <1>10, <1>11, <1>12, <1>13, <1>14,
     <1>15, <1>16, <1>17, <1>18, <1>19 DEF Next

----------------------------------------------------------------------------
(* What a step may do to the cached files. *)
LEMMA CacheStep ==
  ASSUME MediaAssumption, TypeOK, CacheInv, JobsInv, [Next]_vars
  PROVE  CacheInv' /\ \A n \in Names : dest[n] # Absent => dest'[n] # Absent
<1> DEFINE Kept == CacheInv' /\ \A n \in Names : dest[n] # Absent => dest'[n] # Absent
<1>0. dest \in [Names -> Contents] /\ sidecar \in [Names -> Contents \cup {Blank}]
  BY DEF TypeOK
<1>1. ASSUME UNCHANGED <<dest, sidecar>>, short \subseteq short' PROVE Kept
  BY <1>1 DEF CacheInv
<1>2. ASSUME NEW x \in Terminals, Write(x)
      PROVE  Kept
  <2>1. t[x].fd = "part"
    BY <1>2, AtKind DEF Write, JobInv, Fetched
  <2> QED BY <1>1, <1>2, <2>1 DEF Write
<1>3. ASSUME NEW x \in Terminals, Rename(x)
      PROVE  Kept
  <2>1. /\ t[x].name \in Names /\ sidecar[t[x].name] = Absent
        /\ part[t[x].name] = Whole \/ (part[t[x].name] = {1} /\ t[x].name \in short)
    BY <1>3, AtKind DEF Rename, JobInv, Fetched
  <2>2. dest' = [dest EXCEPT ![t[x].name] = part[t[x].name]] /\ sidecar' = sidecar /\ short' = short
    BY <1>3, <2>1, Contents_ DEF Rename
  <2> QED BY <1>0, <2>1, <2>2, Contents_ DEF CacheInv
<1>4. ASSUME NEW x \in Terminals, Mark(x)
      PROVE  Kept
  <2>1. t[x].name \in Names /\ sidecar[t[x].name] = Absent /\ dest[t[x].name] # Absent
    BY <1>4, AtKind DEF Mark, JobInv, Fetched
  <2>2. dest' = dest /\ sidecar' = [sidecar EXCEPT ![t[x].name] = Blank] /\ short' = short
    BY <1>4 DEF Mark
  <2> QED BY <1>0, <2>1, <2>2, Contents_ DEF CacheInv
<1>5. ASSUME NEW x \in Terminals, Record(x)
      PROVE  Kept
  <2>1. /\ t[x].name \in Names /\ t[x].digest = dest[t[x].name] /\ dest[t[x].name] # Absent
        /\ sidecar[t[x].name] = Blank
    BY <1>5, AtKind DEF Record, JobInv, Fetched
  <2>2. dest' = dest /\ sidecar' = [sidecar EXCEPT ![t[x].name] = dest[t[x].name]] /\ short' = short
    BY <1>5, <2>1 DEF Record
  <2> QED BY <1>0, <2>1, <2>2, Contents_ DEF CacheInv
<1>6. ASSUME NEW n \in Names, Rot(n)
      PROVE  Kept
  BY <1>0, <1>6, Contents_ DEF Rot, CacheInv
<1>7. ASSUME NEW n \in Names, HandPlace(n)
      PROVE  Kept
  <2>1. PICK h \in {Whole, {1}} : /\ dest' = [dest EXCEPT ![n] = h]
                                  /\ short' = IF h = Whole THEN short ELSE short \cup {n}
    BY <1>7 DEF HandPlace
  <2>2. dest[n] = Absent /\ sidecar[n] = Absent /\ sidecar' = sidecar /\ short \subseteq short'
    BY <1>7, <2>1 DEF HandPlace, CacheInv
  <2>3. h = {1} => n \in short'
    BY <2>1, Contents_
  <2> QED BY <1>0, <2>1, <2>2, <2>3, Contents_ DEF CacheInv
<1>9. ASSUME NEW x \in Terminals, EndsShort(x)
      PROVE  Kept
  BY <1>1, <1>9 DEF EndsShort
<1> HIDE DEF Kept
<1>8. Kept
  BY <1>1, <1>2, <1>3, <1>4, <1>5, <1>6, <1>7, <1>9
  DEF Next, vars, Begin, MissingNames, Acquire, Open, Verify, Hash, Exporter, Link, Bake, Galaxy,
      verify_galaxy_collections, Provision, Kill, Reset, Bump, Require
<1> QED BY <1>8 DEF Kept

----------------------------------------------------------------------------
(***************************************************************************)
(* A step of the terminal that moves its verb forward or ends it, and      *)
(* neither loses a cached file nor moves the pin.                          *)
(***************************************************************************)
Quiet ==
  /\ UNCHANGED <<host, family, pin>>
  /\ \A n \in Names : dest[n] # Absent => dest'[n] # Absent

\* A verb that ends asks for nothing any more, but for why it ended.
LEMMA FailKeeps ==
  ASSUME MediaAssumption, TypeOK, JobsInv, Quiet, NEW x \in Terminals, NEW why \in Whys, Fail(x, why),
         why = "mismatch" => sidecar'[t[x].name] = Blank \/ dest'[t[x].name] = {1},
         why = "no media" => t[x].own # pin,
         why = "done broken" => t[x].verb = "commons"
  PROVE  JobInv(t[x])'
<1>1. t'[x] = [t[x] EXCEPT !.pc = "idle", !.why = why, !.fd = "none"] /\ t[x] \in Jobs
  BY FailFields DEF TypeOK
<1>2. /\ t'[x].pc = "idle" /\ t'[x].why = why /\ t'[x].name = t[x].name /\ t'[x].own = t[x].own
      /\ t'[x].verb = t[x].verb
  BY <1>1 DEF Jobs
<1>3. t[x].own <= pin /\ t[x].verb \in Verbs \cup {"fetch"}
  BY DEF JobsInv, Gathered, Verified
<1> QED BY <1>2, <1>3 DEF JobInv, Fetched, Gathered, Verified, FetchPcs, Quiet

\* On to the next kind: what was asked of this one is done.
LEMMA AdvanceKeeps ==
  ASSUME MediaAssumption, TypeOK, JobsInv, Quiet, NEW x \in Terminals, Advance(x), t[x].pc # "idle",
         At(x) = "mq" => \A n \in Wanted(t[x].verb, t[x].own) : dest[n] # Absent,
         At(x) = "verify galaxy" => reqs' \subseteq installed'
  PROVE  JobInv(t[x])'
<1> DEFINE j == t[x]
<1>0. /\ j \in Jobs /\ j.verb \in {"bootstrap", "commons", "fetch"} /\ j.own \in Pins
      /\ j.k \in 1..Len(Kinds(j.verb)) /\ JobInv(j)
  BY AtKind
<1>1. j.own <= pin /\ j.verb \in Verbs \cup {"fetch"} /\ j.why = "none"
  BY <1>0 DEF JobInv, Gathered, Verified
<1>2. \A v, p : Wanted(v, p)' = Wanted(v, p)
  BY WantedKept DEF Quiet
<1>3. CASE t'[x] = [t[x] EXCEPT !.pc = "idle"]
  <2>1. /\ t'[x].pc = "idle" /\ t'[x].why = "none" /\ t'[x].own = j.own /\ t'[x].verb = j.verb
    BY <1>0, <1>1, <1>3 DEF Jobs
  <2> QED BY <1>1, <2>1 DEF JobInv, Fetched, Gathered, Verified, FetchPcs, Quiet
<1>4. CASE j.k < Len(Kinds(j.verb)) /\ t'[x] = [t[x] EXCEPT !.pc = "kind", !.k = j.k + 1]
  <2>1. /\ t'[x].pc = "kind" /\ t'[x].why = "none" /\ t'[x].own = j.own /\ t'[x].verb = j.verb
        /\ t'[x].k = j.k + 1
    BY <1>0, <1>1, <1>4 DEF Jobs
  <2>a. /\ Kinds(j.verb)[j.k] = "mq" => \A n \in Wanted(j.verb, j.own) : dest[n] # Absent
        /\ Kinds(j.verb)[j.k] = "verify galaxy" => reqs' \subseteq installed'
        /\ j.pc # "idle"
    BY DEF At
  <2>v. PICK v \in {"bootstrap", "commons", "fetch"} : v = j.verb
    BY <1>0
  <2>p. PICK k \in Steps(v) : k = j.k
    BY <1>0, <2>v DEF Steps
  <2>q1. v = "bootstrap" /\ k < Len(Kinds(v)) /\ Kinds(v)[k + 1] = "provision" => Kinds(v)[k] = "verify galaxy"
    BY KindsVerify
  <2>q2. MqBefore(v, k + 1) => MqBefore(v, k) \/ Kinds(v)[k] = "mq"
    BY KindsMq
  <2>q3. k < Len(Kinds(v)) => k + 1 \in 1..Len(Kinds(v))
    BY KindsFacts, Zenon
  <2>q. /\ v = "bootstrap" /\ k < Len(Kinds(v)) /\ Kinds(v)[k + 1] = "provision" => Kinds(v)[k] = "verify galaxy"
        /\ MqBefore(v, k + 1) => MqBefore(v, k) \/ Kinds(v)[k] = "mq"
        /\ k < Len(Kinds(v)) => k + 1 \in 1..Len(Kinds(v))
    BY <2>q1, <2>q2, <2>q3
  <2>2. j.k + 1 \in 1..Len(Kinds(j.verb))
    BY <1>4, <2>v, <2>p, <2>q
  <2>3. MqBefore(j.verb, j.k + 1) => \A n \in Wanted(j.verb, j.own) : dest'[n] # Absent
    <3>2. MqBefore(j.verb, j.k + 1) => \A n \in Wanted(j.verb, j.own) : dest[n] # Absent
      BY <1>0, <2>a, <2>v, <2>p, <2>q DEF JobInv, Gathered
    <3>3. Wanted(j.verb, j.own) \subseteq Names
      BY <1>0, NamesType
    <3> QED BY <3>2, <3>3 DEF Quiet
  <2>4. j.verb = "bootstrap" /\ Kinds(j.verb)[j.k + 1] = "provision" => reqs' \subseteq installed'
    BY <1>4, <2>a, <2>v, <2>p, <2>q
  <2> QED BY <1>1, <1>2, <2>1, <2>2, <2>3, <2>4 DEF JobInv, Fetched, Gathered, Verified, FetchPcs, Quiet, MqBefore
<1> QED BY <1>0, <1>3, <1>4, AdvanceFields DEF TypeOK

\* Within the tarballs: what was dealt with is there.
LEMMA MqMoves ==
  ASSUME MediaAssumption, TypeOK, JobsInv, Quiet, NEW x \in Terminals, t[x].pc # "idle", At(x) = "mq",
         t'[x].pc \in {"names"} \cup FetchPcs, t'[x].verb = t[x].verb, t'[x].own = t[x].own,
         t'[x].k = t[x].k, t'[x].why = t[x].why,
         \A n \in Wanted(t[x].verb, t[x].own) :
            n \in t'[x].todo \/ (t'[x].pc # "names" /\ n = t'[x].name) \/ dest'[n] # Absent
  PROVE  Gathered(t[x])' /\ Verified(t[x])'
<1>0. /\ t[x].verb \in {"bootstrap", "commons", "fetch"} /\ t[x].own \in Pins
      /\ t[x].k \in 1..Len(Kinds(t[x].verb)) /\ JobInv(t[x])
  BY AtKind
<1>1. \A v, p : Wanted(v, p)' = Wanted(v, p)
  BY WantedKept DEF Quiet
<1>2. t[x].own <= pin /\ t[x].why = "none" /\ t[x].verb \in Verbs \cup {"fetch"}
  BY <1>0 DEF JobInv, Gathered, Verified
<1>3. t'[x].pc # "idle" /\ t'[x].pc # "kind" /\ t'[x].pc \notin {"link", "bake"}
  BY DEF FetchPcs
<1>4. MqBefore(t[x].verb, t[x].k) => \A n \in Wanted(t[x].verb, t[x].own) : dest'[n] # Absent
  <2>1. MqBefore(t[x].verb, t[x].k) => \A n \in Wanted(t[x].verb, t[x].own) : dest[n] # Absent
    BY <1>0 DEF JobInv, Gathered
  <2> QED BY <1>0, <2>1, NamesType DEF Quiet
<1>5. Verified(t[x])'
  BY <1>2, <1>3 DEF Verified
<1>6. Gathered(t[x])'
  <2>1. MqBefore(t[x].verb, t[x].k)' = MqBefore(t[x].verb, t[x].k)
    BY DEF MqBefore
  <2> QED BY <1>0, <1>1, <1>2, <1>3, <1>4, <2>1 DEF Gathered, At, Quiet
<1> QED BY <1>5, <1>6

LEMMA SameJob ==
  ASSUME NEW x \in Terminals, JobInv(t[x]), t'[x] = t[x],
         UNCHANGED <<sidecar, part, dest, host, family, pin, reqs, installed, short>>
  PROVE  JobInv(t[x])'
<1>1. \A v, p : Wanted(v, p)' = Wanted(v, p)
  BY WantedKept
<1>2. Fetched(t[x])' /\ Verified(t[x])'
  BY DEF JobInv, Fetched, Verified
<1>3. Gathered(t[x])'
  BY <1>1 DEF JobInv, Gathered
<1> QED BY <1>2, <1>3 DEF JobInv

----------------------------------------------------------------------------
LEMMA JobStep ==
  ASSUME MediaAssumption, OneTerminal, TypeOK, CacheInv, JobsInv, [Next]_vars
  PROVE  JobsInv'
<1>0. t \in [Terminals -> Jobs] /\ \A n \in Names : dest[n] # Absent => dest'[n] # Absent
  BY CacheStep DEF TypeOK
<1> DEFINE Kept(x) == JobInv(t[x])'
<1>1. ASSUME NEW x \in Terminals, NEW v \in Verbs, Begin(x, v)
      PROVE  Kept(x)
  <2> DEFINE j == [Idle EXCEPT !.pc = "kind", !.verb = v, !.own = pin, !.k = 1]
  <2>0. v \in {"bootstrap", "commons", "fetch"} /\ pin \in Pins /\ t'[x] = j
    BY <1>0, <1>1 DEF Begin, MediaAssumption, TypeOK
  <2>1. /\ t'[x].pc = "kind" /\ t'[x].verb = v /\ t'[x].own = pin /\ t'[x].k = 1 /\ t'[x].why = "none"
    BY <2>0, IdleType DEF Jobs
  <2>2. 1 \in Steps(v) /\ Kinds(v)[1] # "provision" /\ ~MqBefore(v, 1)
    <3>1. 1 \in Steps(v)
      <4>1. Len(Kinds(v)) \in {1, 4, 6}
        BY <2>0, KindsAt
      <4>2. \A l \in {1, 4, 6} : 1 \in 1..l
        OBVIOUS
      <4> QED BY <4>1, <4>2 DEF Steps
    <3> QED BY <2>0, <3>1, KindsAt, KindsFacts
  <2>3. pin' = pin /\ pin <= pin
    BY <1>1, <2>0 DEF Begin, MediaAssumption
  <2> QED BY <2>1, <2>2, <2>3 DEF JobInv, Fetched, Gathered, Verified, FetchPcs, Steps
<1>2. ASSUME NEW x \in Terminals, MissingNames(x)
      PROVE  Kept(x)
  <2> DEFINE j == [t[x] EXCEPT !.pc = "names", !.todo = Wanted(t[x].verb, t[x].own)]
  <2>0. t'[x] = j /\ t[x] \in Jobs /\ t[x].pc = "kind" /\ At(x) = "mq" /\ Quiet /\ JobInv(t[x])
    BY <1>0, <1>2, AtKind DEF MissingNames, Quiet
  <2>1. /\ t'[x].pc = "names" /\ t'[x].verb = t[x].verb /\ t'[x].own = t[x].own /\ t'[x].k = t[x].k
        /\ t'[x].why = t[x].why /\ t'[x].todo = Wanted(t[x].verb, t[x].own)
    BY <2>0 DEF Jobs
  <2>2. Gathered(t[x])' /\ Verified(t[x])'
    BY <2>0, <2>1, MqMoves
  <2>3. t[x].why = "none"
    BY <2>0 DEF JobInv, Verified
  <2> QED BY <2>1, <2>2, <2>3 DEF JobInv, Fetched
<1>3. ASSUME NEW x \in Terminals, Acquire(x)
      PROVE  Kept(x)
  <2>0. t[x] \in Jobs /\ t[x].pc = "names" /\ At(x) = "mq" /\ Quiet /\ JobInv(t[x]) /\ t[x].why = "none"
    BY <1>0, <1>3, AtKind DEF Acquire, Quiet, JobInv, Gathered, Verified, At
  <2>1. \A n \in Wanted(t[x].verb, t[x].own) : n \in t[x].todo \/ dest[n] # Absent
    BY <2>0 DEF JobInv, Gathered
  <2>2. CASE t[x].todo = {}
    BY <1>3, <2>0, <2>1, <2>2, AdvanceKeeps DEF Acquire
  <2>3. CASE t[x].todo # {}
    <3> DEFINE n == CHOOSE m \in t[x].todo : \A o \in t[x].todo : m[2] = "Linux" \/ o[2] # "Linux"
               j == [t[x] EXCEPT !.name = n, !.todo = t[x].todo \ {n}, !.half = 0,
                                 !.pc = IF dest[n] = Absent THEN "open" ELSE "verify"]
    <3>1. t' = [t EXCEPT ![x] = j] /\ UNCHANGED <<dest, sidecar, part>>
      BY <1>0, <1>3, <2>3 DEF Acquire
    <3>2. n \in Names
      <4>1. t[x].todo \subseteq Names
        BY <2>0 DEF Jobs
      <4>2. \E m \in t[x].todo : \A o \in t[x].todo : m[2] = "Linux" \/ o[2] # "Linux"
        BY <2>3
      <4> QED BY <4>1, <4>2
    <3> HIDE DEF n
    <3>3. t'[x] = j
      BY <1>0, <3>1
    <3>4. /\ t'[x].pc = (IF dest[n] = Absent THEN "open" ELSE "verify") /\ t'[x].verb = t[x].verb
          /\ t'[x].own = t[x].own /\ t'[x].k = t[x].k /\ t'[x].why = t[x].why
          /\ t'[x].todo = t[x].todo \ {n} /\ t'[x].name = n
      BY <2>0, <3>3 DEF Jobs
    <3>5. Gathered(t[x])' /\ Verified(t[x])'
      <4>1. \A m \in Wanted(t[x].verb, t[x].own) : m \in t'[x].todo \/ m = t'[x].name \/ dest'[m] # Absent
        BY <2>1, <3>1, <3>4
      <4>2. t'[x].pc \in FetchPcs /\ t'[x].pc # "names"
        BY <3>4 DEF FetchPcs
      <4> QED BY <2>0, <3>4, <4>1, <4>2, MqMoves
    <3>6. dest[n] = Absent => sidecar[n] = Absent
      BY <3>2 DEF CacheInv
    <3>7. Fetched(t[x])'
      BY <2>0, <3>1, <3>4, <3>6 DEF Fetched
    <3> QED BY <3>5, <3>7 DEF JobInv
  <2> QED BY <2>2, <2>3
<1> DEFINE Fetching(x, pcs) ==
       /\ t[x] \in Jobs /\ t[x].pc \in pcs /\ At(x) = "mq" /\ Quiet /\ JobInv(t[x]) /\ t[x].why = "none"
       /\ t[x].name \in Names
       /\ \A n \in Wanted(t[x].verb, t[x].own) :
             n \in t[x].todo \/ n = t[x].name \/ dest'[n] # Absent
<1>4. ASSUME NEW x \in Terminals, UNCHANGED <<host, family, pin>>, t[x].pc \in FetchPcs
      PROVE  Fetching(x, FetchPcs)
  <2>1. Quiet /\ At(x) = "mq" /\ JobInv(t[x]) /\ t[x].why = "none" /\ t[x].name \in Names /\ t[x] \in Jobs
    BY <1>0, <1>4, AtKind DEF Quiet, JobInv, Gathered, Verified, At, FetchPcs
  <2>2. \A n \in Wanted(t[x].verb, t[x].own) : n \in t[x].todo \/ n = t[x].name \/ dest[n] # Absent
    BY <1>4, <2>1 DEF JobInv, Gathered
  <2>3. Wanted(t[x].verb, t[x].own) \subseteq Names
    BY AtKind, NamesType
  <2> QED BY <1>4, <2>1, <2>2, <2>3 DEF Quiet
<1>5. ASSUME NEW x \in Terminals, Open(x)
      PROVE  Kept(x)
  <2>0. Fetching(x, FetchPcs) /\ t[x].pc = "open"
    BY <1>4, <1>5 DEF Open, FetchPcs
  <2>1. t'[x] = [t[x] EXCEPT !.pc = "write", !.half = 1, !.fd = "part"]
    BY <1>0, <1>5 DEF Open
  <2>2. /\ t'[x].pc = "write" /\ t'[x].verb = t[x].verb /\ t'[x].own = t[x].own /\ t'[x].k = t[x].k
        /\ t'[x].why = t[x].why /\ t'[x].todo = t[x].todo /\ t'[x].name = t[x].name
        /\ t'[x].half = 1 /\ t'[x].fd = "part"
    BY <2>0, <2>1 DEF Jobs
  <2>3. Gathered(t[x])' /\ Verified(t[x])'
    BY <2>0, <2>2, MqMoves DEF FetchPcs
  <2>4. part'[t[x].name] = {} /\ sidecar' = sidecar /\ sidecar[t[x].name] = Absent
    BY <1>5, <2>0 DEF Open, TypeOK, JobInv, Fetched
  <2>5. Fetched(t[x])'
    BY <2>0, <2>2, <2>4 DEF Fetched
  <2> QED BY <2>3, <2>5 DEF JobInv
<1>6. ASSUME NEW x \in Terminals, Write(x)
      PROVE  Kept(x)
  <2>0. Fetching(x, FetchPcs) /\ t[x].pc = "write"
    BY <1>4, <1>6 DEF Write, FetchPcs
  <2>1. t'[x] = [t[x] EXCEPT !.pc = IF t[x].half = 2 THEN "rename" ELSE "write", !.half = 2]
    BY <1>0, <1>6 DEF Write
  <2>2. /\ t'[x].pc = (IF t[x].half = 2 THEN "rename" ELSE "write") /\ t'[x].verb = t[x].verb
        /\ t'[x].own = t[x].own /\ t'[x].k = t[x].k /\ t'[x].why = t[x].why
        /\ t'[x].todo = t[x].todo /\ t'[x].name = t[x].name /\ t'[x].half = 2 /\ t'[x].fd = t[x].fd
    BY <2>0, <2>1 DEF Jobs
  <2>3. Gathered(t[x])' /\ Verified(t[x])'
    BY <2>0, <2>2, MqMoves DEF FetchPcs
  <2>4. /\ t[x].fd = "part" /\ sidecar[t[x].name] = Absent
        /\ (t[x].half = 1 /\ part[t[x].name] = {}) \/ (t[x].half = 2 /\ part[t[x].name] = {1})
    BY <2>0 DEF JobInv, Fetched
  <2>5. part'[t[x].name] = part[t[x].name] \cup {t[x].half} /\ sidecar' = sidecar
    BY <1>6, <2>0, <2>4 DEF Write, TypeOK
  <2>6. Fetched(t[x])'
    BY <2>0, <2>2, <2>4, <2>5, Contents_ DEF Fetched
  <2> QED BY <2>3, <2>6 DEF JobInv
<1>7. ASSUME NEW x \in Terminals, Rename(x)
      PROVE  Kept(x)
  <2>0. Fetching(x, FetchPcs) /\ t[x].pc = "rename"
    BY <1>4, <1>7 DEF Rename, FetchPcs
  <2>1. part[t[x].name] \in {Whole, {1}}
    BY <2>0 DEF JobInv, Fetched
  <2>2. /\ t'[x] = [t[x] EXCEPT !.pc = "verify", !.fd = "none"]
        /\ dest' = [dest EXCEPT ![t[x].name] = part[t[x].name]]
    BY <1>0, <1>7, <2>1, Contents_ DEF Rename
  <2>3. /\ t'[x].pc = "verify" /\ t'[x].verb = t[x].verb /\ t'[x].own = t[x].own /\ t'[x].k = t[x].k
        /\ t'[x].why = t[x].why /\ t'[x].todo = t[x].todo /\ t'[x].name = t[x].name
    BY <2>0, <2>2 DEF Jobs
  <2>4. Gathered(t[x])' /\ Verified(t[x])'
    BY <2>0, <2>3, MqMoves DEF FetchPcs
  <2>5. dest'[t[x].name] # Absent
    BY <2>0, <2>1, <2>2, Contents_ DEF TypeOK
  <2>6. Fetched(t[x])'
    BY <2>0, <2>3, <2>5 DEF Fetched
  <2> QED BY <2>4, <2>6 DEF JobInv
<1>8. ASSUME NEW x \in Terminals, Verify(x)
      PROVE  Kept(x)
  <2>0. Fetching(x, FetchPcs) /\ t[x].pc = "verify" /\ UNCHANGED <<dest, sidecar>>
    BY <1>4, <1>8 DEF Verify, FetchPcs
  <2>1. sidecar[t[x].name] # Absent /\ dest[t[x].name] # Absent
    BY <1>8, <2>0 DEF Verify, JobInv, Fetched
  <2>2. CASE sidecar[t[x].name] = dest[t[x].name]
    <3>1. t'[x] = [t[x] EXCEPT !.pc = "names"]
      BY <1>0, <1>8, <2>2, GoFields DEF Verify, Pcs
    <3>2. /\ t'[x].pc = "names" /\ t'[x].verb = t[x].verb /\ t'[x].own = t[x].own /\ t'[x].k = t[x].k
          /\ t'[x].why = t[x].why /\ t'[x].todo = t[x].todo /\ t'[x].name = t[x].name
      BY <2>0, <3>1 DEF Jobs
    <3>3. Gathered(t[x])' /\ Verified(t[x])'
      BY <2>0, <2>1, <3>2, MqMoves DEF FetchPcs
    <3>4. Fetched(t[x])'
      BY <2>0, <3>2 DEF Fetched
    <3> QED BY <3>3, <3>4 DEF JobInv
  <2>3. CASE sidecar[t[x].name] # dest[t[x].name]
    <3>1. sidecar[t[x].name] = Blank \/ dest[t[x].name] = {1}
      BY <2>0, <2>1, <2>3 DEF CacheInv
    <3>2. Fail(x, "mismatch") /\ "mismatch" \in Whys
      BY <1>8, <2>3 DEF Verify, Whys
    <3> QED BY <2>0, <3>1, <3>2, FailKeeps
  <2> QED BY <2>2, <2>3
<1>9. ASSUME NEW x \in Terminals, Hash(x)
      PROVE  Kept(x)
  <2>0. Fetching(x, FetchPcs) /\ t[x].pc = "verify" /\ UNCHANGED <<dest, sidecar>> /\ sidecar[t[x].name] = Absent
    BY <1>4, <1>9 DEF Hash, FetchPcs
  <2>1. t'[x] = [t[x] EXCEPT !.pc = "mark", !.digest = dest[t[x].name]]
    BY <1>0, <1>9 DEF Hash
  <2>2. /\ t'[x].pc = "mark" /\ t'[x].verb = t[x].verb /\ t'[x].own = t[x].own /\ t'[x].k = t[x].k
        /\ t'[x].why = t[x].why /\ t'[x].todo = t[x].todo /\ t'[x].name = t[x].name
        /\ t'[x].digest = dest[t[x].name]
    BY <2>0, <2>1 DEF Jobs
  <2>3. Gathered(t[x])' /\ Verified(t[x])'
    BY <2>0, <2>2, MqMoves DEF FetchPcs
  <2>4. dest[t[x].name] # Absent
    BY <2>0 DEF JobInv, Fetched
  <2>6. Fetched(t[x])'
    BY <2>0, <2>2, <2>4 DEF Fetched
  <2> QED BY <2>3, <2>6 DEF JobInv
<1>10. ASSUME NEW x \in Terminals, Mark(x)
       PROVE  Kept(x)
  <2>0. Fetching(x, FetchPcs) /\ t[x].pc = "mark" /\ UNCHANGED dest
    BY <1>4, <1>10 DEF Mark, FetchPcs
  <2>1. t'[x] = [t[x] EXCEPT !.pc = "record"] /\ sidecar' = [sidecar EXCEPT ![t[x].name] = Blank]
    BY <1>0, <1>10, GoFields DEF Mark, Pcs
  <2>2. /\ t'[x].pc = "record" /\ t'[x].verb = t[x].verb /\ t'[x].own = t[x].own /\ t'[x].k = t[x].k
        /\ t'[x].why = t[x].why /\ t'[x].todo = t[x].todo /\ t'[x].name = t[x].name
        /\ t'[x].digest = t[x].digest
    BY <2>0, <2>1 DEF Jobs
  <2>3. Gathered(t[x])' /\ Verified(t[x])'
    BY <2>0, <2>2, MqMoves DEF FetchPcs
  <2>4. dest[t[x].name] # Absent /\ t[x].digest = dest[t[x].name] /\ sidecar'[t[x].name] = Blank
    BY <2>0, <2>1 DEF JobInv, Fetched, TypeOK
  <2>5. Fetched(t[x])'
    BY <2>0, <2>2, <2>4 DEF Fetched
  <2> QED BY <2>3, <2>5 DEF JobInv
<1>11. ASSUME NEW x \in Terminals, Record(x)
       PROVE  Kept(x)
  <2>0. Fetching(x, FetchPcs) /\ t[x].pc = "record" /\ UNCHANGED dest
    BY <1>4, <1>11 DEF Record, FetchPcs
  <2>1. PICK pc \in {"verify", "names"} : t'[x] = [t[x] EXCEPT !.pc = pc]
    BY <1>0, <1>11, GoFields DEF Record, Recorded, Pcs
  <2>2. /\ t'[x].pc = pc /\ t'[x].verb = t[x].verb /\ t'[x].own = t[x].own /\ t'[x].k = t[x].k
        /\ t'[x].why = t[x].why /\ t'[x].todo = t[x].todo /\ t'[x].name = t[x].name
    BY <2>0, <2>1 DEF Jobs
  <2>3. dest[t[x].name] # Absent
    BY <2>0 DEF JobInv, Fetched
  <2>4. Gathered(t[x])' /\ Verified(t[x])'
    BY <2>0, <2>2, <2>3, MqMoves DEF FetchPcs
  <2>5. Fetched(t[x])'
    BY <2>0, <2>2, <2>3 DEF Fetched
  <2> QED BY <2>4, <2>5 DEF JobInv
<1>12. ASSUME NEW x \in Terminals, Exporter(x) \/ Link(x) \/ Bake(x)
       PROVE  Kept(x)
  <2>0. /\ t[x] \in Jobs /\ t[x].pc # "idle" /\ At(x) = "boxes" /\ JobInv(t[x]) /\ t[x].why = "none"
        /\ Quiet /\ UNCHANGED <<part, dest, sidecar, host, family, pin, reqs, installed, short>>
    BY <1>0, <1>12, AtKind DEF Exporter, Link, Bake, Quiet, JobInv, Gathered, Verified, At
  <2>1. ASSUME Fail(x, "absent") \/ Fail(x, "torn")
        PROVE  Kept(x)
    BY <2>0, <2>1, FailKeeps DEF Whys
  <2>2. ASSUME NEW pc \in {"link", "bake"}, t' = Go(x, pc)
        PROVE  Kept(x)
    <3>1. t'[x] = [t[x] EXCEPT !.pc = pc]
      BY <1>0, <2>2, GoFields DEF Pcs
    <3>2. /\ t'[x].pc = pc /\ t'[x].verb = t[x].verb /\ t'[x].own = t[x].own /\ t'[x].k = t[x].k
          /\ t'[x].why = t[x].why
      BY <2>0, <3>1 DEF Jobs
    <3>3. \A v, p : Wanted(v, p)' = Wanted(v, p)
      BY <2>0, WantedKept
    <3>4. Gathered(t[x])'
      BY <2>0, <3>2, <3>3 DEF JobInv, Gathered, At, FetchPcs
    <3> QED BY <2>0, <3>2, <3>4 DEF JobInv, Fetched, Verified
  <2>3. ASSUME Advance(x)
        PROVE  Kept(x)
    BY <2>0, <2>3, AdvanceKeeps
  <2>4. ASSUME t' = t
        PROVE  Kept(x)
    BY <2>0, <2>4, SameJob
  <2> HIDE DEF Kept
  <2> QED BY <1>12, <2>1, <2>2, <2>3, <2>4 DEF Exporter, Link, Bake
<1>13. ASSUME NEW x \in Terminals, Galaxy(x) \/ verify_galaxy_collections(x)
       PROVE  Kept(x)
  <2>0. t[x].pc # "idle" /\ At(x) \in {"galaxy", "verify galaxy"} /\ Quiet
    BY <1>0, <1>13 DEF Galaxy, verify_galaxy_collections, Quiet
  <2>1. At(x) = "verify galaxy" /\ Advance(x) => reqs' \subseteq installed' \/ Fail(x, "missing collections")
    BY <1>13 DEF Galaxy, verify_galaxy_collections
  <2>2. Advance(x) \/ Fail(x, "missing collections")
    BY <1>13 DEF Galaxy, verify_galaxy_collections
  <2>3. Fail(x, "missing collections") => Kept(x)
    BY <2>0, FailKeeps DEF Whys
  <2>4. CASE Advance(x) /\ ~Fail(x, "missing collections")
    BY <2>0, <2>1, <2>4, AdvanceKeeps
  <2> HIDE DEF Kept
  <2> QED BY <2>2, <2>3, <2>4
<1>14. ASSUME NEW x \in Terminals, Provision(x)
       PROVE  Kept(x)
  <2>0. /\ t[x].pc = "kind" /\ At(x) = "provision" /\ Quiet /\ JobInv(t[x])
        /\ t[x].verb \in {"bootstrap", "commons", "fetch"} /\ t[x].k \in Steps(t[x].verb)
    BY <1>0, <1>14, AtKind DEF Provision, Quiet, Steps
  <2>1. MqBefore(t[x].verb, t[x].k) /\ t[x].verb # "fetch"
    BY <2>0, KindsFacts DEF At
  <2>2. \A n \in Wanted(t[x].verb, t[x].own) : dest[n] # Absent
    BY <2>0, <2>1 DEF JobInv, Gathered
  <2>3. \A g \in Guests(t[x].verb) : mq_bearing(BoxOf(g)) =>
           \A p \in Pins : tarball_name(p, BoxOf(g)) \in Wanted(t[x].verb, p)
    <3>1. ASSUME NEW g \in Guests(t[x].verb), mq_bearing(BoxOf(g)), t[x].verb = "bootstrap"
          PROVE  BoxOf(g) \in stack_mq_boxes
      BY <3>1 DEF Guests, Nodes, Commons, Boxes, BoxOf, mq_bearing, stack_mq_boxes, commons_mq_boxes
    <3>2. ASSUME NEW g \in Guests(t[x].verb), mq_bearing(BoxOf(g)), t[x].verb = "commons"
          PROVE  BoxOf(g) \in commons_mq_boxes
      BY <3>2 DEF Guests, Nodes, Commons, Boxes, BoxOf, mq_bearing, commons_mq_boxes
    <3> QED BY <2>0, <2>1, <3>1, <3>2 DEF Wanted
  <2>4. ASSUME Fail(x, "no media"), \E g \in Guests(t[x].verb) :
                 mq_bearing(BoxOf(g)) /\ dest[tarball_name(pin, BoxOf(g))] = Absent
        PROVE  Kept(x)
    <3>1. t[x].own # pin
      BY <2>2, <2>3, <2>4 DEF TypeOK
    <3> QED BY <2>0, <2>4, <3>1, FailKeeps DEF Whys
  <2>5. ASSUME Fail(x, "done")
        PROVE  Kept(x)
    BY <2>0, <2>5, FailKeeps DEF Whys
  <2>6. ASSUME Fail(x, "done broken"), ~(reqs \subseteq installed)
        PROVE  Kept(x)
    <3>1. t[x].verb = "commons"
      BY <2>0, <2>1, <2>6 DEF JobInv, Verified, At
    <3> QED BY <2>0, <2>6, <3>1, FailKeeps DEF Whys
  <2> HIDE DEF Kept
  <2> QED BY <1>14, <2>4, <2>5, <2>6 DEF Provision
<1>15. ASSUME NEW x \in Terminals, Kill(x) \/ Reset(x)
       PROVE  Kept(x)
  <2>1. Quiet /\ (Fail(x, "killed") \/ Fail(x, "reset"))
    BY <1>0, <1>15 DEF Kill, Reset, Quiet
  <2> QED BY <2>1, FailKeeps DEF Whys
<1>22. ASSUME NEW x \in Terminals, EndsShort(x)
       PROVE  Kept(x)
  <2>0. Fetching(x, FetchPcs) /\ t[x].pc = "write" /\ t[x].half = 2 /\ UNCHANGED <<part, dest, sidecar>>
    BY <1>4, <1>22 DEF EndsShort, FetchPcs
  <2>1. t'[x] = [t[x] EXCEPT !.pc = "rename"] /\ t[x].name \in short'
    BY <1>0, <1>22, GoFields DEF EndsShort, Pcs
  <2>2. /\ t'[x].pc = "rename" /\ t'[x].verb = t[x].verb /\ t'[x].own = t[x].own /\ t'[x].k = t[x].k
        /\ t'[x].why = t[x].why /\ t'[x].todo = t[x].todo /\ t'[x].name = t[x].name
    BY <2>0, <2>1 DEF Jobs
  <2>3. Gathered(t[x])' /\ Verified(t[x])'
    BY <2>0, <2>2, MqMoves DEF FetchPcs
  <2>4. sidecar[t[x].name] = Absent /\ part[t[x].name] = {1}
    BY <2>0 DEF JobInv, Fetched
  <2>5. Fetched(t[x])'
    BY <2>0, <2>1, <2>2, <2>4 DEF Fetched
  <2> QED BY <2>3, <2>5 DEF JobInv
<1>16. ASSUME NEW n \in Names, Rot(n) \/ HandPlace(n), NEW x \in Terminals
       PROVE  Kept(x)
  <2>1. /\ t' = t /\ UNCHANGED <<host, family, pin, part, sidecar, reqs, installed>>
        /\ JobInv(t[x]) /\ t[x].name \in Names /\ t[x].verb \in {"bootstrap", "commons", "fetch"}
        /\ t[x].own \in Pins
    BY <1>16, AtKind DEF Rot, HandPlace
  <2>2. /\ dest[t[x].name] = {1} => dest'[t[x].name] = {1}
        /\ t[x].pc \in {"mark", "record"} => dest'[t[x].name] = dest[t[x].name]
        /\ short \subseteq short'
    <3>0. /\ t[x].pc \in {"mark", "record"} => sidecar[t[x].name] \in {Absent, Blank} /\ dest[t[x].name] # Absent
      BY <2>1 DEF JobInv, Fetched
    <3>1. CASE Rot(n)
      BY <2>1, <3>0, <3>1 DEF Rot, TypeOK
    <3>2. CASE HandPlace(n)
      BY <2>1, <3>0, <3>2, Contents_ DEF HandPlace, TypeOK
    <3> QED BY <1>16, <3>1, <3>2
  <2>3. \A v, p : Wanted(v, p)' = Wanted(v, p)
    BY <2>1, WantedKept
  <2>4. Wanted(t[x].verb, t[x].own) \subseteq Names
    BY <2>1, NamesType
  <2>5. Fetched(t[x])' /\ Verified(t[x])'
    BY <1>0, <2>1, <2>2 DEF JobInv, Fetched, Verified
  <2>6. Gathered(t[x])'
    BY <1>0, <2>1, <2>3, <2>4 DEF JobInv, Gathered
  <2> QED BY <2>5, <2>6 DEF JobInv
<1>17. ASSUME Bump, NEW x \in Terminals
       PROVE  Kept(x)
  <2>1. /\ t' = t /\ UNCHANGED <<host, family, dest, part, sidecar, reqs, installed, short>> /\ JobInv(t[x])
        /\ pin' = pin + 1 /\ pin \in Pins /\ t[x].own \in Pins
    BY <1>17, AtKind DEF Bump, TypeOK
  <2>2. \A v, p : Wanted(v, p)' = Wanted(v, p)
    BY <2>1, WantedKept
  <2>3. t[x].own <= pin' /\ t[x].own # pin'
    <3>1. t[x].own <= pin
      BY <2>1 DEF JobInv, Gathered
    <3>2. pin \in Int /\ t[x].own \in Int
      <4>1. \A p \in Pins : p \in Int
        BY DEF MediaAssumption
      <4> QED BY <2>1, <4>1
    <3> QED BY <2>1, <3>1, <3>2
  <2>4. Fetched(t[x])' /\ Verified(t[x])'
    BY <2>1 DEF JobInv, Fetched, Verified
  <2>5. Gathered(t[x])'
    BY <2>1, <2>2, <2>3 DEF JobInv, Gathered
  <2> QED BY <2>4, <2>5 DEF JobInv
<1>18. ASSUME Require, NEW x \in Terminals
       PROVE  Kept(x)
  <2>1. /\ t' = t /\ UNCHANGED <<host, family, pin, dest, part, sidecar, installed>> /\ JobInv(t[x])
        /\ t[x].pc = "idle"
    BY <1>18, AtKind DEF Require
  <2> QED BY <2>1 DEF JobInv, Fetched, Gathered, Verified, FetchPcs
<1>19. ASSUME UNCHANGED vars, NEW x \in Terminals
       PROVE  Kept(x)
  <2>1. t' = t /\ UNCHANGED <<sidecar, part, dest, host, family, pin, reqs, installed, short>> /\ JobInv(t[x])
    BY <1>19, AtKind DEF vars
  <2> QED BY <2>1, SameJob
<1>20. ASSUME NEW x \in Terminals, Kept(x) PROVE JobsInv'
  BY <1>20, OneJob
<1>21. ASSUME \A x \in Terminals : Kept(x) PROVE JobsInv'
  BY <1>21 DEF JobsInv, JobInv
<1> HIDE DEF Kept, Fetching
<1> QED
  BY <1>1, <1>2, <1>3, <1>5, <1>6, <1>7, <1>8, <1>9, <1>10, <1>11, <1>12, <1>13, <1>14, <1>15, <1>16,
     <1>17, <1>18, <1>19, <1>20, <1>21, <1>22 DEF Next

----------------------------------------------------------------------------
\* What a verb is handed, what the exporter links, and what a box is baked with.
LEMMA ProductsStep ==
  ASSUME MediaAssumption, TypeOK, CacheInv, JobsInv, ExporterInv, OutInv, HandedWhole, ExporterMatches, [Next]_vars
  PROVE  ExporterInv' /\ OutInv' /\ HandedWhole' /\ ExporterMatches'
<1>0. /\ bin \in [Pins -> [sdk : Pins \cup {0}, whole : BOOLEAN]] /\ pin \in Pins
      /\ box \in [Boxes -> [mq : Pins \cup {0}, sdk : Pins \cup {0}, whole : BOOLEAN]]
      /\ \A p \in Pins : p # 0
  BY DEF TypeOK, MediaAssumption
<1>1. ExporterInv'
  <2>1. ASSUME UNCHANGED bin PROVE ExporterInv'
    BY <2>1 DEF ExporterInv
  <2>2. ASSUME NEW x \in Terminals, Exporter(x)
        PROVE  ExporterInv'
    <3>1. bin' = bin \/ bin' = [bin EXCEPT ![t[x].own] = [sdk |-> t[x].own, whole |-> FALSE]]
      BY <2>2 DEF Exporter, exporter_binary_path
    <3> QED BY <1>0, <3>1, AtKind DEF ExporterInv
  <2>3. ASSUME NEW x \in Terminals, Link(x)
        PROVE  ExporterInv'
    <3>1. bin' = [bin EXCEPT ![t[x].own].whole = TRUE]
      BY <2>3 DEF Link, exporter_binary_path
    <3> QED BY <1>0, <3>1, AtKind DEF ExporterInv
  <2> HIDE DEF ExporterInv
  <2> QED
    BY <2>1, <2>2, <2>3
    DEF Next, vars, Begin, MissingNames, Acquire, Open, Write, Rename, Verify, Hash, Mark, Record, Bake, Galaxy,
        verify_galaxy_collections, Provision, Kill, Reset, EndsShort, Rot, HandPlace, Bump, Require
<1>2. OutInv' /\ HandedWhole'
  <2> DEFINE Out == OutInv' /\ HandedWhole'
             o(x) == [name |-> t[x].name, halves |-> dest[t[x].name]]
  <2>0. sidecar \in [Names -> Contents \cup {Blank}]
    BY DEF TypeOK
  <2>1. ASSUME UNCHANGED <<out, sidecar>>, short \subseteq short' PROVE Out
    BY <2>1 DEF HandedWhole, OutInv
  <2>2. ASSUME NEW x \in Terminals, Verify(x)
        PROVE  Out
    <3>1. t[x].name \in Names /\ dest[t[x].name] # Absent /\ UNCHANGED <<sidecar, short>>
      BY <2>2, AtKind DEF Verify, JobInv, Fetched
    <3>2. CASE sidecar[t[x].name] = dest[t[x].name]
      <4>1. dest[t[x].name] = Whole \/ (dest[t[x].name] = {1} /\ t[x].name \in short)
        BY <3>1, <3>2, Contents_ DEF CacheInv
      <4>2. out' = out \cup {o(x)}
        BY <2>2, <3>2 DEF Verify, Handed
      <4> QED BY <3>1, <3>2, <4>1, <4>2 DEF HandedWhole, OutInv
    <3>3. CASE sidecar[t[x].name] # dest[t[x].name]
      BY <2>1, <2>2, <3>1, <3>3 DEF Verify
    <3> QED BY <3>2, <3>3
  <2>3. ASSUME NEW x \in Terminals, Record(x)
        PROVE  Out
    <3>1. /\ t[x].name \in Names /\ dest[t[x].name] # Absent /\ sidecar[t[x].name] = Blank
          /\ t[x].digest = dest[t[x].name] /\ short' = short
      BY <2>3, AtKind DEF Record, JobInv, Fetched
    <3>2. dest[t[x].name] = Whole \/ (dest[t[x].name] = {1} /\ t[x].name \in short)
      BY <3>1, Contents_ DEF CacheInv
    <3>3. out' \subseteq out \cup {o(x)} /\ sidecar' = [sidecar EXCEPT ![t[x].name] = dest[t[x].name]]
      BY <2>3, <3>1 DEF Record, Recorded, Handed
    <3>4. \A q \in out : q.name \in Names /\ q.name # t[x].name
      BY <3>1, Contents_ DEF HandedWhole, OutInv
    <3> QED BY <2>0, <3>1, <3>2, <3>3, <3>4 DEF HandedWhole, OutInv
  <2>4. ASSUME NEW x \in Terminals, Mark(x)
        PROVE  Out
    <3>1. t[x].name \in Names /\ sidecar[t[x].name] = Absent
      BY <2>4, AtKind DEF Mark, JobInv, Fetched
    <3>2. UNCHANGED <<out, short>> /\ sidecar' = [sidecar EXCEPT ![t[x].name] = Blank]
      BY <2>4 DEF Mark
    <3>3. \A q \in out : q.name \in Names /\ q.name # t[x].name
      BY <3>1, Contents_ DEF HandedWhole, OutInv
    <3> QED BY <2>0, <3>2, <3>3 DEF HandedWhole, OutInv
  <2>5. ASSUME NEW n \in Names, HandPlace(n)
        PROVE  Out
    BY <2>1, <2>5 DEF HandPlace
  <2> HIDE DEF Out
  <2>6. Out
    BY <2>1, <2>2, <2>3, <2>4, <2>5
    DEF Next, vars, Begin, MissingNames, Acquire, Open, Write, Rename, Hash, Exporter, Link, Bake, Galaxy,
        verify_galaxy_collections, Provision, Kill, Reset, EndsShort, Rot, Bump, Require
  <2> QED BY <2>6 DEF Out
<1>3. ExporterMatches'
  <2>1. ASSUME UNCHANGED box PROVE ExporterMatches'
    BY <2>1 DEF ExporterMatches
  <2>2. ASSUME NEW x \in Terminals, Bake(x)
        PROVE  ExporterMatches'
    <3> DEFINE new(b) == IF b = "mq-client"
                         THEN [mq |-> pin, sdk |-> bin[pin].sdk, whole |-> bin[pin].whole]
                         ELSE [mq |-> pin, sdk |-> 0, whole |-> TRUE]
    <3>1. \/ box' = box
          \/ \E b \in Boxes : /\ b = "mq-client" => bin[pin].sdk # 0
                              /\ box' = [box EXCEPT ![b] = new(b)]
      <4>1. \A b : b \in {BoxOf(g) : g \in Guests(t[x].verb)} => b \in Boxes
        BY DEF Guests, Commons, Boxes
      <4>2. mq_bearing("mq-client")
        BY DEF mq_bearing
      <4> QED BY <2>2, <4>1, <4>2 DEF Bake, exporter_binary_path
    <3>2. CASE box' = box
      BY <2>1, <3>2
    <3>3. ASSUME NEW b \in Boxes, b = "mq-client" => bin[pin].sdk # 0, box' = [box EXCEPT ![b] = new(b)]
          PROVE  ExporterMatches'
      <4>1. CASE b = "mq-client"
        <5>1. bin[pin].sdk = pin
          BY <1>0, <3>3, <4>1 DEF ExporterInv
        <5>2. box'["mq-client"] = [mq |-> pin, sdk |-> pin, whole |-> bin[pin].whole]
          BY <1>0, <3>3, <4>1, <5>1
        <5> QED BY <5>2 DEF ExporterMatches
      <4>2. CASE b # "mq-client"
        BY <1>0, <3>3, <4>2 DEF ExporterMatches
      <4> QED BY <4>1, <4>2
    <3> HIDE DEF ExporterMatches, new
    <3> QED BY <3>1, <3>2, <3>3
  <2> HIDE DEF ExporterMatches
  <2> QED
    BY <2>1, <2>2
    DEF Next, vars, Begin, MissingNames, Acquire, Open, Write, Rename, Verify, Hash, Mark, Record, Exporter, Link,
        Galaxy, verify_galaxy_collections, Provision, Kill, Reset, EndsShort, Rot, HandPlace, Bump, Require
<1> QED BY <1>1, <1>2, <1>3

LEMMA StepInv == MediaAssumption /\ OneTerminal /\ MediaInv /\ [Next]_vars => MediaInv'
BY TypeStep, CacheStep, JobStep, ProductsStep DEF MediaInv

\* Only commons up provisions without the check of its collections.
MediaSafe ==
  HandedWhole /\ WholeAccepted /\ MediaThere /\ ExporterMatches /\ ("commons" \notin Verbs => CollectionsThere)

LEMMA InvImplies == MediaInv => MediaSafe
<1> SUFFICES ASSUME MediaInv PROVE MediaSafe
  OBVIOUS
<1>1. TypeOK /\ CacheInv /\ JobsInv /\ HandedWhole /\ ExporterMatches
  BY DEF MediaInv
<1>2. WholeAccepted
  BY <1>1, Contents_ DEF WholeAccepted, JobsInv, Fetched
<1>3. MediaThere
  BY <1>1 DEF MediaThere, JobsInv, Gathered
<1>4. "commons" \notin Verbs => CollectionsThere
  BY <1>1 DEF CollectionsThere, JobsInv, Verified
<1> QED BY <1>1, <1>2, <1>3, <1>4 DEF MediaSafe

LEMMA SafeIsSound == MediaSafe /\ "commons" \notin Verbs => MediaSound
BY DEF MediaSafe, MediaSound

----------------------------------------------------------------------------
(***************************************************************************)
(* From one terminal, whatever it is killed in, however a download ends    *)
(* and whatever decays in the cache: a bake or a play is given the tarball *)
(* that its first acquire recorded, whole unless that one came short or    *)
(* was put there short by hand; a whole one is refused only for a sidecar  *)
(* a kill left blank; provision finds the media of every host, an          *)
(* mq-client box carries the exporter of its own MQ level, and bootstrap   *)
(* does not provision without its collections (artifact.py, mqexporter.py, *)
(* cli.py).                                                                *)
(***************************************************************************)
THEOREM MediaIsSafe == MediaAssumption /\ OneTerminal => (Spec => []MediaSafe)
<1> SUFFICES ASSUME MediaAssumption, OneTerminal PROVE Spec => []MediaSafe
  OBVIOUS
<1>1. Init => MediaInv
  BY InitInv
<1>2. MediaInv /\ [Next]_vars => MediaInv'
  BY StepInv
<1> QED BY <1>1, <1>2, InvImplies, PTL DEF Spec
=============================================================================
