-------------------------------- MODULE Media --------------------------------
(***************************************************************************)
(* The MQ media cache: the tarballs downloaded from IBM's CDN with their   *)
(* sha256 sidecars (artifact.py, scripts/fetch-mq.sh), the mq_prometheus   *)
(* binary built from one of them in a container (mqexporter.py), the boxes *)
(* baked from both, and the prerequisites of bootstrap and commons up that *)
(* fill the cache (cli.py), from one terminal or two, with kills, resets,  *)
(* decay of a cached file and a bump of the pin lab/mq-version.            *)
(*                                                                         *)
(* A tarball is two halves, written in order; a file is the set of halves  *)
(* that are in it, and its digest is that set.                             *)
(***************************************************************************)
EXTENDS Integers, Sequences

CONSTANTS
    Terminals,   \* processes of mqlab or fetch-mq.sh
    Verbs,       \* the verbs they run, of "bootstrap", "commons", "fetch"
    Pins,        \* MQ levels, 1..n
    MaxRuns,     \* bound on verbs
    MaxFaults    \* bound on kills, resets, decay, bumps and edits

MediaAssumption ==
    /\ Verbs \subseteq {"bootstrap", "commons", "fetch"} /\ Pins \subseteq Nat \ {0} /\ 1 \in Pins
    /\ MaxRuns \in Nat /\ MaxFaults \in Nat

OneTerminal == \A x, y \in Terminals : x = y

Whole  == {1, 2}
Absent == {0}                  \* no such file
Blank  == {9}                  \* the sidecar, opened and not yet written
Nodes   == {"member", "svc", "probe", "obs", "infra"}
Commons == Nodes \ {"member"}
Collections == {"crypto", "posix"}

VARIABLES
    host,      \* the host's architecture
    family,    \* the OS family of the stack's members
    pin,       \* lab/mq-version
    part, dest, sidecar,       \* per tarball
    bin,       \* per cached exporter: its SDK level, 0 if absent, and if it is whole
    box,       \* per box: the MQ and the exporter it was baked with
    reqs, installed,           \* ansible/requirements.yml; build/cache
    t,         \* per terminal: where it is
    out,       \* what ensure returned so far: tarballs and their halves
    runs, faults,
    short      \* history: the tarballs a download or a hand left truncated, without an error
vars == <<host, family, pin, part, dest, sidecar, bin, box, reqs, installed, t, out, runs, faults, short>>

-----------------------------------------------------------------------------
\* The box of a node: svc, app and the probe boot the mq-client box.
BoxOf(n) == IF n \in {"svc", "probe"} THEN "mq-client" ELSE n
Boxes == {BoxOf(n) : n \in Nodes}
mq_bearing(b) == b \in {"member", "mq-client"}
needs_exporter_binary(bs) == "mq-client" \in bs

\* RHEL is pinned to x86_64; Ubuntu tracks the host.
tarball_name(p, b) ==
    IF b = "member" /\ family = "rhel" THEN <<p, "Linux", "x64">>
    ELSE <<p, "UbuntuLinux", host>>

Names == Pins \X {"Linux", "UbuntuLinux"} \X {"x64", "arm64"}

commons_mq_boxes == {BoxOf(n) : n \in Commons \ {"infra"}} \cap {b \in Boxes : mq_bearing(b)}

stack_mq_boxes == {BoxOf("member")} \cup commons_mq_boxes

\* Where a verb's build of the exporter lands, and what build-fatbox.sh reads.
exporter_binary_path(p) == p

(***************************************************************************)
(* The prerequisites in the order they are dispatched: boxes, then mq, for *)
(* the vms phase; mq, then galaxy, for provision.                          *)
(***************************************************************************)
Kinds(v) == CASE v = "bootstrap" -> <<"boxes", "mq", "mq", "galaxy", "verify galaxy", "provision">>
              [] v = "commons"   -> <<"boxes", "mq", "galaxy", "provision">>
              [] v = "fetch"     -> <<"mq">>

Guests(v) == IF v = "bootstrap" THEN Nodes ELSE Commons

Wanted(v, p) ==
    CASE v = "bootstrap" -> {tarball_name(p, b) : b \in stack_mq_boxes}
      [] v = "commons"   -> {tarball_name(p, b) : b \in commons_mq_boxes}
      [] v = "fetch"     -> {<<p, "UbuntuLinux", host>>, <<p, "Linux", "x64">>}

Idle == [pc |-> "idle", verb |-> "fetch", own |-> 1, k |-> 0, todo |-> {}, name |-> <<1, "Linux", "x64">>,
         half |-> 0, fd |-> "none", digest |-> {}, why |-> "none"]

Init ==
    /\ host \in {"x64", "arm64"} /\ family \in {"ubuntu", "rhel"}
    /\ pin = 1
    /\ part = [n \in Names |-> Absent] /\ dest = part /\ sidecar = part
    /\ \E kept \in BOOLEAN :     \* the boxes and the exporter of an earlier life
         /\ bin = [p \in Pins |-> [sdk |-> IF kept /\ p = 1 THEN 1 ELSE 0, whole |-> kept /\ p = 1]]
         /\ box = [b \in Boxes |-> [mq |-> IF kept THEN 1 ELSE 0, whole |-> TRUE,
                                    sdk |-> IF kept /\ b = "mq-client" THEN 1 ELSE 0]]
    /\ reqs = {"crypto"} /\ installed = {}
    /\ t = [x \in Terminals |-> Idle]
    /\ out = {} /\ runs = 0 /\ faults = 0 /\ short = {}

Go(x, pc) == [t EXCEPT ![x].pc = pc]
Fail(x, why) == t' = [t EXCEPT ![x].pc = "idle", ![x].why = why, ![x].fd = "none"]
At(x) == Kinds(t[x].verb)[t[x].k]

\* On to the next kind, or the verb is done.
Advance(x) ==
    t' = [t EXCEPT ![x].pc = IF t[x].k = Len(Kinds(t[x].verb)) THEN "idle" ELSE "kind",
                   ![x].k = IF t[x].k = Len(Kinds(t[x].verb)) THEN @ ELSE @ + 1]

Begin(x, v) ==
    /\ t[x].pc = "idle" /\ runs < MaxRuns
    /\ runs' = runs + 1
    /\ t' = [t EXCEPT ![x] = [Idle EXCEPT !.pc = "kind", !.verb = v, !.own = pin, !.k = 1]]
    /\ UNCHANGED <<host, family, pin, part, dest, sidecar, bin, box, reqs, installed, out, faults, short>>

-----------------------------------------------------------------------------
\* ensure_mq_tarballs_for_boxes: the names, sorted; a miss is fetched.
MissingNames(x) ==
    /\ t[x].pc = "kind" /\ At(x) = "mq"
    /\ t' = [t EXCEPT ![x].pc = "names", ![x].todo = Wanted(t[x].verb, t[x].own)]
    /\ UNCHANGED <<host, family, pin, part, dest, sidecar, bin, box, reqs, installed, out, runs, faults, short>>

Acquire(x) ==
    /\ t[x].pc = "names"
    /\ IF t[x].todo = {} THEN Advance(x)
       ELSE LET n == CHOOSE m \in t[x].todo : \A o \in t[x].todo : m[2] = "Linux" \/ o[2] # "Linux"
            IN t' = [t EXCEPT ![x].name = n, ![x].todo = @ \ {n}, ![x].half = 0,
                              ![x].pc = IF dest[n] = Absent THEN "open" ELSE "verify"]
    /\ UNCHANGED <<host, family, pin, part, dest, sidecar, bin, box, reqs, installed, out, runs, faults, short>>

\* The .part of a tarball is one file: opening it empties it.
Open(x) ==
    /\ t[x].pc = "open"
    /\ part' = [part EXCEPT ![t[x].name] = {}]
    /\ t' = [t EXCEPT ![x].pc = "write", ![x].half = 1, ![x].fd = "part"]
    /\ UNCHANGED <<host, family, pin, dest, sidecar, bin, box, reqs, installed, out, runs, faults, short>>

\* A writer keeps its file when the name changes.
Write(x) ==
    LET n == t[x].name IN
    /\ t[x].pc = "write"
    /\ part' = IF t[x].fd = "part" THEN [part EXCEPT ![n] = @ \cup {t[x].half}] ELSE part
    /\ dest' = IF t[x].fd = "dest" THEN [dest EXCEPT ![n] = @ \cup {t[x].half}] ELSE dest
    /\ t' = [t EXCEPT ![x].pc = IF t[x].half = 2 THEN "rename" ELSE "write", ![x].half = 2]
    /\ UNCHANGED <<host, family, pin, sidecar, bin, box, reqs, installed, out, runs, faults, short>>

\* The .part is moved, whoever wrote it; it is gone if another moved it before.
Rename(x) ==
    LET n == t[x].name IN
    /\ t[x].pc = "rename"
    /\ IF part[n] = Absent THEN Fail(x, "lost part") /\ UNCHANGED <<part, dest>>
       ELSE /\ dest' = [dest EXCEPT ![n] = part[n]]
            /\ part' = [part EXCEPT ![n] = Absent]
            /\ t' = [y \in Terminals |->
                       IF y = x THEN [t[x] EXCEPT !.pc = "verify", !.fd = "none"]
                       ELSE IF t[y].name # n THEN t[y]
                       ELSE [t[y] EXCEPT !.fd = CASE @ = "part" -> "dest" [] @ = "dest" -> "none" [] OTHER -> @]]
    /\ UNCHANGED <<host, family, pin, sidecar, bin, box, reqs, installed, out, runs, faults, short>>

(***************************************************************************)
(* _verify_sha256, and the same record at the end of a download: a missing *)
(* sidecar is computed and written, in two steps; an empty one is an error *)
(* and another digest is refused.                                          *)
(***************************************************************************)
Handed(x) == [name |-> t[x].name, halves |-> dest[t[x].name]]

\* Mutant: the digest is not compared.
Verify_trusting(x) ==
    LET n == t[x].name IN
    /\ t[x].pc = "verify" /\ sidecar[n] # Absent
    /\ t' = Go(x, "names") /\ out' = out \cup {Handed(x)}
    /\ UNCHANGED <<host, family, pin, part, dest, sidecar, bin, box, reqs, installed, runs, faults, short>>

Verify(x) ==
    LET n == t[x].name IN
    /\ t[x].pc = "verify" /\ sidecar[n] # Absent
    /\ IF sidecar[n] = dest[n]
         THEN t' = Go(x, "names") /\ out' = out \cup {Handed(x)}
         ELSE Fail(x, "mismatch") /\ UNCHANGED out
    /\ UNCHANGED <<host, family, pin, part, dest, sidecar, bin, box, reqs, installed, runs, faults, short>>

Hash(x) ==
    /\ t[x].pc = "verify" /\ sidecar[t[x].name] = Absent
    /\ t' = [t EXCEPT ![x].pc = "mark", ![x].digest = dest[t[x].name]]
    /\ UNCHANGED <<host, family, pin, part, dest, sidecar, bin, box, reqs, installed, out, runs, faults, short>>

Mark(x) ==
    /\ t[x].pc = "mark"
    /\ sidecar' = [sidecar EXCEPT ![t[x].name] = Blank]
    /\ t' = Go(x, "record")
    /\ UNCHANGED <<host, family, pin, part, dest, bin, box, reqs, installed, out, runs, faults, short>>

\* A download is verified after it; a file found without a sidecar is returned.
Recorded(x) ==
    IF t[x].half = 2 THEN t' = Go(x, "verify") /\ UNCHANGED out
    ELSE t' = Go(x, "names") /\ out' = out \cup {Handed(x)}

Record(x) ==
    /\ t[x].pc = "record"
    /\ sidecar' = [sidecar EXCEPT ![t[x].name] = t[x].digest]
    /\ Recorded(x)
    /\ UNCHANGED <<host, family, pin, part, dest, bin, box, reqs, installed, runs, faults, short>>

-----------------------------------------------------------------------------
(***************************************************************************)
(* build_boxes: the exporter binary first, in a container that unpacks the *)
(* pinned Ubuntu tarball from the cache and writes its result in place;    *)
(* then each box that is not cached at this level, whose builder reads the *)
(* pin again and wants the media, and for mq-client the exporter.          *)
(***************************************************************************)
Exporter(x) ==
    LET p == t[x].own
        n == <<p, "UbuntuLinux", host>>
    IN
    /\ t[x].pc = "kind" /\ At(x) = "boxes"
    /\ needs_exporter_binary({BoxOf(g) : g \in Guests(t[x].verb)})
    /\ IF bin[exporter_binary_path(p)].sdk # 0 THEN t' = Go(x, "bake") /\ UNCHANGED bin
       ELSE IF dest[n] = Absent THEN Fail(x, "absent") /\ UNCHANGED bin
       ELSE IF dest[n] # Whole THEN Fail(x, "torn") /\ UNCHANGED bin
       ELSE t' = Go(x, "link") /\ bin' = [bin EXCEPT ![exporter_binary_path(p)] = [sdk |-> p, whole |-> FALSE]]
    /\ UNCHANGED <<host, family, pin, part, dest, sidecar, box, reqs, installed, out, runs, faults, short>>

Link(x) ==
    /\ t[x].pc = "link"
    /\ bin' = [bin EXCEPT ![exporter_binary_path(t[x].own)].whole = TRUE]
    /\ t' = Go(x, "bake")
    /\ UNCHANGED <<host, family, pin, part, dest, sidecar, box, reqs, installed, out, runs, faults, short>>

Bake(x) ==
    LET need == {b \in {BoxOf(g) : g \in Guests(t[x].verb)} : box[b].mq # pin} IN
    /\ t[x].pc = "bake"
    /\ IF need = {} THEN Advance(x) /\ UNCHANGED box
       ELSE \E b \in need :
              IF mq_bearing(b) /\ (dest[tarball_name(pin, b)] = Absent
                                     \/ (b = "mq-client" /\ bin[exporter_binary_path(pin)].sdk = 0))
                THEN Fail(x, "absent") /\ UNCHANGED box
              ELSE IF mq_bearing(b) /\ dest[tarball_name(pin, b)] # Whole
                THEN Fail(x, "torn") /\ UNCHANGED box
              ELSE /\ box' = [box EXCEPT ![b] =
                        IF b = "mq-client"
                        THEN [mq |-> pin, sdk |-> bin[exporter_binary_path(pin)].sdk,
                              whole |-> bin[exporter_binary_path(pin)].whole]
                        ELSE [mq |-> pin, sdk |-> 0, whole |-> TRUE]]
                   /\ UNCHANGED t
    /\ UNCHANGED <<host, family, pin, part, dest, sidecar, bin, reqs, installed, out, runs, faults, short>>

-----------------------------------------------------------------------------
\* ansible-galaxy may skip a collection without an error.
Galaxy(x) ==
    /\ t[x].pc = "kind" /\ At(x) = "galaxy"
    /\ \E S \in SUBSET reqs : installed' = installed \cup S
    /\ Advance(x)
    /\ UNCHANGED <<host, family, pin, part, dest, sidecar, bin, box, reqs, out, runs, faults, short>>

verify_galaxy_collections(x) ==
    /\ t[x].pc = "kind" /\ At(x) = "verify galaxy"
    /\ IF reqs \subseteq installed THEN Advance(x) ELSE Fail(x, "missing collections")
    /\ UNCHANGED <<host, family, pin, part, dest, sidecar, bin, box, reqs, installed, out, runs, faults, short>>

\* The plays copy the tarball, at the pin they read, to every host that runs MQ
\* and has none installed yet, by its box or by an earlier play.
Provision(x) ==
    LET hosts == {g \in Guests(t[x].verb) : mq_bearing(BoxOf(g))} IN
    /\ t[x].pc = "kind" /\ At(x) = "provision"
    /\ \E mq_installed \in SUBSET hosts :
         IF \E g \in hosts \ mq_installed : dest[tarball_name(pin, BoxOf(g))] = Absent
         THEN Fail(x, "no media")
         ELSE Fail(x, IF reqs \subseteq installed THEN "done" ELSE "done broken")
    /\ UNCHANGED <<host, family, pin, part, dest, sidecar, bin, box, reqs, installed, out, runs, faults, short>>

-----------------------------------------------------------------------------
Fault == faults < MaxFaults /\ faults' = faults + 1

Kill(x) ==
    /\ t[x].pc # "idle" /\ Fault /\ Fail(x, "killed")
    /\ UNCHANGED <<host, family, pin, part, dest, sidecar, bin, box, reqs, installed, out, runs, short>>

Reset(x) ==
    /\ t[x].pc = "write" /\ Fault /\ Fail(x, "reset")
    /\ UNCHANGED <<host, family, pin, part, dest, sidecar, bin, box, reqs, installed, out, runs, short>>

\* A connection closed early is the end of the file to copyfileobj; curl, in
\* fetch-mq.sh, is told the length and fails.
EndsShort(x) ==
    /\ t[x].pc = "write" /\ t[x].half = 2 /\ t[x].fd = "part" /\ t[x].verb # "fetch" /\ Fault
    /\ t' = Go(x, "rename")
    /\ short' = short \cup {t[x].name}
    /\ UNCHANGED <<host, family, pin, part, dest, sidecar, bin, box, reqs, installed, out, runs>>

\* A cached file decays once it is recorded (before, it is trusted by design).
Rot(n) ==
    /\ dest[n] = Whole /\ sidecar[n] \notin {Absent, Blank} /\ Fault
    /\ dest' = [dest EXCEPT ![n] = {1}]
    /\ UNCHANGED <<host, family, pin, part, sidecar, bin, box, reqs, installed, t, out, runs, short>>

\* A tarball put into the cache by hand, whole or truncated.
HandPlace(n) ==
    /\ dest[n] = Absent /\ Fault
    /\ n \in {<<pin, "UbuntuLinux", host>>, <<pin, "Linux", "x64">>}
    /\ \E h \in {Whole, {1}} :
         /\ dest' = [dest EXCEPT ![n] = h]
         /\ short' = IF h = Whole THEN short ELSE short \cup {n}
    /\ UNCHANGED <<host, family, pin, part, sidecar, bin, box, reqs, installed, t, out, runs>>

Bump ==
    /\ pin + 1 \in Pins /\ Fault /\ pin' = pin + 1
    /\ UNCHANGED <<host, family, part, dest, sidecar, bin, box, reqs, installed, t, out, runs, short>>

Require ==
    /\ \A x \in Terminals : t[x].pc = "idle"
    /\ reqs # Collections /\ Fault /\ reqs' = Collections
    /\ UNCHANGED <<host, family, pin, part, dest, sidecar, bin, box, installed, t, out, runs, short>>

Next ==
    \/ \E x \in Terminals :
         \/ \E v \in Verbs : Begin(x, v)
         \/ MissingNames(x) \/ Acquire(x) \/ Open(x) \/ Write(x) \/ Rename(x)
         \/ Verify(x) \/ Hash(x) \/ Mark(x) \/ Record(x)
         \/ Exporter(x) \/ Link(x) \/ Bake(x)
         \/ Galaxy(x) \/ verify_galaxy_collections(x) \/ Provision(x)
         \/ Kill(x) \/ Reset(x) \/ EndsShort(x)
    \/ \E n \in Names : Rot(n) \/ HandPlace(n)
    \/ Bump
    \/ Require

Spec == Init /\ [][Next]_vars

-----------------------------------------------------------------------------
Contents == {Absent} \cup SUBSET Whole
Pcs == {"idle", "kind", "names", "open", "write", "rename", "verify", "mark", "record", "link", "bake"}
Whys == {"none", "killed", "reset", "lost part", "mismatch", "absent", "torn", "missing collections",
         "no media", "done", "done broken"}
AllVerbs == {"bootstrap", "commons", "fetch"}
Places == {"none", "part", "dest"}
Halves == {0, 1, 2}
Positions == 0..6
Jobs == [pc : Pcs, verb : AllVerbs, own : Pins, k : Positions, todo : SUBSET Names, name : Names,
         half : Halves, fd : Places, digest : Contents, why : Whys]

TypeOK ==
    /\ host \in {"x64", "arm64"} /\ family \in {"ubuntu", "rhel"}
    /\ pin \in Pins /\ runs \in 0..MaxRuns /\ faults \in 0..MaxFaults
    /\ part \in [Names -> Contents] /\ dest \in [Names -> Contents]
    /\ sidecar \in [Names -> Contents \cup {Blank}]
    /\ bin \in [Pins -> [sdk : Pins \cup {0}, whole : BOOLEAN]]
    /\ box \in [Boxes -> [mq : Pins \cup {0}, sdk : Pins \cup {0}, whole : BOOLEAN]]
    /\ reqs \subseteq Collections /\ installed \subseteq Collections
    /\ t \in [Terminals -> Jobs] /\ short \subseteq Names

(* What ensure_mq_tarballs_for_boxes hands to a bake or a play is what the
   first acquire of that tarball recorded (record-on-first-acquire, verify on
   every later use): a half-written .part of a killed run or of a connection
   that failed is never taken for it, and a file that decayed in the cache is
   refused.  It is the whole tarball, unless the download ended early without
   an error or a truncated file was put there by hand: those are recorded and
   handed on, and no later acquire notices. *)
HandedWhole ==
    \A o \in out : o.halves = sidecar[o.name] /\ (o.halves = Whole \/ o.name \in short)

(* A tarball that is whole is refused only for a sidecar that a kill left
   blank, between the open and the write of its write_text; from then on
   split()[0] fails on it at every acquire.  A mismatch means decay. *)
WholeAccepted ==
    \A x \in Terminals : t[x].why = "mismatch" =>
        dest[t[x].name] # Whole \/ sidecar[t[x].name] = Blank

(* Every host on which a play installs MQ, the commons ones too, finds its
   tarball in the cache, also one that was cold (#407), unless the pin moved
   under the verb. *)
MediaThere ==
    \A x \in Terminals : t[x].why = "no media" => t[x].own # pin

(* The exporter in an mq-client box was built against the SDK of the MQ level
   in that box, whatever levels are cached and whenever the pin moves (#1407). *)
ExporterMatches == box["mq-client"].mq = box["mq-client"].sdk

(* No provision starts without every collection requirements.yml declares
   (#596), though ansible-galaxy may skip one silently. *)
CollectionsThere == \A x \in Terminals : t[x].why # "done broken"

MediaSound == HandedWhole /\ WholeAccepted /\ MediaThere /\ ExporterMatches /\ CollectionsThere

(***************************************************************************)
(* The strengthening that is inductive with one terminal.  A cached file   *)
(* that is not whole arrived short or has decayed under a sidecar that says*)
(* so; a download under way fills its .part in order; of the tarballs a    *)
(* verb wants those it has dealt with are there; bootstrap provisions what *)
(* it has verified.                                                        *)
(***************************************************************************)
CacheInv ==
    \A n \in Names :
        /\ sidecar[n] \in {Absent, Blank, Whole} \/ (sidecar[n] = {1} /\ n \in short)
        /\ dest[n] \in {Absent, Whole} \/ (dest[n] = {1} /\ (sidecar[n] = Whole \/ n \in short))
        /\ sidecar[n] # Absent => dest[n] # Absent
        /\ sidecar[n] = {1} => dest[n] = {1}

Fetched(j) ==
    /\ j.pc \in {"open", "write", "rename", "mark"} => sidecar[j.name] = Absent
    /\ j.pc = "write" => /\ j.fd = "part"
                         /\ (j.half = 1 /\ part[j.name] = {}) \/ (j.half = 2 /\ part[j.name] = {1})
    /\ j.pc = "rename" => part[j.name] = Whole \/ (part[j.name] = {1} /\ j.name \in short)
    /\ j.pc \in {"verify", "mark", "record"} => dest[j.name] # Absent
    /\ j.pc = "record" => sidecar[j.name] = Blank
    /\ j.pc \in {"mark", "record"} => j.digest = dest[j.name]
    /\ j.why = "mismatch" => j.pc = "idle" /\ (sidecar[j.name] = Blank \/ dest[j.name] = {1})

FetchPcs == {"open", "write", "rename", "verify", "mark", "record"}
MqBefore(v, k) == \E i \in 1..(k - 1) : Kinds(v)[i] = "mq"
Gathered(j) ==
    /\ j.pc # "idle" => j.k \in 1..Len(Kinds(j.verb))
    /\ j.pc \in {"names"} \cup FetchPcs => Kinds(j.verb)[j.k] = "mq"
    /\ j.pc \in {"link", "bake"} => Kinds(j.verb)[j.k] = "boxes"
    /\ j.pc = "names" => \A n \in Wanted(j.verb, j.own) \ j.todo : dest[n] # Absent
    /\ j.pc \in FetchPcs => \A n \in Wanted(j.verb, j.own) \ (j.todo \cup {j.name}) : dest[n] # Absent
    /\ j.pc # "idle" /\ MqBefore(j.verb, j.k) => \A n \in Wanted(j.verb, j.own) : dest[n] # Absent
    /\ j.own <= pin
    /\ j.why = "no media" => j.own # pin

Verified(j) ==
    /\ j.pc = "kind" /\ j.verb = "bootstrap" /\ Kinds(j.verb)[j.k] = "provision" => reqs \subseteq installed
    /\ j.why = "done broken" => j.verb = "commons"
    /\ j.verb \in Verbs \cup {"fetch"}
    /\ j.pc # "idle" => j.why = "none"

JobsInv == \A x \in Terminals : Fetched(t[x]) /\ Gathered(t[x]) /\ Verified(t[x])
ExporterInv == \A p \in Pins : bin[p].sdk \in {0, p}

OutInv == \A o \in out : o.name \in Names /\ o.halves \in {Whole, {1}}

MediaInv == TypeOK /\ CacheInv /\ JobsInv /\ ExporterInv /\ OutInv /\ HandedWhole /\ ExporterMatches

(* Claimed, and not kept by the code.  A tarball enters the cache whole:
   download_mq_tarball fetches "into `dest`, atomically (via a .part)". *)
ArrivesWhole == \A n \in Names : dest[n] \in {Absent, Whole}

(* Claimed, and not kept by the code.  "We never fail just because a tarball
   is absent": no verb of mqlab stops for a tarball it could have downloaded.
   *)
NeverFailsForAbsence ==
    \A x \in Terminals : t[x].why = "absent" => t[x].own # pin

(* Claimed, and not kept by the code.  The exporter a box is baked with is a
   whole binary. *)
BakedWhole == box["mq-client"].whole
=============================================================================
