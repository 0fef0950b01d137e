------------------------------ MODULE Heartbeat ------------------------------
(***************************************************************************)
(* The Ansible module rdqm_corosync_heartbeat: it sets the heartbeat       *)
(* timeout of an RDQM HA group in corosync.conf, a file rdqmadm owns, by   *)
(* one edit per pass, re-reading the lines after each, and replaces the    *)
(* file at the end.  Plays run it again and again, with one token or       *)
(* another, and rdqmadm may write the file anew in between.                *)
(*                                                                         *)
(* A file is what parse sees of it: whether its braces balance, how many   *)
(* totem sections it has, the token, the interface blocks in their order   *)
(* with their keys, and the rings of the nodelist.  Unset is no such key.  *)
(***************************************************************************)
EXTENDS Integers, Sequences, FiniteSets, FiniteSetsExt

CONSTANTS
    Tokens,      \* timeouts asked for, in ms
    MaxRuns      \* bound on runs of the module and of rdqmadm

HeartbeatAssumption == Tokens \subseteq Nat /\ MaxRuns \in Nat

TOKEN_MIN == 3000
TOKEN_MAX == 120000
Unset == -1
KnetKeys == <<"knet_ping_timeout", "knet_ping_interval", "knet_pong_count">>
KeySet == {KnetKeys[n] : n \in 1..3}

heartbeat_values(token) ==
    [knet_ping_timeout |-> token \div 2, knet_ping_interval |-> token \div 20,
     knet_pong_count |-> 2]

Block(link, keys) == [link |-> link, keys |-> keys]
NoKeys == [k \in KeySet |-> Unset]

VARIABLES
    file,     \* /etc/corosync/corosync.conf
    lines,    \* the copy being edited
    token,    \* the timeout of the running task, 0 for none
    left,     \* passes left
    failed,   \* how the last task failed
    runs
vars == <<file, lines, token, left, failed, runs>>

-----------------------------------------------------------------------------
\* parse and _totem: the file can be edited safely.
one_totem(f) == f.totems = 1

safe(f) == f.balanced /\ one_totem(f)

heartbeat_links(f) == IF f.rings = {} THEN {0} ELSE f.rings

\* A block without linknumber is link 0.  The first block of a link counts.
interface(f, l) ==
    LET at == {n \in 1..Len(f.blocks) :
                  (IF f.blocks[n].link = Unset THEN 0 ELSE f.blocks[n].link) = l}
    IN IF at = {} THEN 0 ELSE Min(at)

(***************************************************************************)
(* _next_edit: the token, then link by link its block and its keys in      *)
(* order; the first that is missing or different is set.                   *)
(***************************************************************************)
KeyWrong(f, l, n, t) == f.blocks[interface(f, l)].keys[KnetKeys[n]] # heartbeat_values(t)[KnetKeys[n]]

LinkWrong(f, l, t) == interface(f, l) = 0 \/ \E n \in 1..3 : KeyWrong(f, l, n, t)

Edited(f, t) == f.token = t /\ \A l \in heartbeat_links(f) : ~LinkWrong(f, l, t)

next_edit(f, t) ==
    IF f.token # t THEN [f EXCEPT !.token = t]
    ELSE LET l == Min({x \in heartbeat_links(f) : LinkWrong(f, x, t)})
             b == interface(f, l)
         IN IF b = 0 THEN [f EXCEPT !.blocks = Append(@, Block(l, NoKeys))]
            ELSE LET k == KnetKeys[Min({n \in 1..3 : KeyWrong(f, l, n, t)})]
                 IN [f EXCEPT !.blocks[b].keys[k] = heartbeat_values(t)[k]]

passes(f) == 2 + 4 * Cardinality(heartbeat_links(f))

-----------------------------------------------------------------------------
(***************************************************************************)
(* What rdqmadm -c or a hand leaves: some or all of the keys, up to two    *)
(* interface blocks, no, one or two rings; or a file that does not parse.  *)
(***************************************************************************)
Blocks == {Block(n, [NoKeys EXCEPT !["knet_ping_timeout"] = a, !["knet_pong_count"] = b]) :
              n \in {Unset, 0, 1}, a \in {Unset, 1500}, b \in {Unset, 2}}

Files ==
    {[balanced |-> TRUE, totems |-> 1, token |-> t, blocks |-> bs, rings |-> r] :
        t \in {Unset, 1000, 3000},
        bs \in {<<>>} \cup {<<b>> : b \in Blocks} \cup {<<b, c>> : b, c \in Blocks},
        r \in {{}, {0}, {0, 1}}}
    \cup {[balanced |-> b, totems |-> n, token |-> 3000, blocks |-> <<>>, rings |-> {}] :
             b \in BOOLEAN, n \in {0, 2}}

Init ==
    /\ file \in Files
    /\ lines = file /\ token = 0 /\ left = 0
    /\ failed = "no" /\ runs = 0

\* apply_heartbeat: the range, the file read and parsed, the passes counted.
Start(t) ==
    /\ token = 0 /\ runs < MaxRuns /\ runs' = runs + 1
    /\ IF t \in TOKEN_MIN..TOKEN_MAX /\ safe(file)
         THEN token' = t /\ lines' = file /\ left' = passes(file) /\ failed' = "no"
         ELSE failed' = "refused" /\ UNCHANGED <<token, lines, left>>
    /\ UNCHANGED file

\* One edit; the task fails, the file untouched, when that was the last pass.
Pass ==
    /\ token # 0 /\ ~Edited(lines, token)
    /\ lines' = next_edit(lines, token)
    /\ left' = left - 1
    /\ IF left > 1
         THEN UNCHANGED <<token, failed>>
         ELSE token' = 0 /\ failed' = "did not converge"
    /\ UNCHANGED <<file, runs>>

\* A pass finds nothing to edit: the file is moved into place if it changed.
Finish ==
    /\ token # 0
    /\ Edited(lines, token)
    /\ file' = lines
    /\ token' = 0 /\ left' = 0
    /\ UNCHANGED <<lines, failed, runs>>

\* The play is killed: the temporary file beside it is not the configuration.
Cut ==
    /\ token # 0
    /\ token' = 0 /\ left' = 0
    /\ UNCHANGED <<file, lines, failed, runs>>

\* The nodelist grows a second ring, with the blocks as they are.
Rdqmadm ==
    /\ token = 0 /\ runs < MaxRuns /\ runs' = runs + 1
    /\ file' = [file EXCEPT !.rings = {0, 1}]
    /\ UNCHANGED <<lines, token, left, failed>>

Next ==
    \/ \E t \in Tokens : Start(t)
    \/ Pass
    \/ Finish
    \/ Cut
    \/ Rdqmadm

Spec == Init /\ [][Next]_vars

-----------------------------------------------------------------------------
TypeOK ==
    /\ token \in {0} \cup (Tokens \cap TOKEN_MIN..TOKEN_MAX)
    /\ left \in 0..10 /\ runs \in 0..MaxRuns
    /\ failed \in {"no", "refused", "did not converge"}
    /\ \A n \in 1..Len(file.blocks) : file.blocks[n].link \in {Unset, 0, 1}

(* apply_heartbeat never runs out of passes: the token, and per link a block
   and three keys, and one pass to see that nothing is left.  Its last line,
   "the edit did not converge", is unreachable whatever rdqmadm wrote. *)
AlwaysConverges == failed # "did not converge"

(* What IBM's procedure asks of a file the module has finished, stated from
   the file alone: each heartbeat link has a block, the block corosync knows
   by that number, with the token's half, its twentieth and 2. *)
IbmProcedureStep ==
  Finish =>
      /\ file'.token = token
      /\ \A l \in (IF file.rings = {} THEN {0} ELSE file.rings) :
           \E n \in 1..Len(file'.blocks) :
             /\ file'.blocks[n].link = l \/ (l = 0 /\ file'.blocks[n].link = Unset)
             /\ \A m \in 1..n-1 : file'.blocks[m].link # l /\ (l = 0 => file'.blocks[m].link # Unset)
             /\ 2 * file'.blocks[n].keys["knet_ping_timeout"] \in {token - 1, token}
             /\ token - 20 * file'.blocks[n].keys["knet_ping_interval"] \in 0..19
             /\ file'.blocks[n].keys["knet_pong_count"] = 2
IbmProcedure == [][IbmProcedureStep]_vars

(* "a second run on an edited file changes nothing", and a block is added
   only for a link that has none: the blocks of one link never multiply. *)
Numbered(f, l) ==
    {n \in 1..Len(f.blocks) : f.blocks[n].link = l \/ (l = 0 /\ f.blocks[n].link = Unset)}
IdempotentStep ==
  file' # file /\ token # 0 =>
      /\ ~Edited(file, token)
      /\ \A l \in {0, 1} :
           Cardinality(Numbered(file', l)) <= Max({1, Cardinality(Numbered(file, l))})
Idempotent == [][IdempotentStep]_vars

(* The configuration corosync reads is the one before the task or the one
   after it: a task that is refused, fails or is killed leaves it alone. *)
AllOrNothingStep ==
  file' # file /\ token # 0 => Edited(file', token)
AllOrNothing == [][AllOrNothingStep]_vars
=============================================================================
