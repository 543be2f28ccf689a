----------------------------- MODULE RepoConfig -----------------------------
(***************************************************************************)
(* The configuration of one running daemon: the file in the repository,    *)
(* the parsed object FSRepo.config points to, and the commands that change *)
(* both (core/commands/config.go, bootstrap.go, swarm.go, pin/remotepin.go *)
(* over repo/fsrepo/fsrepo.go).  FSRepo.Config returns the pointer, so a   *)
(* command that edits what it got edits the object every other command and *)
(* service of the daemon reads.                                            *)
(*                                                                         *)
(* A configuration is abstracted to its lists of strings (the bootstrap    *)
(* peers, the address filters, the remote pinning services), one plain     *)
(* setting, the private key and, in the file only, a key that no struct    *)
(* field reads.  WriteConfigFile replaces the file atomically.             *)
(***************************************************************************)
EXTENDS FiniteSets, Integers

CONSTANTS Threads,     \* goroutines of the daemon that run commands
          MaxCmds,     \* bound: commands started
          Items,       \* peers, filters and service names
          Settings,    \* values of the plain setting
          MaxEdits,    \* bound: saves made by an editor
          MaxFails     \* bound: writes of the file that fail

ASSUME ConfigAssumption == IsFiniteSet(Threads) /\ Settings # {}

Lists == {"bootstrap", "filters", "services"}
Objs == 0..(Cardinality(Threads) + 1)
Object == [bootstrap : SUBSET Items, filters : SUBSET Items, services : SUBSET Items,
           setting : Settings, priv : {"key", "other"}]

VARIABLES file,    \* the config file: an Object and the user's own key
          heap,    \* the config objects in memory
          cur,     \* FSRepo.config, an index of heap
          cPc,     \* cPc[t]: where t's command is; "refill", "added" are an addition's
          cfg,     \* cfg[t]: the object t's command works on
          list,    \* list[t]: the list it changes
          fill,    \* fill[t]: what it is about to write there
          live,    \* the filters the swarm applies (n.Filters)
          cmds, edits, fails

cVars == <<file, heap, cur, cPc, cfg, list, fill, live, cmds, edits, fails>>

Fields(f) == [k \in DOMAIN f \ {"user"} |-> f[k]]

CInit ==
    /\ \E b \in Items :
         heap = [o \in Objs |-> [bootstrap |-> {b}, filters |-> {}, services |-> {},
                                 setting |-> CHOOSE s \in Settings : TRUE, priv |-> "key"]]
    /\ file = [k \in DOMAIN heap[0] \cup {"user"} |-> IF k = "user" THEN "kept" ELSE heap[0][k]]
    /\ cur = 0
    /\ cPc = [t \in Threads |-> "idle"]
    /\ cfg = [t \in Threads |-> 0]
    /\ list = [t \in Threads |-> "bootstrap"]
    /\ fill = [t \in Threads |-> {}]
    /\ live = {}
    /\ cmds = 0 /\ edits = 0 /\ fails = 0

\* An object nobody points to: what the allocator hands out.
Fresh == CHOOSE o \in Objs : o # cur /\ \A t \in Threads : cPc[t] = "idle" \/ cfg[t] # o

\* Objects nobody points to any more are collected.
Collected(h, o, p, c) == [x \in Objs |-> IF \E t \in Threads : p[t] # "idle" /\ c[t] = x THEN h[x] ELSE h[o]]

\* A command starts on an idle goroutine.
Count == cmds < MaxCmds /\ cmds' = cmds + 1
Begin(t) == cPc[t] = "idle" /\ Count

\* The command returns.
CDone(t) ==
    /\ cPc' = [cPc EXCEPT ![t] = "idle"]
    /\ cfg' = [cfg EXCEPT ![t] = 0]
    /\ list' = [list EXCEPT ![t] = "bootstrap"]
    /\ fill' = [fill EXCEPT ![t] = {}]

\* mutant: the struct is written without reading the file first.
OverlayNothing(f, c) == [k \in DOMAIN f |-> IF k \in DOMAIN c THEN c[k] ELSE "lost"]

\* The map setConfigUnsynced writes: the file, overlaid with every field.
Overlay(f, c) == [k \in DOMAIN f |-> IF k \in DOMAIN c THEN c[k] ELSE f[k]]

-----------------------------------------------------------------------------
(* Commands that edit the object Config returned, then call SetConfig.     *)

Edits(t, l, new, next) ==
    /\ fill' = [fill EXCEPT ![t] = new]
    /\ cfg' = [cfg EXCEPT ![t] = cur]
    /\ list' = [list EXCEPT ![t] = l]
    /\ cPc' = [cPc EXCEPT ![t] = next]
    /\ UNCHANGED <<file, cur, edits, fails>>

\* bootstrapAdd and filtersAdd set the list to nil before they build it again.
ListAdd(t, l, s) ==
    /\ Begin(t)
    /\ heap' = [heap EXCEPT ![cur][l] = {}]
    /\ Edits(t, l, {s} \cup heap[cur][l], "refill")

\* bootstrapRemove and filtersRemove compute the entries to keep, then store them.
ListRemove(t, l, s) ==
    /\ Begin(t)
    /\ Edits(t, l, heap[cur][l] \ {s}, "fill")
    /\ UNCHANGED heap

\* The second half of both: the new list is stored in the object.
ListFill(t) ==
    /\ cPc[t] \in {"fill", "refill"}
    /\ heap' = [heap EXCEPT ![cfg[t]][list[t]] = fill[t]]
    /\ cPc' = [cPc EXCEPT ![t] = IF @ = "refill" THEN "added" ELSE "save"]
    /\ UNCHANGED <<file, cur, cfg, list, fill, live, cmds, edits, fails>>

\* bootstrapRemoveAll and filtersRemoveAll.
ListRemoveAll(t, l) ==
    /\ Begin(t)
    /\ heap' = [heap EXCEPT ![cur][l] = {}]
    /\ Edits(t, l, {}, "save")

BootstrapAdd(t, s) == ListAdd(t, "bootstrap", s) /\ UNCHANGED live

BootstrapRemove(t, s) == ListRemove(t, "bootstrap", s) /\ UNCHANGED live

BootstrapRemoveAll(t) == ListRemoveAll(t, "bootstrap") /\ UNCHANGED live

\* The swarm applies a new filter before the config is touched.
FiltersAdd(t, s) == ListAdd(t, "filters", s) /\ live' = live \cup {s}

FiltersRemove(t, s) == ListRemove(t, "filters", s) /\ live' = live \ {s}

FiltersRemoveAll(t) == ListRemoveAll(t, "filters") /\ live' = {}

\* swarm filters add with an argument that does not parse: the filters before it
\* are applied and the config is not touched.
FiltersAddError(s) ==
    /\ Count
    /\ live' = live \cup {s}
    /\ UNCHANGED <<file, heap, cur, cPc, cfg, list, fill, edits, fails>>

\* pin remote service add, refused when the name is present.
ServiceAdd(t, s) ==
    /\ Begin(t)
    /\ s \notin heap[cur].services
    /\ heap' = [heap EXCEPT ![cur].services = @ \cup {s}]
    /\ Edits(t, "services", {}, "save")
    /\ UNCHANGED live

\* pin remote service rm.
ServiceRemove(t, s) ==
    /\ Begin(t)
    /\ heap' = [heap EXCEPT ![cur].services = @ \ {s}]
    /\ Edits(t, "services", {}, "save")
    /\ UNCHANGED live

-----------------------------------------------------------------------------
(* Commands that work on an object of their own.                           *)

WorkOn(t, c) ==
    /\ heap' = [heap EXCEPT ![Fresh] = c]
    /\ cfg' = [cfg EXCEPT ![t] = Fresh]
    /\ cPc' = [cPc EXCEPT ![t] = "save"]
    /\ UNCHANGED <<file, cur, list, fill, live, edits, fails>>

\* transformConfig clones the config it read and transforms the clone.
Transformed(v) == [heap[cur] EXCEPT !.setting = v]

\* config profile apply, without --dry-run.
ProfileApply(t, v) == Begin(t) /\ WorkOn(t, Transformed(v))

ReplacementAsGiven(b, v) ==   \* mutant: the private key is not taken over
    [bootstrap |-> b, filters |-> {}, services |-> file.services, setting |-> v, priv |-> "other"]

\* replaceConfig: a new config may not name a private key, nor other services than
\* the file does; both are taken over from the file.
Replacement(b, v) ==
    [bootstrap |-> b, filters |-> {}, services |-> file.services, setting |-> v, priv |-> file.priv]

Replace(t, b, v) == Begin(t) /\ WorkOn(t, Replacement(b, v))

SetConfigFileOnly(t) ==   \* mutant: the object is not made the current one
    /\ cPc[t] \in {"save", "added"}
    /\ file' = Overlay(file, heap[cfg[t]])
    /\ CDone(t)
    /\ heap' = Collected(heap, cur, cPc', cfg')
    /\ UNCHANGED <<cur, cmds, live, edits, fails>>

\* SetConfig, under packageLock.
SetConfig(t) ==
    /\ cPc[t] \in {"save", "added"}
    /\ file' = Overlay(file, heap[cfg[t]])
    /\ cur' = cfg[t]
    /\ CDone(t)
    /\ heap' = Collected(heap, cur', cPc', cfg')
    /\ UNCHANGED <<cmds, live, edits, fails>>

\* The file is not read or not written: the command fails, the object it
\* edited in place stays as it is.
SetConfigError(t) ==
    /\ cPc[t] \in {"save", "added"} /\ fails < MaxFails
    /\ fails' = fails + 1
    /\ CDone(t)
    /\ heap' = Collected(heap, cur, cPc', cfg')
    /\ UNCHANGED <<file, cur, live, cmds, edits>>

-----------------------------------------------------------------------------
(* Commands and events that are one step.                                  *)

\* The file after MapSetKV of the key, with the private key put back.
SetKV(f, k, v) == [[f EXCEPT ![k] = v] EXCEPT !.priv = f.priv]

\* SetConfigKey reads, changes and writes the file under
\* packageLock and makes the object it parsed the current one.
SetConfigKey(k, v) ==
    /\ Count
    /\ file' = SetKV(file, k, v)
    /\ cur' = Fresh
    /\ heap' = Collected([heap EXCEPT ![cur'] = Fields(file')], cur', cPc, cfg)
    /\ UNCHANGED <<cPc, cfg, list, fill, live, edits, fails>>

\* ipfs config edit: an editor of another process saves the file.
Edit ==
    /\ edits < MaxEdits
    /\ edits' = edits + 1
    /\ \E v \in Settings : file' = [file EXCEPT !.setting = v, !.user = "edited"]
    /\ UNCHANGED <<cmds, heap, cur, cPc, cfg, list, fill, live, fails>>

\* config <key> <value>: the private key and the credentials of the services are
\* refused, any other key is written.
ConfigCmd == (\E v \in Settings : SetConfigKey("setting", v)) \/ SetConfigKey("user", "set")

CNext ==
    \/ \E t \in Threads :
          \/ \E s \in Items : BootstrapAdd(t, s) \/ BootstrapRemove(t, s) \/ FiltersAdd(t, s) \/ FiltersRemove(t, s)
          \/ \E s \in Items : ServiceAdd(t, s) \/ ServiceRemove(t, s)
          \/ BootstrapRemoveAll(t) \/ FiltersRemoveAll(t) \/ ListFill(t)
          \/ \E v \in Settings : ProfileApply(t, v) \/ \E b \in SUBSET Items : Replace(t, b, v)
          \/ SetConfig(t) \/ SetConfigError(t)
    \/ \E s \in Items : FiltersAddError(s)
    \/ ConfigCmd
    \/ Edit

CSpec == CInit /\ [][CNext]_cVars

-----------------------------------------------------------------------------
(* Properties.                                                             *)

CTypeOK ==
    /\ Fields(file) \in Object /\ file.user \in {"kept", "set", "edited"}
    /\ heap \in [Objs -> Object] /\ cur \in Objs
    /\ cPc \in [Threads -> {"idle", "fill", "refill", "save", "added"}]
    /\ cfg \in [Threads -> Objs] /\ list \in [Threads -> Lists] /\ fill \in [Threads -> SUBSET Items]
    /\ live \subseteq Items

Quiet == \A t \in Threads : cPc[t] = "idle"

\* When no command is running, what the daemon uses is what the file says, unless
\* an editor or a failed write came between (setConfigUnsynced stores both).
MemoryIsFile == Quiet /\ edits = 0 /\ fails = 0 => heap[cur] = Fields(file)

\* No sequence or interleaving of commands changes the private key in the file
\* (SetConfigKey puts it back, config replace takes it over).
PrivateKeyKept == file.priv = "key"

\* "to avoid clobbering user-provided keys" (setConfigUnsynced): a key of the file
\* that the daemon does not know survives every command but the one that sets it.
UserKeyKept == [][file'.user = file.user \/ file'.user = "set" \/ edits' # edits]_cVars

\* With no command running the daemon's configuration is the one in the file, unless an editor or a
\* failed write came between, and no interleaving of commands loses the private key or a key that
\* the daemon does not know (setConfigUnsynced, SetConfigKey).
ConfigKept == [](MemoryIsFile /\ PrivateKeyKept) /\ UserKeyKept

\* All commands that are running are additions, and no write failed.
Adding == fails = 0 /\ edits = 0 /\ \A t \in Threads : cPc[t] \in {"idle", "refill", "added"}

\* ipfs bootstrap add: "Add peers to the bootstrap list."  While only additions
\* run, saving one of them removes no peer from the list in the file.  The code
\* does not keep this: see the README.
AddOnlyAdds ==
    [][Adding /\ (\E t \in Threads : cPc[t] = "added" /\ cPc'[t] = "idle") => file.bootstrap \subseteq file'.bootstrap]_cVars
=============================================================================
