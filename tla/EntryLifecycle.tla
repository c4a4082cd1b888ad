--------------------------- MODULE EntryLifecycle ---------------------------
(***************************************************************************)
(* Config entries from set-up to removal and the services they share       *)
(* (__init__.py), one step for the code between two awaits.                *)
(*                                                                         *)
(* Home Assistant's config entry manager is external: it holds an entry's  *)
(* lock over set-up, unload, reload and removal; it lists an entry until   *)
(* its removal is complete; it drops the update listeners of an entry and  *)
(* its runtime data when the entry has been unloaded.                      *)
(***************************************************************************)
EXTENDS Naturals

CONSTANTS
  Entries,     \* config entries a user may add
  MaxReloads   \* bound: reloads an entry waits for

ASSUME LifecycleAssumption == MaxReloads \in Nat \ {0}

VARIABLES
  listed,    \* hass.config_entries.async_entries(DOMAIN)
  phase,     \* where an entry's set-up or unload waits, or how it ended
  after,     \* what follows the unload
  current,   \* what was made of the options as they are now, after the last change
  runtime,   \* entry.runtime_data is there
  listeners, \* the entry's update listeners
  reloads,   \* reloads waiting for the entry's lock
  services,  \* the domain's services are registered
  call,      \* a service call: the entries it has still to visit, what it did
  loadedAll, \* history: entries loaded ever since the call began
  raced      \* history: options changed while the entry was being set up

calling == <<call, loadedAll>>
vars == <<listed, phase, after, current, runtime, listeners, reloads, services,
          call, loadedAll, raced>>

\* What async_setup_entry makes of the options: the endpoint matrix and the
\* coordinators
Parts == {"matrix", "bundle"}

Settled == {"off", "loaded", "retry", "error", "stuck"}
Requests == {"validate", "inventory", "state"}
Listening == {"loaded", "unloading", "stuck"}
Phases == Settled \cup Requests \cup {"matrix", "platforms", "unloading"}

Calls == [active : BOOLEAN, kind : {"refresh", "history"}, at : SUBSET Entries,
          todo : SUBSET Entries, served : SUBSET Entries, failed : BOOLEAN]

TypeOK ==
  /\ listed \subseteq Entries
  /\ phase \in [Entries -> Phases]
  /\ after \in [Entries -> {"stay", "setup", "remove"}]
  /\ current \in [Entries -> SUBSET Parts]
  /\ runtime \in [Entries -> BOOLEAN]
  /\ listeners \in [Entries -> Nat]
  /\ reloads \in [Entries -> 0..MaxReloads]
  /\ services \in BOOLEAN
  /\ call \in Calls
  /\ loadedAll \subseteq Entries
  /\ raced \in [Entries -> BOOLEAN]

NoCall == [active |-> FALSE, kind |-> "refresh", at |-> {}, todo |-> {},
           served |-> {}, failed |-> FALSE]

Init ==
  /\ listed = {}
  /\ phase = [e \in Entries |-> "off"]
  /\ after = [e \in Entries |-> "stay"]
  /\ current = [e \in Entries |-> {}]
  /\ runtime = [e \in Entries |-> FALSE]
  /\ listeners = [e \in Entries |-> 0]
  /\ reloads = [e \in Entries |-> 0]
  /\ services = FALSE
  /\ call = NoCall
  /\ loadedAll = {}
  /\ raced = [e \in Entries |-> FALSE]

Goto(e, p) == phase' = [phase EXCEPT ![e] = p]

-------------------------------------------------------------------------------
(* Set-up *)

\* async_setup_entry up to loading the matrix in the executor.  Without a token
\* or an OAuth implementation Home Assistant tries again later; with one the
\* spec path is read from the options.
Begin(e) ==
  \/ /\ Goto(e, "retry")
     /\ UNCHANGED <<current, raced>>
  \/ /\ Goto(e, "matrix")
     /\ current' = [current EXCEPT ![e] = {"matrix"}]
     /\ raced' = [raced EXCEPT ![e] = FALSE]

\* The bundle is made and published as runtime data before anything is checked
MatrixLoaded(e) ==
  /\ phase[e] = "matrix"
  /\ current' = [current EXCEPT ![e] = @ \cup {"bundle"}]
  /\ runtime' = [runtime EXCEPT ![e] = TRUE]
  /\ Goto(e, "validate")
  /\ UNCHANGED <<listed, after, listeners, reloads, services, calling, raced>>

\* async_validate_connection and the two first refreshes
RequestOk(e) ==
  /\ phase[e] \in Requests
  /\ Goto(e, CASE phase[e] = "validate"  -> "inventory"
               [] phase[e] = "inventory" -> "state"
               [] phase[e] = "state"     -> "platforms")
  /\ UNCHANGED <<listed, after, current, runtime, listeners, reloads, services, calling, raced>>

\* ConfigEntryAuthFailed passes; every other error is ConfigEntryNotReady.  The
\* runtime data stays.
RequestFails(e) ==
  /\ phase[e] \in Requests
  /\ Goto(e, "error") \/ Goto(e, "retry")
  /\ UNCHANGED <<listed, after, current, runtime, listeners, reloads, services, calling, raced>>

\* mutant: no update listener
PlatformsForwarded_deaf(e) ==
  /\ phase[e] = "platforms"
  /\ Goto(e, "loaded")
  /\ services' = TRUE
  /\ UNCHANGED <<listed, after, current, runtime, listeners, reloads, calling, raced>>

\* The platforms are set up: the rest of async_setup_entry
PlatformsForwarded(e) ==
  /\ phase[e] = "platforms"
  /\ Goto(e, "loaded")
  /\ listeners' = [listeners EXCEPT ![e] = @ + 1]
  /\ services' = TRUE
  /\ UNCHANGED <<listed, after, current, runtime, reloads, calling, raced>>

-------------------------------------------------------------------------------
(* Unload *)

\* Home Assistant calls unload_entry for loaded entries only
Unload(e, then) ==
  /\ phase[e] = "loaded"
  /\ Goto(e, "unloading")
  /\ after' = [after EXCEPT ![e] = then]
  /\ loadedAll' = loadedAll \ {e}

\* What Home Assistant does once unload_entry has returned
Leave(e) ==
  \/ /\ after[e] = "stay"
     /\ Goto(e, "off")
     /\ UNCHANGED <<listed, reloads, current, raced>>
  \/ /\ after[e] = "setup"
     /\ Begin(e)
     /\ UNCHANGED <<listed, reloads>>
  \/ /\ after[e] = "remove"
     /\ Goto(e, "off")
     /\ listed' = listed \ {e}
     /\ reloads' = [reloads EXCEPT ![e] = 0]
     /\ UNCHANGED <<current, raced>>

\* mutant: the services go with every entry
RemoveServices_always == services' = FALSE

\* The entry that is being unloaded is itself still listed
RemoveServices == services' = (services /\ listed # {})

\* mutant: the update listener is not tied to the entry's unload
DropListeners_never(e) == UNCHANGED listeners

\* entry.async_on_unload(entry.add_update_listener(...))
DropListeners(e) == listeners' = [listeners EXCEPT ![e] = 0]

PlatformsUnloaded(e) ==
  /\ phase[e] = "unloading"
  /\ RemoveServices
  /\ DropListeners(e)
  /\ runtime' = [runtime EXCEPT ![e] = FALSE]
  /\ Leave(e)
  /\ after' = [after EXCEPT ![e] = "stay"]
  /\ UNCHANGED calling

\* unload_entry returns False or raises: nothing is undone, and nothing follows
\* but the removal
UnloadFails(e) ==
  /\ phase[e] = "unloading"
  /\ IF after[e] = "remove"
     THEN /\ Goto(e, "off")
          /\ listed' = listed \ {e}
          /\ reloads' = [reloads EXCEPT ![e] = 0]
          /\ runtime' = [runtime EXCEPT ![e] = FALSE]
          /\ listeners' = [listeners EXCEPT ![e] = 0]
     ELSE Goto(e, "stuck") /\ UNCHANGED <<listed, reloads, runtime, listeners>>
  /\ after' = [after EXCEPT ![e] = "stay"]
  /\ UNCHANGED <<current, services, calling, raced>>

-------------------------------------------------------------------------------
(* The user and Home Assistant, which act on an entry whose lock is free *)

Add(e) ==
  /\ e \notin listed
  /\ listed' = listed \cup {e}
  /\ Begin(e)
  /\ UNCHANGED <<after, runtime, listeners, reloads, services, calling>>

\* Enabled, or tried again
SetUpAgain(e) ==
  /\ e \in listed /\ phase[e] \in {"off", "retry"}
  /\ Begin(e)
  /\ UNCHANGED <<listed, after, runtime, listeners, reloads, services, calling>>

\* Disabled; an entry that failed just stops being tried
Disable(e) ==
  /\ \/ Unload(e, "stay")
     \/ /\ phase[e] \in {"retry", "error"}
        /\ Goto(e, "off")
        /\ UNCHANGED <<after, loadedAll>>
  /\ UNCHANGED <<listed, current, runtime, listeners, reloads, services, call, raced>>

Remove(e) ==
  /\ e \in listed
  /\ \/ /\ Unload(e, "remove")
        /\ UNCHANGED <<listed, runtime, listeners, reloads>>
     \/ /\ phase[e] \in Settled \ {"loaded"}
        /\ Goto(e, "off")
        /\ listed' = listed \ {e}
        /\ reloads' = [reloads EXCEPT ![e] = 0]
        /\ runtime' = [runtime EXCEPT ![e] = FALSE]
        /\ listeners' = [listeners EXCEPT ![e] = 0]
        /\ UNCHANGED <<after, loadedAll>>
  /\ UNCHANGED <<current, services, call, raced>>

\* The options flow, at any time: each update listener is a task that reloads
UpdateOptions(e) ==
  /\ e \in listed
  /\ reloads[e] + listeners[e] <= MaxReloads
  /\ current' = [current EXCEPT ![e] = {}]
  /\ reloads' = [reloads EXCEPT ![e] = @ + listeners[e]]
  /\ raced' = [raced EXCEPT ![e] = phase[e] \notin Listening]
  /\ UNCHANGED <<listed, phase, after, runtime, listeners, services, calling>>

\* The reauthentication flow, which a failed set-up or a refresh has begun, at any
\* time: Home Assistant reloads the entry, and so does each update listener,
\* which hears of new data as it does of new options
Reauthenticated(e) ==
  /\ e \in listed
  /\ reloads[e] + listeners[e] < MaxReloads
  /\ reloads' = [reloads EXCEPT ![e] = @ + listeners[e] + 1]
  /\ UNCHANGED <<listed, phase, after, current, runtime, listeners, services, calling, raced>>

\* async_reload_entry gets the lock; a disabled entry stays off and one whose
\* unload failed cannot be reloaded
Reload(e) ==
  /\ reloads[e] > 0
  /\ reloads' = [reloads EXCEPT ![e] = @ - 1]
  /\ \/ Unload(e, "setup") /\ UNCHANGED <<current, raced>>
     \/ phase[e] \in {"retry", "error"} /\ Begin(e) /\ UNCHANGED <<after, loadedAll>>
     \/ phase[e] \in {"off", "stuck"} /\ UNCHANGED <<phase, after, current, raced, loadedAll>>
  /\ UNCHANGED <<listed, runtime, listeners, services, call>>

-------------------------------------------------------------------------------
(* Service calls, one at a time *)

\* The handler takes the list of entries once
StartCall ==
  /\ services /\ ~call.active
  /\ \E kind \in {"refresh", "history"} :
       call' = [NoCall EXCEPT !.active = TRUE, !.kind = kind, !.todo = listed]
  /\ loadedAll' = {e \in Entries : phase[e] = "loaded"}
  /\ UNCHANGED <<listed, phase, after, current, runtime, listeners, reloads, services, raced>>

\* mutant: only the first entry with runtime data is visited
Visit_first(e) ==
  /\ call.active /\ call.at = {} /\ e \in call.todo
  /\ call' = IF runtime[e]
             THEN [call EXCEPT !.todo = {}, !.at = {e}]
             ELSE [call EXCEPT !.todo = @ \ {e}]
  /\ UNCHANGED <<listed, phase, after, current, runtime, listeners, reloads, services,
                 loadedAll, raced>>

\* The next entry: an entry without runtime data is passed over
Visit(e) ==
  /\ call.active /\ call.at = {} /\ e \in call.todo
  /\ call' = [call EXCEPT !.todo = @ \ {e}, !.at = IF runtime[e] THEN {e} ELSE {}]
  /\ UNCHANGED <<listed, phase, after, current, runtime, listeners, reloads, services,
                 loadedAll, raced>>

\* async_refresh_all does not raise; a failed history request ends the call
Answer ==
  /\ call.at # {}
  /\ \/ call' = [call EXCEPT !.at = {}, !.served = @ \cup call.at]
     \/ /\ call.kind = "history"
        /\ call' = [call EXCEPT !.active = FALSE, !.at = {}, !.todo = {}, !.failed = TRUE]
  /\ UNCHANGED <<listed, phase, after, current, runtime, listeners, reloads, services,
                 loadedAll, raced>>

EndCall ==
  /\ call.active /\ call.at = {} /\ call.todo = {}
  /\ call' = [call EXCEPT !.active = FALSE]
  /\ UNCHANGED <<listed, phase, after, current, runtime, listeners, reloads, services,
                 loadedAll, raced>>

-------------------------------------------------------------------------------
Next ==
  \/ \E e \in Entries :
       \/ MatrixLoaded(e) \/ RequestOk(e) \/ RequestFails(e) \/ PlatformsForwarded(e)
       \/ PlatformsUnloaded(e) \/ UnloadFails(e)
       \/ Add(e) \/ SetUpAgain(e) \/ Disable(e) \/ Remove(e)
       \/ UpdateOptions(e) \/ Reauthenticated(e) \/ Reload(e)
       \/ Visit(e)
  \/ StartCall \/ Answer \/ EndCall

Spec == Init /\ [][Next]_vars

-------------------------------------------------------------------------------
(* Properties *)

\* The services are there as long as an entry is loaded, whatever other entries
\* are set up, unloaded or removed meanwhile.
ServicesWhileLoaded ==
  (\E e \in Entries : phase[e] = "loaded") => services

\* Reloads do not pile up update listeners: an entry has one from the end of
\* its set-up to the end of its unload, and else none.
OneListener ==
  \A e \in Entries : listeners[e] = IF phase[e] \in Listening THEN 1 ELSE 0

\* A service call that has returned has served every entry that was loaded all
\* the while, unless it reported a failure.
CallServesAll ==
  ~call.active => call.failed \/ loadedAll \subseteq call.served

\* A loaded entry works with its options as they are, unless a reload is due or
\* they changed during its set-up.
OptionsApplied ==
  \A e \in Entries :
    phase[e] = "loaded" /\ reloads[e] = 0 /\ ~raced[e] => current[e] = Parts

\* What makes them inductive: an entry that is anywhere is listed; it has its
\* runtime data once the connection is checked; what set-up has made so far is
\* of the options as they are unless they changed since; an entry that was
\* loaded all the while is still loaded, and visited, being visited or to come.
SetupInv ==
  \A e \in Entries :
    /\ phase[e] # "off" => e \in listed
    /\ phase[e] \in Requests \cup {"platforms", "loaded"} => runtime[e]
    /\ phase[e] = "matrix" /\ ~raced[e] => "matrix" \in current[e]
    /\ phase[e] \in Requests \cup {"platforms"} /\ ~raced[e] => current[e] = Parts

CallInv ==
  /\ \A e \in loadedAll : phase[e] = "loaded"
  /\ call.active => loadedAll \subseteq call.served \cup call.at \cup call.todo
  /\ call.at # {} => call.active

IInv ==
  /\ TypeOK
  /\ SetupInv
  /\ CallInv
  /\ ServicesWhileLoaded
  /\ OneListener
  /\ CallServesAll
  /\ OptionsApplied

===============================================================================
