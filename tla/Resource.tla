------------------------------- MODULE Resource -------------------------------
(***************************************************************************)
(* A value that a Dioxus component fetches (`use_resource`), as the        *)
(* components of crates/terrace-legal-dioxus use it.  The framework is not *)
(* in the repository.  It keeps the last value until the next one arrives, *)
(* and when something the fetch read has changed it cancels the fetch in   *)
(* flight and starts another, but not in the same step: `dirty` in between.*)
(***************************************************************************)
EXTENDS Integers

NoValue == [state |-> "pending"]
Ok(key, body) == [state |-> "ok", key |-> key, body |-> body]
Err(key) == [state |-> "err", key |-> key]

NoFetch == [at |-> "none"]
Asked(key) == [at |-> "asked", key |-> key]
Answered(value) == [at |-> "answered", value |-> value]

\* Not mounted.
Idle == [value |-> NoValue, fetch |-> NoFetch, dirty |-> FALSE]

\* The first fetch, and every restart: of a fetch in flight nothing is left.
Restarted(resource, key) ==
  [resource EXCEPT !.fetch = Asked(key), !.dirty = FALSE]

Mounted(key) == Restarted(Idle, key)

\* The server answers; or nothing arrives and the transport reports an error.
Served(resource, body) ==
  [resource EXCEPT !.fetch = Answered(Ok(resource.fetch.key, body))]
Refused(resource) ==
  [resource EXCEPT !.fetch = Answered(Err(resource.fetch.key))]
Delivered(resource) ==
  [resource EXCEPT !.value = resource.fetch.value, !.fetch = NoFetch]
Lost(resource) ==
  [resource EXCEPT
     !.value = IF resource.fetch.at = "asked" THEN Err(resource.fetch.key)
               ELSE Err(resource.fetch.value.key),
     !.fetch = NoFetch]

InFlight(resource) == resource.fetch.at # "none"
Quiet(resource) == resource # Idle /\ ~ InFlight(resource) /\ ~ resource.dirty
==============================================================================
