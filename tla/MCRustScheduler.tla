-------------------------- MODULE MCRustScheduler --------------------------
\* An instance of RustScheduler with profiles of the worker's list
\* (core_scheduler/mod.rs), their priorities kept in their order.
EXTENDS RustScheduler

Base ==
    [lane |-> "foreground", priority |-> 100, maxConcurrency |-> 1, coalesce |-> TRUE,
     cached |-> TRUE, interactive |-> TRUE, backgroundThrottle |-> FALSE, scoped |-> TRUE,
     cancelQueuedOnNewer |-> TRUE, discardStaleResults |-> TRUE, dropQueuedOnOverflow |-> TRUE,
     nasSensitive |-> FALSE, adaptiveThrottle |-> FALSE, maxQueued |-> 8]

MCCommands == {"page", "save", "backup"}

MCProfile == [c \in MCCommands |->
    CASE c = "page" -> [Base EXCEPT !.maxConcurrency = 2]
      [] c = "save" -> [Base EXCEPT !.lane = "io", !.priority = 50, !.coalesce = FALSE,
                                    !.cached = FALSE, !.interactive = FALSE, !.scoped = FALSE,
                                    !.dropQueuedOnOverflow = FALSE, !.nasSensitive = TRUE,
                                    !.adaptiveThrottle = TRUE]
      [] OTHER -> [Base EXCEPT !.lane = "maintenance", !.priority = 10,
                               !.coalesce = FALSE, !.cached = FALSE,
                               !.interactive = FALSE, !.backgroundThrottle = TRUE,
                               !.scoped = FALSE, !.nasSensitive = TRUE,
                               !.adaptiveThrottle = TRUE, !.maxQueued = 1]]

\* Two different pages, a save and a backup.
PageKeys == {"page1", "page2", "save1", "backup1"}
PageCommandOf == [k \in PageKeys |->
    CASE k \in {"page1", "page2"} -> "page" [] k = "save1" -> "save" [] OTHER -> "backup"]
MCQueries == {"page"}
=============================================================================
