-------------------------- MODULE MCServerLifecycle --------------------------
(* Configurations that load and that do not. *)
EXTENDS ServerLifecycle

MCConfigs ==
    [file : {"valid", "invalid"}, enablePrivate : {TRUE}, privateFile : {"", "valid", "invalid"},
     heavyTasks : {0}, envPort : {"taken"}, defaultPort : {"free"}]
    \cup [file : {"valid"}, enablePrivate : {FALSE}, privateFile : {"invalid"},
          heavyTasks : {0, 2}, envPort : {"invalid"}, defaultPort : {"free"}]

=============================================================================
