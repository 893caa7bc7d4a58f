------------------------------ MODULE MCServers ------------------------------
(* The components that work between servers, for TLC: each initial state   *)
(* chooses one of them, and only that one takes steps.                     *)
EXTENDS Scheduler, BroadcastQueue, Migrations, QueryBuilder, Mail

VARIABLE focus

Foci == {"scheduler", "broadcast", "migrations", "query", "mail"}

serversVars ==
    <<schedulerVars, broadcastVars, migrationVars, queryVars, mailVars, focus>>

ServersInit ==
    /\ focus \in Foci
    /\ SchedulerInit /\ BroadcastInit /\ MigrationsInit /\ QueryInit /\ MailInit
    /\ focus # "query" => /\ dbAdapter = CHOOSE a \in Adapters : TRUE
                          /\ table = [id \in RowIds |-> 0]
    /\ focus # "mail" => mailDriver = CHOOSE d \in MailDrivers : TRUE

ServersNext ==
    /\ UNCHANGED focus
    /\ \/ /\ focus = "scheduler" /\ SchedulerNext
          /\ UNCHANGED <<broadcastVars, migrationVars, queryVars, mailVars>>
       \/ /\ focus = "broadcast" /\ BroadcastNext
          /\ UNCHANGED <<schedulerVars, migrationVars, queryVars, mailVars>>
       \/ /\ focus = "migrations" /\ MigrationsNext
          /\ UNCHANGED <<schedulerVars, broadcastVars, queryVars, mailVars>>
       \/ /\ focus = "query" /\ QueryNext
          /\ UNCHANGED <<schedulerVars, broadcastVars, migrationVars, mailVars>>
       \/ /\ focus = "mail" /\ MailNext
          /\ UNCHANGED <<schedulerVars, broadcastVars, migrationVars, queryVars>>

ServersSpec == ServersInit /\ [][ServersNext]_serversVars

TwoQueues == <<"q1", "q2">>

OneReconnects == "p1" :> 1 @@ "p2" :> 2

ThreeFiles == <<"f1", "f2", "f3">>

OneOrTwo == {<<1>>, <<2>>}

Message(recipients, dotted, complete) ==
    [recipients |-> recipients, dotted |-> dotted, complete |-> complete]

ThreeMessages == {Message(2, FALSE, TRUE), Message(1, TRUE, TRUE), Message(1, FALSE, FALSE)}

=============================================================================
