---------------------------- MODULE HealthReadings -----------------------------
(* Values of the constants of HealthChecks: a calm reading of two servers    *)
(* and a proxy, what can be wrong with one, and the configurations.          *)
EXTENDS Integers, FiniteSetsExt

HServers == {"proxy", "survival", "lobby"}

Overview(newPlayers, uniqueDay, online) ==
  [answer |-> "ok", newPlayers |-> newPlayers, uniqueDay |-> uniqueDay, online |-> online]

Aged(f, age, n) == [platform |-> f, dated |-> TRUE, age |-> age, n |-> n]

\* A part of them registered ahead of the clock, one at a date nobody can read.
Table(offline) ==
  [ answer |-> "ok",
    players |-> { Aged("java_premium", 2, 1), Aged("java_premium", -3, 1),
                  Aged("java_offline", 7, offline), Aged("java_premium", 8, 9),
                  [Aged("unknown", 0, 1) EXCEPT !.dated = FALSE] } ]

Users(total, silence) ==
  [answer |-> "ok", total |-> total, dated |-> TRUE, silence |-> silence]

Catalogue(names, newest) ==
  [ answer |-> "ok",
    catalogue |-> {[name |-> s, version |-> IF s = "survival" THEN newest ELSE Min({1, newest})] : s \in names} ]

Tutorial(age, entered) == [answer |-> "ok", synced |-> TRUE, age |-> age, entered |-> entered]

Calm ==
  [ overview |-> [s \in HServers |-> Overview(4, 3, 1)],
    table |-> [s \in HServers |-> Table(2)],
    users |-> Users(9, 2),
    catalogue |-> Catalogue({"proxy", "survival"}, 1),
    tutorial |-> Tutorial(2, 3) ]

HReadings ==
  { Calm, [Calm EXCEPT !.catalogue = Catalogue(HServers, 1)] }
    \cup {[Calm EXCEPT !.overview["survival"] = o] :
            o \in { Overview(4, 0, 1), Overview(4, 0, 0), Overview(4, -1, 1), Overview(3, 3, 1),
                    Overview(-1, 3, 1), [Overview(4, 3, 1) EXCEPT !.answer = "unreadable"] }}
    \cup {[Calm EXCEPT !.overview["lobby"].answer = "fails"]}
    \cup {[Calm EXCEPT !.table["survival"] = t] :
            t \in {Table(1), Table(3), [Table(2) EXCEPT !.answer = "fails"]}}
    \cup {[Calm EXCEPT !.users = u] :
            u \in { Users(-1, 2), Users(9, 3), Users(9, -4),
                    [Users(0, 0) EXCEPT !.dated = FALSE], [Users(9, 0) EXCEPT !.dated = FALSE] }}
    \cup {[Calm EXCEPT !.catalogue = Catalogue({"proxy", "survival"}, v)] : v \in {-1, 2}}
    \cup {[Calm EXCEPT !.catalogue.catalogue = {}], [Calm EXCEPT !.users.answer = "fails"]}
    \cup {[Calm EXCEPT !.tutorial = t] :
            t \in { Tutorial(-1, 3), Tutorial(3, 3), Tutorial(0, 2), Tutorial(0, 5),
                    [Tutorial(0, 3) EXCEPT !.synced = FALSE],
                    [Tutorial(0, 3) EXCEPT !.answer = "fails"] }}

HDeployments ==
  {[servers |-> s, enabled |-> TRUE] :
     s \in {<<>>, <<"proxy">>, <<"proxy", "survival">>, <<"survival", "proxy", "survival">>,
            <<"proxy", "survival", "lobby">>, <<"proxy", "lobby">>}}
    \cup {[servers |-> <<"proxy", "survival">>, enabled |-> FALSE]}
=============================================================================
