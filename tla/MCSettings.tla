------------------------------ MODULE MCSettings ------------------------------
(* Small instances of Settings for TLC: which commands each of them is about. *)
EXTENDS Settings, TLC

\* settings: two times and a stop, one value of each other setting, what is refused, the
\* help and vanquish.  The settings differ only in the stop, so one with two values does.
SettingsCommands ==
  {"!su"} \X ({<<"notify", v>> : v \in Times \cup {Empty}} \cup {<<"tz", UTC>>, <<"threads", Unknown>>})
    \cup {"!standupbot"} \X {<<"help">>, <<"vanquish">>}

\* addressed_by_name: a user sets the timezone, in all ways that are documented.
PrefixCommands == Prefix \X {<<"tz", z>> : z \in Zones}

WorkerSymmetry == Permutations(Workers)
RoomSymmetry   == Permutations(Rooms)
TimeSymmetry   == Permutations(Times)
Symmetry       == WorkerSymmetry \cup RoomSymmetry \cup TimeSymmetry

=============================================================================
