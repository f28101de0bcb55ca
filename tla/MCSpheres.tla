------------------------------ MODULE MCSpheres ------------------------------
(* The files and the presence of one session. They touch nothing of each     *)
(* other's, so a behaviour here has one of them move and the other at rest:  *)
(* each does all it does in a specification of its own.                      *)
EXTENDS SessionFiles, Presence

SpheresInit == Init /\ PresenceInit

SpheresNext ==
    \/ PresenceInit /\ Next /\ UNCHANGED presenceVars
    \/ Init /\ PresenceNext /\ UNCHANGED vars

(* The host ticks: Session::tick looks at wants and presence in one call. *)
SpheresSpec ==
    /\ SpheresInit /\ [][SpheresNext]_<<vars, presenceVars>>
    /\ WF_vars(LateTick) /\ WF_presenceVars(Expire)

=============================================================================
