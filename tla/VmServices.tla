----------------------------- MODULE VmServices -----------------------------
(***************************************************************************)
(* Four services for running sandboxes: the host's security key            *)
(* (CtapRelay), the key's virtual counterpart in a VM (FidoGuest), folders *)
(* of the user's (Grants) and the addresses of allowed names (DnsAllow).   *)
(* They share no state: one is explored with the others at rest, which     *)
(* reaches every state of each.  The relay has for its sandbox whatever    *)
(* may write to the connection, the virtual key for its host whatever may  *)
(* answer: each covers what the other does to it.                          *)
(***************************************************************************)
EXTENDS CtapRelay, FidoGuest, Grants, DnsAllow

VARIABLE service     \* which of the four runs

serviceVars == <<service, vars, fvars, gvars, dvars>>

AtRest == CHOOSE a \in Asks : TRUE

ServicesInit ==
  /\ service \in {"key", "device", "folders", "names"}
  /\ Init /\ FidoInit /\ GrantsInit /\ DnsInit
  /\ service # "folders" => gfolder = AtRest.folder /\ gmode = AtRest.mode
  /\ service # "names" => lan = CHOOSE s \in Lans : TRUE

ServicesNext ==
  /\ UNCHANGED service
  /\ \/ service = "key" /\ Next /\ UNCHANGED <<fvars, gvars, dvars>>
     \/ service = "device" /\ FidoNext /\ UNCHANGED <<vars, gvars, dvars>>
     \/ service = "folders" /\ GrantsNext /\ UNCHANGED <<vars, fvars, dvars>>
     \/ service = "names" /\ DnsNext /\ UNCHANGED <<vars, fvars, gvars>>

ServicesSpec ==
  /\ ServicesInit /\ [][ServicesNext]_serviceVars
  /\ WF_vars(service = "key" /\ RunStep) /\ WF_vars(service = "key" /\ FromKeyStep)
  /\ WF_fvars(service = "device" /\ RunThread)
  /\ \A s \in Link : WF_fvars(service = "device" /\ ReaderEnds(s))
  /\ \A g \in Grant : WF_gvars(service = "folders" /\ GrantStep(g))
  /\ WF_dvars(service = "names" /\ TrackerStarts)
  /\ SF_dvars(service = "names" /\ Scan) /\ SF_dvars(service = "names" /\ Publish)
  /\ SF_dvars(service = "names" /\ SetDeny)

ServicesTypeOK == TypeOK /\ FidoTypeOK /\ GrantsTypeOK /\ DnsTypeOK

\* What goes away is let go of, and what is asked for is answered: the relay of
\* a key or a VM that has gone ends, the virtual key keeps no connection it
\* doesn't use and leaves no packet, every request for a folder ends, and the
\* sandboxes are denied what stays local.
ServicesEnd ==
  /\ RelayEnds
  /\ KeyLetGo /\ PacketsEnd
  /\ service = "folders" => GrantAnswered
  /\ service = "names" => LocalDenied
=============================================================================
