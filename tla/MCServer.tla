------------------------------ MODULE MCServer ------------------------------
(***************************************************************************)
(* Parts of the system that share no state with one another, each checked  *)
(* by itself: a behaviour is one of a single part, chosen at the start,    *)
(* while the others stay as they begin.                                    *)
(***************************************************************************)
EXTENDS Groups, Zones, Anomaly, Watch, Chat, Journey, SignUp, Guardian, DeviceCheck, SosSms,
        Gallery, Tracking, Refresh, TLC

VARIABLE part \* the part that moves

ServerParts ==
  {"groups", "zones", "anomaly", "watch", "chat", "journey", "sign-up", "guardian",
   "device check", "text messages", "gallery", "tracking", "refresh"}

Init ==
  /\ part \in ServerParts
  /\ GroupInit /\ ZoneInit /\ AnomalyInit /\ WatchInit /\ ChatInit /\ JourneyInit
  /\ SignUpInit /\ GuardianInit /\ DeviceCheckInit /\ SosSmsInit /\ GalleryInit
  /\ TrackingInit /\ RefreshInit

Next ==
  /\ UNCHANGED part
  /\ IF part = "guardian" THEN GuardianNext ELSE UNCHANGED guardianVars
  /\ IF part = "text messages" THEN SosSmsNext ELSE UNCHANGED sosSmsVars
  /\ IF part = "device check" THEN DeviceCheckNext ELSE UNCHANGED deviceCheckVars
  /\ IF part = "journey" THEN JourneyNext ELSE UNCHANGED journeyVars
  /\ IF part = "anomaly" THEN AnomalyNext ELSE UNCHANGED anomalyVars
  /\ IF part = "zones" THEN ZoneNext ELSE UNCHANGED zoneVars
  /\ IF part = "sign-up" THEN SignUpNext ELSE UNCHANGED signUpVars
  /\ IF part = "groups" THEN GroupNext ELSE UNCHANGED groupVars
  /\ IF part = "chat" THEN ChatNext ELSE UNCHANGED chatVars
  /\ IF part = "gallery" THEN GalleryNext ELSE UNCHANGED galleryVars
  /\ IF part = "tracking" THEN TrackingNext ELSE UNCHANGED trackingVars
  /\ IF part = "refresh" THEN RefreshNext ELSE UNCHANGED refreshVars
  /\ IF part = "watch" THEN WatchNext ELSE UNCHANGED watchVars

vars ==
  <<part, groupVars, zoneVars, anomalyVars, watchVars, chatVars, journeyVars, signUpVars,
    guardianVars, deviceCheckVars, sosSmsVars, galleryVars, trackingVars, refreshVars>>

Spec == Init /\ [][Next]_vars

\* The parts at rest need not be looked at.
Moving ==
  <<part, CASE part = "watch" -> watchVars
            [] part = "tracking" -> trackingVars
            [] part = "gallery" -> galleryVars
            [] part = "chat" -> chatVars
            [] part = "groups" -> groupVars
            [] part = "sign-up" -> signUpVars
            [] part = "zones" -> zoneVars
            [] part = "anomaly" -> anomalyVars
            [] part = "journey" -> journeyVars
            [] part = "device check" -> deviceCheckVars
            [] part = "text messages" -> sosSmsVars
            [] part = "refresh" -> refreshVars
            [] part = "guardian" -> guardianVars>>
=============================================================================
