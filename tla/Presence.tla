------------------------------ MODULE Presence ------------------------------
(***************************************************************************)
(* The pure transport-presence machine of src/mavericks_presence.c.  One   *)
(* state says which transport the consumer shows; two functions move it:   *)
(* presence_step on a device edge or on the end of the removal window, and *)
(* presence_reconcile against the transports really present.               *)
(***************************************************************************)

\* presence_state_t
States == {"NONE", "BT", "USB", "HOLD"}

\* The four device edges of presence_event_t; the fifth event is ELAPSED.
Edges == {"BT_APPEAR", "BT_REMOVE", "USB_APPEAR", "USB_REMOVE"}
Events == Edges \union {"REMOVAL_ELAPSED"}

\* presence_action_t, without the prefix
Actions == {"NO_ACTION", "ABSENT", "ON_BT", "ON_USB", "START_HOLD"}

Stay(s) == [next |-> s, action |-> "NO_ACTION"]
Show(t) == [next |-> t,
            action |-> CASE t = "BT" -> "ON_BT"
                         [] t = "USB" -> "ON_USB"
                         [] t = "NONE" -> "ABSENT"
                         [] t = "HOLD" -> "START_HOLD"]

(* presence_step: an appearance shows that transport unless it is shown    *)
(* already; a removal opens the window only for the transport shown; the   *)
(* end of the window counts only while it is open.                         *)
Step(s, e) ==
  CASE e = "BT_APPEAR"  /\ s # "BT"   -> Show("BT")
    [] e = "USB_APPEAR" /\ s # "USB"  -> Show("USB")
    [] e = "BT_REMOVE"  /\ s = "BT"   -> Show("HOLD")
    [] e = "USB_REMOVE" /\ s = "USB"  -> Show("HOLD")
    [] e = "REMOVAL_ELAPSED" /\ s = "HOLD" -> Show("NONE")
    [] OTHER -> Stay(s)

\* presence_view_for: Bluetooth wins when both are present.
ViewFor(btPresent, usbPresent) ==
  IF btPresent THEN "BT" ELSE IF usbPresent THEN "USB" ELSE "NONE"

\* presence_reconcile: jump to the truth, except from HOLD to NONE.
ReconcileTo(s, btPresent, usbPresent) ==
  LET target == ViewFor(btPresent, usbPresent)
  IN IF s = target \/ (s = "HOLD" /\ target = "NONE")
     THEN Stay(s)
     ELSE Show(target)

=============================================================================
