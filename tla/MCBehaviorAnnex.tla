--------------------------- MODULE MCBehaviorAnnex ---------------------------
(***************************************************************************)
(* The annexes of the repository's example models, and two of our own: a   *)
(* chain of transient states with an unguarded way out before a guarded    *)
(* one, and two transient states that pass control to each other for ever. *)
(***************************************************************************)
EXTENDS BehaviorAnnex

Trans(s, test, P, d) == [src |-> s, test |-> test, ports |-> P, dst |-> d]

Annex(S, s0, C, T) == [states |-> S, initial |-> s0, complete |-> C, transitions |-> T]

(* AADLSource/car/image_acquisition.aadl *)
ImageAcquisition ==
  Annex({"s0", "s1"}, "s0", {"s0", "s1"},
        << Trans("s0", "none", {}, "s1"), Trans("s1", "none", {}, "s0") >>)

(* AADLSource/car/speed_voter.aadl; p: wheel_sensor, q: laser_sensor *)
SpeedVoter ==
  Annex({"s0", "s1"}, "s0", {"s0"},
        << Trans("s0", "is", {"p"}, "s1"), Trans("s1", "is", {"q"}, "s0") >>)

(* AADLSource/car/obstacle_detection.aadl; p: camera, q: radar *)
ObstacleDetection ==
  Annex({"s0", "s1"}, "s0", {"s0"},
        << Trans("s0", "is", {"p"}, "s0"), Trans("s0", "not", {"p"}, "s1"),
           Trans("s1", "is", {"q"}, "s0"), Trans("s1", "not", {"q"}, "s0") >>)

(* AADLSource/car/panel_control.aadl; p: current_speed, q: tire_pressure_in *)
PanelControl ==
  Annex({"s0", "s1", "s2"}, "s0", {"s0"},
        << Trans("s0", "is", {"p"}, "s1"), Trans("s1", "is", {"q"}, "s2"),
           Trans("s2", "none", {}, "s0") >>)

(* AADLSource/robotv2/robotv2.aadl, controle; p: info_capteur *)
Controle ==
  Annex({"s_inline", "s1", "s2", "s_outline"}, "s_inline", {"s_inline", "s_outline"},
        << Trans("s_inline", "none", {}, "s1"), Trans("s1", "is", {"p"}, "s_inline"),
           Trans("s1", "not", {"p"}, "s_outline"), Trans("s_outline", "none", {}, "s2"),
           Trans("s2", "not", {"p"}, "s_outline"), Trans("s2", "is", {"p"}, "s_inline") >>)

Chain ==
  Annex({"s0", "s1", "s2", "s3"}, "s1", {"s0"},
        << Trans("s0", "none", {"p"}, "s1"), Trans("s1", "is", {"p"}, "s2"),
           Trans("s1", "is", {"q"}, "s3"), Trans("s2", "none", {}, "s3"),
           Trans("s2", "is", {"q"}, "s0"), Trans("s3", "not", {"q"}, "s0") >>)

PingPong ==
  Annex({"s0", "s1", "s2"}, "s0", {"s0"},
        << Trans("s0", "is", {"p"}, "s1"), Trans("s1", "none", {}, "s2"),
           Trans("s2", "not", {"q"}, "s1"), Trans("s2", "is", {"q"}, "s0") >>)

MCAutomata == {ImageAcquisition, SpeedVoter, ObstacleDetection, PanelControl,
               Controle, Chain, PingPong}
=============================================================================
