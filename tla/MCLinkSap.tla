------------------------------ MODULE MCLinkSap ------------------------------
(***************************************************************************)
(* LinkSap on a small instance: the measured parameters and one that is    *)
(* not, values around the thresholds and beyond 16 bits, and the requests  *)
(* that can meet.                                                          *)
(***************************************************************************)
EXTENDS LinkSap, TLC

Plain == [kind |-> "capabilities", events |-> {}, reads |-> {}, params |-> <<>>,
          action |-> "none", scan |-> FALSE, refused |-> FALSE, wants |-> {}]

Hold(val, dir) == [val |-> val, dir |-> dir]
Param(type, mode, period, holds) ==
    [type |-> type, mode |-> mode, period |-> period, holds |-> holds]

Thresholds(params) == [Plain EXCEPT !.kind = "thresholds", !.params = params]
Action(a, scanned) == [Plain EXCEPT !.kind = "actions", !.action = a, !.scan = scanned]
Conf == [Plain EXCEPT !.kind = "link_conf"]
L3(wants) == [Plain EXCEPT !.kind = "l3_conf", !.wants = wants]

\* A one-shot and a lasting threshold, of two parameters; another one-shot one
\* and a parameter that is not measured; their cancelling by value and by type.
MCAsk ==
    [ capabilities |-> Plain,
      subscribe    |-> [Plain EXCEPT !.kind = "subscribe", !.events = {"report", "handover"}],
      unsubscribe  |-> [Plain EXCEPT !.kind = "unsubscribe", !.events = {"report", "handover"}],
      get          |-> [Plain EXCEPT !.kind = "get", !.reads = {"signal", "packet_error_rate"}],
      alerts       |-> Thresholds(<< Param("signal", "one_shot", FALSE, <<Hold(-70, "below")>>),
                                     Param("data_rate", "normal", FALSE, <<Hold(60000, "below")>>) >>),
      above        |-> Thresholds(<< Param("sinr", "normal", FALSE, <<Hold(-70, "above")>>),
                                     Param("signal", "one_shot", FALSE, <<Hold(-70, "above")>>) >>),
      cancelRate   |-> Thresholds(<< Param("data_rate", "cancel", FALSE, <<Hold(60000, "below")>>) >>),
      periodic     |-> Thresholds(<< Param("signal", "normal", TRUE, <<>>) >>),
      cancelAll    |-> Thresholds(<< Param("signal", "cancel", FALSE, <<>>) >>),
      errors       |-> Thresholds(<< Param("packet_error_rate", "one_shot", FALSE, <<Hold(0, "above")>>),
                                     Param("packet_error_rate", "normal", TRUE, <<>>) >>),
      refused      |-> [Plain EXCEPT !.kind = "actions", !.refused = TRUE],
      powerDown    |-> Action("power_down", FALSE),
      powerUp      |-> Action("power_up", TRUE),
      disconnect   |-> Action("disconnect", TRUE),
      conf1        |-> Conf,
      conf2        |-> Conf,
      static       |-> L3({"address", "route", "dns", "domain"}),
      dynamic      |-> L3({"dhcp4", "dhcp6"}) ]

\* The data rate may be too large for 16 bits.
MCLevels == "signal" :> {-80, -60} @@ "data_rate" :> {54000, 72200} @@ "packet_error_rate" :> {0}

At(signal, rate) == "signal" :> signal @@ "data_rate" :> rate @@ "packet_error_rate" :> 0
Far  == At(-80, 54000)
Near == At(-60, 72200)

Scenario(a, s, l, f) == [asks |-> a, scans |-> s, used |-> TRUE, level |-> l, faults |-> f]
Unused(a, f) == [asks |-> a, scans |-> FALSE, used |-> FALSE, level |-> Far, faults |-> f]

MCScenarios ==
    { Scenario({"capabilities", "get", "refused"}, FALSE, Far, 2),
      Scenario({"subscribe", "alerts", "above", "cancelRate"}, FALSE, Far, 1),
      Scenario({"subscribe", "alerts", "above", "cancelRate"}, FALSE, Near, 1),
      Scenario({"subscribe", "unsubscribe", "alerts", "cancelAll"}, FALSE, Far, 2),
      Scenario({"subscribe", "above", "conf1"}, FALSE, Near, 1),
      Scenario({"periodic", "cancelAll", "conf1"}, FALSE, Far, 1),
      Scenario({"conf1"}, TRUE, Far, 2),
      Scenario({"conf1", "conf2"}, FALSE, Far, 1),
      Scenario({"conf1", "powerDown", "powerUp"}, FALSE, Far, 1),
      Scenario({"conf1", "disconnect"}, FALSE, Far, 1),
      Scenario({"static", "dynamic", "disconnect"}, FALSE, Far, 2),
      Unused({"subscribe", "errors", "get"}, 1) }
=============================================================================
