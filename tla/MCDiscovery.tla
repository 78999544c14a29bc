----------------------------- MODULE MCDiscovery -----------------------------
(***************************************************************************)
(* Texts that are good, out of range, torn, or good only line by line; two *)
(* interfaces, one that may serve either direction.                        *)
(***************************************************************************)
EXTENDS Discovery

Line(k, v) == [key |-> k, value |-> v]
MCTexts == {
    <<>>,
    <<Line("QUEUE_MAXLEN", 256), Line("MAX_BACKLOG", 3072), Line("UPSTREAMS", {"wlan0"})>>,
    <<Line("QUEUE_MAXLEN", 256), Line("MAX_BACKLOG", 30), Line("TTL", 70000), Line("WORKERS", 9),
      Line("IDLE_MS", NoNumber), Line("CHECK_MS", 99), Line("TT", 1)>>,
    <<Line("SQM_UP_KBIT", 100), Line("SQM_UP_IFACE", "rmnet0")>>,
    <<Line("SQM_UP_KBIT", 100)>>,
    <<Line("SQM_UP_KBIT", 100), Line("SQM_UP_IFACE", "rmnet0"), Line("SQM_UP_IFACE", "wlan0")>>,
    <<Line("DOWNSTREAMS", {"wlan0"}), Line("UPSTREAMS", {"wlan0", "rmnet0"})>>}
MCOrders == {
    <<Line("SQM_UP_KBIT", 99)>>,
    <<Line("SQM_UP_KBIT", 0)>>,
    <<Line("SQM_UP_IFACE", "wlan0"), Line("SQM_UP_KBIT", 200)>>,
    <<Line("DISABLE_OFFLOAD", "0")>>,
    <<Line("UPSTREAMS", {"x;reboot"})>>,
    <<Line("DOWNSTREAMS", {"wlan0"}), Line("UPSTREAMS", {})>>}
Tethered == [route4 |-> {"rmnet0"}, route6 |-> {}, addr |-> {"wlan0"}, live |-> {"rmnet0", "wlan0"}]
MCNets == {NoNet, Tethered}
===============================================================================
