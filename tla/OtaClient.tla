----------------------------- MODULE OtaClient -----------------------------
(***************************************************************************)
(* The over-the-air update: rboot-ota.c downloads an image into the ROM    *)
(* slot that is not running and rboot-api.c selects it.  One upgrade       *)
(* structure, one timer; the connections of earlier attempts may still     *)
(* live in the SDK and call back.  The callbacks are run one at a time;    *)
(* the power may be lost at any time.                                      *)
(***************************************************************************)
EXTENDS FlashWriter, FiniteSets

CONSTANTS MaxConns,   \* bound: attempts between two starts of the radio
          ImageLen,   \* bytes of a ROM image, a multiple of Word
          Versions,   \* the images the server may offer
          Pieces      \* lengths a packet may have

Slots == 0..1
Conns == 1..MaxConns
Bad   == -1           \* a boot configuration that is erased or cut

(* That an image fits into its slot is assumed of the server: the check of *)
(* rboot_write_flash is commented out (rboot-api.c:161-162).               *)
ASSUME OtaAssumption ==
    /\ ImageLen \in Nat \ {0} /\ ImageLen % Word = 0 /\ ImageLen <= SlotSize
    /\ MaxConns \in Nat /\ Versions \subseteq Nat /\ Pieces \subseteq Nat

(* Byte i of an image; an image has no two equal bytes.                    *)
Image(v) == [i \in 1..ImageLen |-> 20 * v + i]

VARIABLES
    flash,    \* the two ROM slots
    config,   \* current_rom of the boot configuration, or Bad
    running,  \* the slot that was booted
    upgrade,  \* the structure behind the static pointer of that name
    flag,     \* system_upgrade_flag
    timer,    \* the function ota_timer will call
    conn,     \* what the SDK does with each espconn
    server,   \* per connection: the image it is sent, how much of it has
              \* come, and whether the name server still owes an answer
    step,     \* the next step of OtaUpdate_CallBack, "run" outside of it
    chosen,   \* its argument rom_slot
    robbed    \* history: a stale callback has disarmed this attempt's timer

vars == <<flash, config, running, upgrade, flag, timer, conn, server, step, chosen, robbed>>
storage == <<flash, config, running>>

(* "none": the pointer is NULL; "freed": it points to freed memory.        *)
Null == [mem |-> "none", slot |-> 0, conn |-> 0, total |-> 0, content |-> 0,
         status |-> rboot_write_init]
Live(u) == u.mem = "live"

NoReply == [version |-> 0, pos |-> -1, asked |-> FALSE]

(* The boot loader takes slot 0 when it finds no valid configuration.      *)
BootRom(cfg) == IF cfg = Bad THEN 0 ELSE cfg

Slot0 == [a \in 0..SlotSize-1 |-> IF a < ImageLen THEN Image(0)[a + 1] ELSE Erased]

Init == /\ flash = [s \in Slots |-> IF s = 0 THEN Slot0 ELSE [a \in 0..SlotSize-1 |-> Erased]]
        /\ config = 0 /\ running = 0
        /\ upgrade = Null /\ flag = "idle" /\ timer = "off"
        /\ conn = [c \in Conns |-> "unused"]
        /\ server = [c \in Conns |-> NoReply]
        /\ step = "run" /\ chosen = 0 /\ robbed = FALSE

(* A start of the radio: after a loss of power, after system_restart, and  *)
(* after an access through a pointer that is NULL or freed.                *)
Boot == /\ running' = BootRom(config) /\ config' = BootRom(config)
        /\ upgrade' = Null /\ flag' = "idle" /\ timer' = "off"
        /\ conn' = [c \in Conns |-> "unused"]
        /\ server' = [c \in Conns |-> NoReply]
        /\ step' = "run" /\ chosen' = 0 /\ robbed' = FALSE
        /\ UNCHANGED flash

-----------------------------------------------------------------------------
(* Plausible bugs: every end counts as success; the timer stays armed.     *)
MutantDeinitAlways(u, cs, f) ==
    /\ timer' = "off" /\ upgrade' = Null /\ conn' = cs /\ flag' = "finish"
    /\ step' = "select" /\ chosen' = u.slot /\ robbed' = FALSE
MutantDeinitKeepsTimer(u, cs, f) ==
    /\ upgrade' = Null /\ conn' = cs /\ flag' = f
    /\ step' = IF f = "finish" THEN "select" ELSE "run"
    /\ chosen' = u.slot /\ robbed' = FALSE /\ UNCHANGED timer

(* rboot_ota_deinit: u is the upgrade it ends, cs the connections, f the   *)
(* flag it finds.                                                          *)
Deinit(u, cs, f) ==
    /\ timer' = "off"
    /\ upgrade' = Null
    /\ conn' = IF u.conn # 0 /\ cs[u.conn] = "open"
               THEN [cs EXCEPT ![u.conn] = "closing"] ELSE cs
    /\ flag' = IF f = "finish" THEN "finish" ELSE "idle"
    /\ step' = IF f = "finish" THEN "select" ELSE "run"
    /\ chosen' = u.slot
    /\ robbed' = FALSE

(* What the SDK is left with when the memory of a connection is freed.     *)
Free(cs, c) ==
    [cs EXCEPT ![c] = CASE @ = "connecting" -> "orphan"
                        [] @ = "open"       -> "zombie"
                        [] @ \in {"dns", "gone"} -> @]

(* upgrade_disconcb(c); cs[c] is what the SDK still does with c.           *)
upgrade_disconcb(c, cs) ==
    IF Live(upgrade) /\ upgrade.conn = c
    THEN Deinit([upgrade EXCEPT !.conn = 0], IF c = 0 THEN cs ELSE Free(cs, c), flag)
    ELSE /\ timer' = "off" /\ conn' = cs
         /\ robbed' = (robbed \/ (Live(upgrade) /\ timer # "off"))
         /\ UNCHANGED <<upgrade, flag, step, chosen>>

(* upgrade_resolved with an address, for the upgrade u.  The SDK refuses   *)
(* to connect an espconn that it has in its list already.                  *)
Connect(u, cs) ==
    /\ upgrade' = u
    /\ conn' = [cs EXCEPT ![u.conn] = IF @ = "open" THEN @ ELSE "connecting"]
    /\ timer' = "connect"

(* rboot_ota_start, called by OtaUpdate: memory may run out at each        *)
(* allocation, and the name may be cached, asked for, or refused.          *)
rboot_ota_start ==
    /\ step = "run" /\ flag # "start"
    /\ \E c \in Conns :
       /\ conn[c] = "unused" /\ \A d \in Conns : d < c => conn[d] # "unused"
       /\ LET u == [Null EXCEPT !.mem = "live", !.conn = c, !.slot = 1 - config]
          IN  \/ upgrade' = Null /\ UNCHANGED <<flag, conn, timer, server>> \* no ram: upgrade
              \/ /\ upgrade' = [u EXCEPT !.mem = "freed"]
                 /\ UNCHANGED <<flag, conn, timer, server>>
              \/ /\ flag' = "start"
                 /\ \/ Connect(u, conn) /\ UNCHANGED server
                    \/ /\ upgrade' = u /\ conn' = [conn EXCEPT ![c] = "dns"]
                       /\ server' = [server EXCEPT ![c].asked = TRUE]
                       /\ UNCHANGED timer
                    \/ /\ upgrade' = [u EXCEPT !.mem = "freed"]
                       /\ conn' = [conn EXCEPT ![c] = "gone"]
                       /\ UNCHANGED <<timer, server>>
    /\ UNCHANGED <<storage, step, chosen, robbed>>

(* The SDK has the answer of the name server for connection c.  It is used *)
(* for the connection of the upgrade, which may be a later one and wait    *)
(* for an answer of its own: that one comes, too.                          *)
upgrade_resolved(c, found) ==
    /\ step = "run" /\ server[c].asked
    /\ LET cs == [conn EXCEPT ![c] = IF @ = "dns" THEN "gone" ELSE @] IN
       IF ~Live(upgrade) THEN Boot
       ELSE /\ server' = [server EXCEPT ![c].asked = FALSE]
            /\ UNCHANGED storage
            /\ IF found THEN /\ Connect(upgrade, cs)
                             /\ UNCHANGED <<flag, step, chosen, robbed>>
               ELSE upgrade_disconcb(upgrade.conn, cs)

(* The request is sent without a time limit for the reply.                 *)
MutantConnectNoTimeout(c, ram) ==
    /\ step = "run" /\ conn[c] = "connecting" /\ Live(upgrade)
    /\ timer' = "off" /\ conn' = [conn EXCEPT ![c] = "open"]
    /\ server' = [server EXCEPT ![c].version = CHOOSE v \in Versions : TRUE]
    /\ UNCHANGED <<storage, upgrade, flag, step, chosen, robbed>>

(* The SDK reports a connection.  It reads the callback from c, also when  *)
(* connect_timeout_cb has freed c in between: then it may find it or not.  *)
(* The other two callbacks are registered on upgrade->conn, whatever c is. *)
upgrade_connect_cb(c, ram) ==
    /\ step = "run" /\ conn[c] \in {"connecting", "orphan"}
    /\ LET cs == [conn EXCEPT ![c] = IF c = upgrade.conn THEN "open" ELSE "zombie"] IN
       IF ~Live(upgrade) THEN Boot
       ELSE /\ UNCHANGED storage
            /\ \E v \in Versions : server' = [server EXCEPT ![c].version = v]
            /\ IF ram THEN /\ timer' = "deinit" /\ conn' = cs
                           /\ UNCHANGED <<upgrade, flag, step, chosen, robbed>>
               ELSE Deinit(upgrade, cs, flag)

(* A connection fails, before or after it was made.                        *)
upgrade_recon_cb(c) ==
    /\ step = "run" /\ conn[c] \in {"connecting", "orphan", "open"}
    /\ IF ~Live(upgrade) THEN Boot
       ELSE /\ upgrade_disconcb(upgrade.conn, [conn EXCEPT ![c] = "gone"])
            /\ UNCHANGED <<storage, server>>

(* Callbacks of freed connections that come to nothing.  Bound: a packet   *)
(* for a freed connection always does.                                     *)
Forgotten(c) ==
    /\ step = "run" /\ conn[c] \in {"orphan", "zombie"}
    /\ conn' = [conn EXCEPT ![c] = "gone"]
    /\ UNCHANGED <<storage, upgrade, flag, timer, server, step, chosen, robbed>>

(* upgrade_recvcb on connection c with the next n bytes of the image.  The *)
(* first packet holds the header; "ok" says that it is whole and reports   *)
(* success.  A packet may still come after espconn_disconnect, which the    *)
(* SDK carries out before a later attempt can have been connected.         *)
upgrade_recvcb(c, n, ok, outcome) ==
    /\ step = "run" /\ conn[c] \in {"open", "closing"}
    /\ conn[c] = "closing" => \A d \in Conns : conn[d] # "open"
    /\ LET pos   == server[c].pos
           first == pos = -1
           from  == IF first THEN 0 ELSE pos
           bytes == SubSeq(Image(server[c].version), from + 1, from + n)
           w     == rboot_write_flash(upgrade.status, flash[upgrade.slot], bytes, outcome)
           u     == [upgrade EXCEPT !.total = @ + n, !.status = w.status,
                                    !.content = IF first THEN ImageLen ELSE @]
       IN
       /\ from + n <= ImageLen /\ (first \/ (n > 0 /\ ok))
       /\ IF ~Live(upgrade) THEN Boot
          ELSE /\ server' = [server EXCEPT ![c].pos = from + n]
               /\ UNCHANGED <<config, running>>
               /\ IF upgrade.content = 0 /\ ~(first /\ ok)
                  THEN Deinit(upgrade, conn, flag) /\ UNCHANGED flash
                  ELSE /\ flash' = [flash EXCEPT ![upgrade.slot] = w.flash]
                       /\ IF ~w.ok THEN Deinit(u, conn, flag)
                          ELSE IF u.total = u.content THEN Deinit(u, conn, "finish")
                          ELSE IF conn[u.conn] # "open" THEN Deinit(u, conn, flag)
                          ELSE /\ upgrade' = u /\ timer' = "deinit"
                               /\ UNCHANGED <<conn, flag, step, chosen, robbed>>

(* The SDK has closed a connection, at the server's or at our wish.        *)
Disconnected(c) ==
    /\ step = "run" /\ conn[c] \in {"open", "closing"}
    /\ upgrade_disconcb(c, [conn EXCEPT ![c] = "gone"])
    /\ UNCHANGED <<storage, server>>

(* ota_timer: rboot_ota_deinit or connect_timeout_cb.                      *)
TimerFires ==
    /\ step = "run" /\ timer # "off"
    /\ IF ~Live(upgrade) THEN Boot
       ELSE /\ IF timer = "deinit" THEN Deinit(upgrade, conn, flag)
               ELSE upgrade_disconcb(upgrade.conn, conn)
            /\ UNCHANGED <<storage, server>>

-----------------------------------------------------------------------------
(* OtaUpdate_CallBack(TRUE, chosen): rboot_set_current_rom reads the       *)
(* configuration, erases its sector and writes it, then the radio restarts.*)
EraseConfig ==
    /\ step = "select"
    /\ \/ step' = "write" /\ config' = Bad
       \/ step' = "restart" /\ UNCHANGED config     \* no ram for the sector
    /\ UNCHANGED <<flash, running, upgrade, flag, timer, conn, server, chosen, robbed>>
WriteConfig ==
    /\ step = "write"
    /\ step' = "restart" /\ config' = chosen
    /\ UNCHANGED <<flash, running, upgrade, flag, timer, conn, server, chosen, robbed>>
Restart == step = "restart" /\ Boot
PowerLoss == Boot

Network == \E c \in Conns :
    \/ \E found \in BOOLEAN : upgrade_resolved(c, found)
    \/ \E ram \in BOOLEAN : upgrade_connect_cb(c, ram)
    \/ upgrade_recon_cb(c)
    \/ Forgotten(c)
    \/ \E n \in Pieces, ok \in BOOLEAN, o \in Outcomes : upgrade_recvcb(c, n, ok, o)
    \/ Disconnected(c)

Next == \/ rboot_ota_start \/ Network \/ TimerFires
        \/ EraseConfig \/ WriteConfig \/ Restart \/ PowerLoss

(* The SDK answers every look-up of a name in the end, a timer fires, and  *)
(* a call that is under way goes on.  Nothing is assumed of the server.    *)
Fairness ==
    /\ WF_vars(TimerFires)
    /\ \A c \in Conns : WF_vars(\E found \in BOOLEAN : upgrade_resolved(c, found))
    /\ WF_vars(EraseConfig) /\ WF_vars(WriteConfig) /\ WF_vars(Restart)

Spec == Init /\ [][Next]_vars /\ Fairness

-----------------------------------------------------------------------------
Byte == {Erased, Garbled} \cup {20 * v + i : v \in Versions \cup {0}, i \in 1..ImageLen}
TypeOK ==
    /\ flash \in [Slots -> [0..SlotSize-1 -> Byte]]
    /\ config \in Slots \cup {Bad} /\ running \in Slots
    /\ upgrade.mem \in {"none", "live", "freed"} /\ upgrade.slot \in Slots
    /\ upgrade.conn \in 0..MaxConns /\ upgrade.total \in 0..ImageLen
    /\ upgrade.content \in {0, ImageLen} /\ Len(upgrade.status.extra) < Word
    /\ upgrade.status.addr <= upgrade.total /\ upgrade.status.addr % Word = 0
    /\ flag \in {"idle", "start", "finish"} /\ timer \in {"off", "connect", "deinit"}
    /\ step \in {"run", "select", "write", "restart"} /\ chosen \in Slots
    /\ \A c \in Conns : conn[c] \in {"unused", "dns", "connecting", "orphan", "open",
                                     "closing", "zombie", "gone"}

(* Whenever the power is lost, the boot loader finds a slot with a whole   *)
(* image: the running slot is never written, the other one is selected     *)
(* only when all of the image is in flash, and a configuration that is     *)
(* lost between its erase and its write leaves slot 0, which is whole then.*)
Whole(s) == \E v \in Versions \cup {0} : \A i \in 1..ImageLen : flash[s][i - 1] = Image(v)[i]
BootedRomIsWhole == Whole(BootRom(config))

(* While an attempt goes on, the words in flash and the bytes carried over *)
(* are, one behind the other, all the bytes its connection has delivered.  *)
FlashIsPrefix ==
    Live(upgrade) /\ upgrade.content # 0 =>
      LET u == upgrade
          image == Image(server[u.conn].version) IN
      /\ u.total = u.status.addr + Len(u.status.extra)
      /\ \A a \in 0 .. u.status.addr - 1 : flash[u.slot][a] = image[a + 1]
      /\ \A i \in DOMAIN u.status.extra : u.status.extra[i] = image[u.status.addr + i]

(* rboot_write_end, at any time, brings the bytes carried over to flash    *)
(* behind the words that are there already (rboot-api.h: "ensures any      *)
(* outstanding bytes are written").                                        *)
EndWritesTheRest ==
    Live(upgrade) =>
      LET w == rboot_write_end(upgrade.status, flash[upgrade.slot]) IN
      /\ w.ok
      /\ \A i \in DOMAIN upgrade.status.extra :
           w.flash[upgrade.status.addr + i - 1] = upgrade.status.extra[i]
      /\ \A a \in 0 .. upgrade.status.addr - 1 : w.flash[a] = flash[upgrade.slot][a]

(* The timer never calls back without an upgrade to end, and outside of    *)
(* the look-up of the name an attempt runs with the timer armed, unless    *)
(* the callback of an earlier connection has disarmed it.                  *)
TimerMatchesUpgrade ==
    /\ timer # "off" => Live(upgrade) /\ flag = "start"
    /\ Live(upgrade) /\ timer = "off" => robbed \/ \E c \in Conns : conn[c] = "dns"

(* An attempt that has begun ends, whatever the server does: the flag is   *)
(* given back, so that another one can be made.  Two ways out of it are    *)
(* missing in the code: the name server's immediate refusal, which leaves  *)
(* the flag set, and a stale callback that disarms the timer.              *)
UpdateEnds == flag = "start" ~> flag # "start" \/ upgrade.mem = "freed" \/ robbed
=============================================================================
