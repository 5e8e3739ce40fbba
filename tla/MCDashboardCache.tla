---------------------------- MODULE MCDashboardCache ----------------------------
(* A finite instance of DashboardCache: two bills of one and two days. *)
EXTENDS DashboardCache

MCBills ==
    <<[id |-> 1, start |-> 1, end |-> 1, imported |-> 1, injected |-> 1, compensated |-> 1,
       total |-> 1, lighting |-> 0, meter |-> Absent, taxed |-> 1, untaxed |-> 1],
      [id |-> 2, start |-> 2, end |-> 3, imported |-> 2, injected |-> 1, compensated |-> 0,
       total |-> 1, lighting |-> 0, meter |-> 1, taxed |-> 2, untaxed |-> 1]>>
MCDayValues == [kwh : {1, 2}, status : {"CONSOLIDATED", "PROVISIONAL"}]
=============================================================================
