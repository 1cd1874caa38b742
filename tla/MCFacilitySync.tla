--------------------------- MODULE MCFacilitySync ---------------------------
(* FacilitySync with two facilities and two controllers. *)
EXTENDS FacilitySync

MCCids == {1, 2}

Staff(atm, fe, ec) ==
  [ATM |-> atm, DATM |-> 0, TA |-> 0, FE |-> fe, EC |-> ec, WM |-> 0]

Entry(staff, roster) == [staff |-> staff, roster |-> roster]
On(cid, role) == [cid |-> cid, role |-> role]

\* Both facilities listed with an instructor on a roster; a handover, and a roster
\* entry of nobody; a facility that left the list.
MCUpstreams ==
  {[ZJX |-> Entry(Staff(1, 0, 2), {On(2, "FACCBT"), On(1, "MTR")}),
    ZNY |-> Entry(Staff(0, 1, 0), {})],
   [ZJX |-> Entry(Staff(2, 0, 1), {On(2, "ATM"), On(0, "FACCBT")}),
    ZNY |-> Entry(Staff(0, 1, 0), {On(2, "FACCBT")})],
   [ZJX |-> Entry(Staff(1, 0, 0), {On(2, "FACCBT")})]}

MCManualGrants ==
  {[cid |-> 2, facility |-> SystemWide, role |-> "admin", source |-> "manual"]}
=============================================================================
