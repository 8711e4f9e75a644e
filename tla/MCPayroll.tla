----------------------------- MODULE MCPayroll ------------------------------
(* A salaried employee, an hourly one with overtime, one on leave; then    *)
(* the first is terminated, a field of the second is malformed, the third  *)
(* is back with a contribution above his pay, and a fourth is hired, first  *)
(* on leave and, in a second record, active.                               *)
EXTENDS Payroll

Employee(id, status, type, salary, rate, hours, medical, dental, k401) ==
    [id |-> id, status |-> status, type |-> type, salary |-> salary, rate |-> rate,
     hours |-> hours, medical |-> medical, dental |-> dental, k401 |-> k401, acct |-> id]

Hired == <<Employee("e1", "A", "S", 7500000, 0, 0, "B", "N", 6),
           Employee("e2", "A", "H", 0, 3850, 45, "P", "Y", 5),
           Employee("e3", "L", "H", 0, 3400, 40, "N", "N", 3)>>
Changed == <<Employee("e1", "T", "S", 7500000, 0, 0, "B", "N", 6),
             Employee("e2", "A", "H", 0, Malformed, 45, "P", "Y", 5),
             Employee("e3", "A", "H", 0, 3400, 40, "N", "N", 250),
             Employee("e4", "L", "S", 11000000, 0, 0, "P", "Y", 10),
             Employee("e4", "A", "S", 11000000, 0, 0, "P", "Y", 10)>>

MCFiles == {<<>>, Hired, Changed}
MCCallers == {Auth("auditor", "viewer"), Auth("operator", "viewer"), Auth("guest", "none")}
=============================================================================
