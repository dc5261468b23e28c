------------------------------ MODULE MCNotebook ------------------------------
(* Values for Notebook.  What a check says is a matter of the versions: the third test split *)
(* and the third reference break bronze, the second train split breaks silver until the      *)
(* second test split comes with it, the third is over budget, and the second reference       *)
(* breaks gold with the first train split.                                                   *)
EXTENDS Notebook, TLC

MCBreaks(t, c) ==
    CASE t = "bronze.transactions_raw" -> c["test"] = 3
      [] t = "bronze.category_ref_raw" -> c["ref"] = 3
      [] t = "silver.transactions" -> c["train"] = 2 /\ c["test"] # 2
      [] t = "gold.category_hourly_fraud" -> c["ref"] = 2 /\ c["train"] = 1
      [] OTHER -> FALSE

MCOverBudget(c) == c["train"] = 3
===============================================================================
