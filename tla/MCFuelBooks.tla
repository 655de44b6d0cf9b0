----------------------------- MODULE MCFuelBooks -----------------------------
EXTENDS FuelBooks
===============================================================================
