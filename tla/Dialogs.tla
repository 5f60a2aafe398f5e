------------------------------- MODULE Dialogs -------------------------------
(***************************************************************************)
(* The dialogs of the frontend as a table: what each may be opened for,    *)
(* which of its fields an opening loads, what it sends, and what keeps it  *)
(* from sending twice.  DialogForm says what becomes of them.              *)
(*                                                                         *)
(* The fields of a dialog are two: one that every opening for a row sets,  *)
(* and the rest, which a form that outlives its dialog may keep.           *)
(***************************************************************************)
EXTENDS Naturals

Fields == {"main", "rest"}

\* targets: opened for a row of the list, or for a new one.
\* loads: the fields that an opening for a row sets; one for a new row sets all, but
\* while the form is open already, only those of renews: the others keep what is in them.
\* sends: all fields of the row, those that differ from what was loaded, or an event
\* that leaves the row's fields alone.
\* guarded: whether the submit button waits for the page's pending request.
\* inline: whether the list stays within reach while the form is open.
Dialog(targets, loads, sends, guarded, inline) ==
    [targets |-> targets, loads |-> loads, renews |-> Fields, sends |-> sends,
     guarded |-> guarded, inline |-> inline]

\* A component that is mounted when it opens, with useForm's isSubmitting on its
\* button: mutate returns at once, so isSubmitting is over before the request.
Modal(targets, sends) == Dialog(targets, Fields, sends, FALSE, FALSE)

\* A form in the page above the list, loaded by reset.
Inline(targets) == Dialog(targets, Fields, "all", FALSE, TRUE)

\* A question about a row, whose button is disabled by isPending.
Confirmation == Dialog({"row"}, Fields, "event", TRUE, FALSE)

\* A form that belongs to the page: its state outlives the dialog, Cancel empties it but
\* a success does not, and its button is disabled by isPending.
PageForm(loads) == Dialog({"row", "new"}, loads, "event", TRUE, FALSE)
-----------------------------------------------------------------------------
UserModal          == Modal({"row", "new"}, "all")
ResetPasswordModal == Modal({"row"}, "event")

\* An edit sends the fields that differ from those of the product it was opened for.
ProductModal == Modal({"row", "new"}, "changed")
PriceModal   == Modal({"row"}, "all")
RestockModal == Modal({"row"}, "event")

CategoryModal      == Modal({"row", "new"}, "all")
DeleteConfirmModal == Confirmation
SupplierModal      == Modal({"row", "new"}, "all")
ConfirmDeleteModal == Confirmation
ContactModal       == Modal({"row", "new"}, "all")

\* An opening for a row sets the product, and the counts of an adjustment, but
\* neither the quantity of a restock nor the reasons.
InventoryRestock == PageForm({})
InventoryAdjust  == PageForm({"main"})

\* Loaded by reset from the row, or with the empty row.
CustomerForm   == Dialog({"row", "new"}, Fields, "all", TRUE, FALSE)
SettlementForm == Dialog({"row"}, Fields, "event", TRUE, FALSE)

\* Part of the detail of a sale.  An opening is one of the detail: Cancel hides the
\* question and keeps the reason for that sale, and the detail, when it closes, takes the
\* reason with it.
VoidModal == Confirmation

\* The form stands in place of the profile and its Edit button.
BusinessInfoForm == Modal({"row"}, "all")
TaxRateForm      == Inline({"row", "new"})

\* Add Setting resets the category alone; inputs that are mounted keep the rest.
SettingForm      == [Inline({"row", "new"}) EXCEPT !.renews = {"main"}]

Dialogs == {UserModal, ResetPasswordModal, ProductModal, PriceModal, RestockModal,
            CategoryModal, DeleteConfirmModal, SupplierModal, ConfirmDeleteModal,
            ContactModal, InventoryRestock, InventoryAdjust, CustomerForm,
            SettlementForm, VoidModal, BusinessInfoForm, TaxRateForm, SettingForm}
=============================================================================
