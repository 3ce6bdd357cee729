--------------------------------- MODULE Forms ---------------------------------
(***************************************************************************)
(* The forms that file something new, and what the server takes: what a    *)
(* form sends and when its button is enabled (page), which fields a        *)
(* request must and may have (DTO; any other field is refused), and how    *)
(* the service guards against a second copy.  Fields are modelled by their *)
(* names: a request that has the right ones may still be refused for what  *)
(* is in them.  Fields of a line begin with "item.".                       *)
(***************************************************************************)
EXTENDS Sequences, FiniteSets

Dto(must, may) == [must |-> must, may |-> may]

\* "asks": in every request, filled in or left empty; "offers": sent only when
\* filled in.  "buttons": the calls each button makes, one after the other.
Form(asks, offers, buttons) == [asks |-> asks, offers |-> offers, buttons |-> buttons]

\* "guard" against copies: none, a unique code, or a look for one that is active.
\* "keyed": wants an Idempotency-Key.
Filing(dto, guard) == [dto |-> dto, guard |-> guard, keyed |-> FALSE]

KeyedFiling(dto) == [dto |-> dto, guard |-> "none", keyed |-> TRUE]

Item == {"item.productId", "item.unitId", "item.quantity", "item.baseQuantity"}

(* Selling. *)

InvoiceDto ==
  Dto({"branchId", "warehouseId", "sourceLocationId", "items", "item.unitPrice"} \cup Item,
      {"retailerId", "item.batchId", "item.discountAmount", "item.taxAmount"})

CreateInvoice == Filing(InvoiceDto, "none")

InvoiceForm ==
  Form({"branchId", "warehouseId", "sourceLocationId", "items", "item.unitPrice", "item.discountAmount",
        "item.taxAmount"} \cup Item,
       {"retailerId", "item.batchId"},
       {<<"invoice">>, <<"invoice", "post">>, <<"invoice", "post", "payment">>})

PaymentDto == Dto({"branchId", "amount", "method"}, {"retailerId", "invoiceId", "referenceNumber"})

CreatePayment == KeyedFiling(PaymentDto)

PaymentForm == Form({"amount", "method"}, {"branchId", "retailerId", "invoiceId", "referenceNumber"}, {<<"payment">>})

OrderDto ==
  Dto({"branchId", "salesRepId", "retailerId", "items", "item.productId", "item.quantity"},
      {"routeId", "channel", "idempotencyKey", "notes", "item.batchId", "item.unitId", "item.notes"})

CreateOrder == Filing(OrderDto, "none")

OrderForm ==
  Form({"branchId", "salesRepId", "retailerId", "items", "item.unitPrice"} \cup Item,
       {"routeId", "notes", "item.batchId"}, {<<"order">>})

PortalOrderDto ==
  Dto({"items", "item.productId", "item.unitId", "item.quantity"}, {"notes", "item.batchId"})

PlaceOrder == KeyedFiling(PortalOrderDto)

PortalOrderForm ==
  Form({"items", "item.productId", "item.unitId", "item.quantity"}, {"notes", "item.batchId"}, {<<"portalOrder">>})

QuickReorderForm == Form({"items", "item.productId", "item.unitId", "item.quantity"}, {}, {<<"portalOrder">>})

DeliveryDto ==
  Dto({"branchId"},
      {"routeId", "vehicleRef", "driverName", "scheduledAt", "notes", "items", "item.retailerId", "item.invoiceId",
       "item.orderId", "item.notes"})

CreateDelivery == Filing(DeliveryDto, "none")

DeliveryForm ==
  Form({"branchId", "items"},
       {"routeId", "vehicleRef", "driverName", "scheduledAt", "notes", "item.retailerId", "item.invoiceId"},
       {<<"delivery">>})

(* Stock. *)

TransferEnds ==
  {"fromBranchId", "fromWarehouseId", "fromLocationId", "toBranchId", "toWarehouseId", "toLocationId"}

TransferDto ==
  Dto(TransferEnds \cup Item \cup {"items"}, {"notes", "externalReference", "item.batchId", "item.stockState"})

CreateTransfer == Filing(TransferDto, "none")

TransferForm ==
  Form(TransferEnds \cup Item \cup {"notes", "items", "item.stockState"}, {"item.batchId"}, {<<"transfer">>})

AdjustmentDto ==
  Dto({"branchId", "warehouseId", "locationId", "reason", "items", "item.productId", "item.unitId",
       "item.quantityDelta", "item.baseQuantityDelta"},
      {"notes", "item.batchId", "item.stockState", "item.reasonCode", "item.notes"})

CreateAdjustment == Filing(AdjustmentDto, "none")

AdjustmentForm ==
  Form({"branchId", "warehouseId", "locationId", "reason", "items", "item.productId", "item.unitId",
        "item.stockState", "item.quantityDelta", "item.baseQuantityDelta", "item.reasonCode"},
       {"notes", "item.batchId", "item.notes"}, {<<"adjustment">>})

DamageDto ==
  Dto({"branchId", "warehouseId", "locationId", "reason", "items", "item.damageType"} \cup Item,
      {"notes", "item.batchId", "item.notes"})

CreateDamage == Filing(DamageDto, "none")

DamageForm ==
  Form({"branchId", "warehouseId", "locationId", "reason", "items", "item.damageType"} \cup Item,
       {"notes", "item.batchId", "item.notes"}, {<<"damage">>})

\* The body of this route has no DTO class: nothing is looked at.
CountDto == Dto({}, {"branchId", "warehouseId", "locationId"})

StartCount == Filing(CountDto, "active")

CountForm == Form({"branchId", "warehouseId", "locationId"}, {}, {<<"count">>})

PurchaseDto ==
  Dto({"supplierId", "warehouseId", "items", "item.productId", "item.productUnitId", "item.orderedQuantity",
       "item.unitCost"}, {"expectedDate", "notes"})

CreatePurchase == Filing(PurchaseDto, "none")

PurchaseForm ==
  Form({"supplierId", "warehouseId", "notes", "items", "item.productId", "item.productUnitId",
        "item.orderedQuantity", "item.unitCost"}, {}, {<<"purchase">>})

(* Who and what there is. *)

SupplierContact == {"contactPerson", "phone", "email", "address", "taxIdentifier"}

SupplierDto == Dto({"supplierCode", "name"}, SupplierContact)

CreateSupplier == Filing(SupplierDto, "code")

SupplierForm == Form({"supplierCode", "name"}, SupplierContact, {<<"supplier">>})

RetailerDto ==
  Dto({"branchId", "code", "shopName", "ownerName", "phone"}, {"address", "creditLimit"})

CreateRetailer == Filing(RetailerDto, "code")

RetailerForm ==
  Form({"branchId", "shopName", "code", "phone", "creditLimit", "ownerName", "address"}, {}, {<<"retailer">>})

SalesRepDto == Dto({"userId", "branchId", "employeeCode"}, {})

CreateSalesRep == Filing(SalesRepDto, "code")

SalesRepForm == Form({"userId", "branchId", "employeeCode"}, {}, {<<"salesRep">>})

\* Mutant: the description of a route is not listed.
RouteDtoBare ==
  Dto({"branchId", "salesRepId", "code", "name"}, {"stops", "item.retailerId", "item.stopOrder", "item.notes"})

RouteDto ==
  Dto({"branchId", "salesRepId", "code", "name"},
      {"description", "stops", "item.retailerId", "item.stopOrder", "item.notes"})

CreateRoute == Filing(RouteDto, "code")

RouteForm ==
  Form({"branchId", "salesRepId", "code", "name", "stops"},
       {"description", "item.retailerId", "item.stopOrder", "item.notes"}, {<<"route">>})

BranchDto == Dto({"code", "name", "city", "district"}, {"region", "phone", "email", "contactPerson"})

CreateBranch == Filing(BranchDto, "code")

BranchForm ==
  Form({"code", "name", "city", "district", "region", "phone", "email", "contactPerson"}, {}, {<<"branch">>})

WarehouseDto == Dto({"branchId", "code", "name"}, {})

CreateWarehouse == Filing(WarehouseDto, "code")

WarehouseForm == Form({"branchId", "code", "name"}, {}, {<<"warehouse">>})

ProductDto ==
  Dto({"skuCode", "name", "categoryId", "defaultUnitId"},
      {"description", "brandId", "barcode", "isBatchTracked", "isExpiryTracked", "costPrice", "mrp", "sellingPrice",
       "stock", "imageUrl", "packSize", "storefrontCategory", "isActive", "units"})

CreateProduct == Filing(ProductDto, "code")

ProductForm ==
  Form({"skuCode", "name", "categoryId", "defaultUnitId", "isBatchTracked", "isExpiryTracked"},
       {"barcode", "costPrice", "mrp"}, {<<"product">>})

PartnerDto == Dto({"name", "phone"}, {"email"})

CreatePartner == Filing(PartnerDto, "none")

PartnerForm == Form({"name", "phone"}, {"email"}, {<<"partner">>})
===============================================================================
